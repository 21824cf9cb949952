----------------------------- MODULE KcondProofs -----------------------------
(***************************************************************************)
(* Proofs about Kcond (and with it Tasks and Kmutex): mutual exclusion for *)
(* any set of tasks, and the rest for any set in which no task that can be *)
(* sent a signal sleeps with a timer.                                      *)
(***************************************************************************)
EXTENDS Kcond, WaitListsProofs

(* The invariant holds when the mutex and the condition are initialized. *)
LEMMA InitInv == KcondInit => KcondInv
<1> SUFFICES ASSUME KcondInit PROVE KcondInv
  OBVIOUS
<1> USE TaskAssumption, KmutexAssumption DEF KcondInit, KmutexInit, TasksInit
<1>1. KcondTypeOK /\ ~panic
  <2>1. TasksTypeOK
    <3>1. timerReady \in [Task -> BOOLEAN] /\ panic \in BOOLEAN
      BY Zenon
    <3>2. timer \in [Task -> 0..MaxTicks]
      OBVIOUS
    <3>3. state \in [Task -> TaskState] /\ wobj \in [Task -> WobjType]
      BY Zenon DEF TaskState, WobjType
    <3>. QED
      BY Zenon, <3>1, <3>2, <3>3 DEF TasksTypeOK, Location
  <2>2. mutexQ \in Seq(Task) /\ condQ \in Seq(Task) /\ lockCount \in 0..MaxDepth
    OBVIOUS
  <2>. QED
    BY Zenon, <2>1, <2>2 DEF KcondTypeOK, KmutexTypeOK
<1>2. SchedInv /\ AwakeInv /\ TimerInv
  BY DEF SchedInv, AwakeInv, TimerInv
<1>3. MutexInv
  BY DEF MutexInv, Distinct, InList, FirstCount
<1>4. CondInv
  BY DEF CondInv, Distinct, InList
<1>. QED
  BY Zenon, <1>1, <1>2, <1>3, <1>4 DEF KcondInv

(* The part of the state that tick_all_timers and do_schedule change.      *)
LEMMA TickInv ==
  ASSUME KcondInv, TickAllTimers, UNCHANGED <<mutexVars, condQ>>
  PROVE  KcondInv'
<1> USE TaskAssumption, KmutexAssumption
<1>1. KcondTypeOK' /\ ~panic'
  BY SMTT(60) DEF KcondInv, KcondTypeOK, KmutexTypeOK, TasksTypeOK, TaskState,
         TickAllTimers, mutexVars
<1>2. SchedInv' /\ AwakeInv' /\ TimerInv'
  BY SMTT(60) DEF KcondInv, KcondTypeOK, KmutexTypeOK, TasksTypeOK, TaskState,
         TickAllTimers, mutexVars, SchedInv, AwakeInv, TimerInv
<1>3. MutexInv'
  BY SMTT(60) DEF KcondInv, KcondTypeOK, KmutexTypeOK, TasksTypeOK, TaskState,
         TickAllTimers, mutexVars, TimerInv, MutexInv, FirstCount
<1>4. CondInv'
  BY Zenon DEF KcondInv, KcondTypeOK, KmutexTypeOK, TasksTypeOK, TaskState,
         TickAllTimers, mutexVars, TimerInv, CondInv
<1>. QED
  BY Zenon, <1>1, <1>2, <1>3, <1>4 DEF KcondInv

(* do_schedule keeps the invariant. *)
LEMMA ScheduleInv ==
  ASSUME KcondInv, DoSchedule, UNCHANGED <<mutexVars, condQ>>
  PROVE  KcondInv'
<1> USE TaskAssumption, KmutexAssumption
<1>1. KcondTypeOK' /\ ~panic'
  BY ZenonT(60) DEF KcondInv, KcondTypeOK, KmutexTypeOK, TasksTypeOK, TaskState,
         DoSchedule, ReturnImmediately, SwitchTo, Selectable, mutexVars
<1>2. \A t \in Task : /\ (state[t] = "SLEEPING") <=> (state'[t] = "SLEEPING")
                      /\ timerReady'[t] => timerReady[t]
                      /\ timerReady'[t] => state'[t] = "RUNNABLE"
                      /\ state'[t] = "RUNNING" => t = cur'
  BY SMTT(60) DEF KcondInv, KcondTypeOK, KmutexTypeOK, TasksTypeOK, TaskState, TimerInv,
         SchedInv, AwakeInv, DoSchedule, ReturnImmediately, SwitchTo, Selectable
<1>3. SchedInv' /\ AwakeInv' /\ TimerInv'
  BY Zenon, <1>2 DEF KcondInv, DoSchedule, mutexVars, SchedInv, AwakeInv, TimerInv
<1>4. MutexInv'
  BY Zenon, <1>2 DEF KcondInv, DoSchedule, mutexVars, MutexInv, FirstCount
<1>5. CondInv'
  BY Zenon, <1>2 DEF KcondInv, DoSchedule, CondInv
<1>. QED
  BY Zenon, <1>1, <1>3, <1>4, <1>5 DEF KcondInv

(* kmutex_lock up to the sleep. *)
LEMMA LockInv ==
  ASSUME KcondInv, NEW t \in Task, KmutexLock(t), UNCHANGED condQ
  PROVE  KcondInv'
<1> USE TaskAssumption, KmutexAssumption
<1>0. /\ t # Idle /\ t = cur /\ state[t] = "RUNNING" /\ ~panic
      /\ pc[t] \in {"out", "relock"}
      /\ KcondTypeOK /\ SchedInv /\ AwakeInv /\ TimerInv /\ MutexInv /\ CondInv
  BY Zenon DEF KcondInv, KmutexLock, At, Running
<1>1. CASE LockFree(t)
  <2>1. lockCount = 0 /\ mutexQ = <<>> /\ owner = NULL
    BY Zenon, <1>0, <1>1 DEF LockFree, MutexInv, KcondTypeOK, KmutexTypeOK, TasksTypeOK
  <2>2. /\ owner' = t /\ lockCount' = FirstCount /\ pc' = [pc EXCEPT ![t] = "cs"]
        /\ cur' = cur /\ state' = state /\ wobj' = wobj /\ timer' = timer
        /\ timerReady' = timerReady /\ pending' = pending /\ panic' = panic /\ mutexQ' = mutexQ
    BY SMTT(60), <1>1, <2>1 DEF LockFree, FirstCount, Goto, taskVars
  <2>3. KcondTypeOK' /\ ~panic'
    BY SMTT(60), <1>0, <2>2 DEF FirstCount, Location, KcondTypeOK, KmutexTypeOK, TasksTypeOK
  <2>4. SchedInv' /\ AwakeInv' /\ TimerInv'
    BY Zenon, <1>0, <2>2 DEF KcondTypeOK, KmutexTypeOK, TasksTypeOK, SchedInv, AwakeInv, TimerInv
  <2>5. MutexInv'
    BY SMTT(60), <1>0, <2>1, <2>2 DEF FirstCount, MutexInv, KcondTypeOK, KmutexTypeOK, TasksTypeOK
  <2>6. CondInv'
    BY Zenon, <1>0, <2>2 DEF CondInv, KcondTypeOK, KmutexTypeOK, TasksTypeOK
  <2>. QED
    BY Zenon, <2>3, <2>4, <2>5, <2>6 DEF KcondInv
<1>2. CASE LockBusy(t)
  <2>1. /\ CanPrepareToWait(t) /\ ~InList(mutexQ, t) /\ owner \notin {NULL, t}
        /\ Recursive => lockCount # 0
    BY Zenon, <1>0, <1>2 DEF LockBusy, CanPrepareToWait, AwakeInv, MutexInv
  <2>2. /\ owner' = owner /\ lockCount' = lockCount /\ pc' = [pc EXCEPT ![t] = "lock"]
        /\ cur' = cur /\ state' = [state EXCEPT ![t] = "SLEEPING"]
        /\ wobj' = [wobj EXCEPT ![t] = "KMUTEX"] /\ timer' = timer
        /\ timerReady' = timerReady /\ pending' = pending /\ panic' = panic
        /\ mutexQ' = Append(mutexQ, t)
    BY Zenon, <1>2, <2>1 DEF LockBusy, Goto
  <2>3. /\ mutexQ' \in Seq(Task) /\ Distinct(mutexQ') /\ mutexQ' # <<>>
        /\ \A u : InList(mutexQ', u) <=> u = t \/ InList(mutexQ, u)
    BY ZenonT(60), <1>0, <2>1, <2>2, AppendLemma DEF MutexInv, KcondTypeOK, KmutexTypeOK, TasksTypeOK
  <2>4. KcondTypeOK' /\ ~panic'
    BY Zenon, <1>0, <2>2, <2>3
       DEF TaskState, WobjType, Location, KcondTypeOK, KmutexTypeOK, TasksTypeOK
  <2>5. SchedInv' /\ AwakeInv' /\ TimerInv'
    BY SMTT(60), <1>0, <2>2 DEF KcondTypeOK, KmutexTypeOK, TasksTypeOK, SchedInv, AwakeInv, TimerInv
  <2>6. MutexInv'
    BY Zenon, <1>0, <2>1, <2>2, <2>3
       DEF FirstCount, MutexInv, KcondTypeOK, KmutexTypeOK, TasksTypeOK
  <2>7. CondInv'
    BY Zenon, <1>0, <2>2 DEF CondInv, KcondTypeOK, KmutexTypeOK, TasksTypeOK
  <2>. QED
    BY Zenon, <2>4, <2>5, <2>6, <2>7 DEF KcondInv
<1>. QED
  BY Zenon, <1>1, <1>2 DEF KmutexLock

(* The other ways to take the mutex: coming back from the sleep in         *)
(* kmutex_lock, kmutex_trylock, and a nested lock.                         *)
LEMMA AcquireInv ==
  ASSUME KcondInv, NEW t \in Task, UNCHANGED condQ,
         KmutexLockWoken(t) \/ KmutexTrylock(t) \/ KmutexNest(t)
  PROVE  KcondInv'
<1> USE TaskAssumption, KmutexAssumption
<1>0. /\ t # Idle /\ t = cur /\ state[t] = "RUNNING" /\ ~panic
      /\ KcondTypeOK /\ SchedInv /\ AwakeInv /\ TimerInv /\ MutexInv /\ CondInv
  BY Zenon DEF KcondInv, KmutexLockWoken, KmutexTrylock, KmutexNest, At, Running
<1>1. /\ owner' = t /\ lockCount' \in 0..MaxDepth /\ mutexQ' = mutexQ
      /\ (lockCount' = 0 <=> ~Recursive)
      /\ pc' = [pc EXCEPT ![t] = "cs"] /\ wobj[t] = "NONE"
      /\ \/ pc[t] = "out" /\ mutexQ = <<>> /\ owner = NULL
         \/ pc[t] \in {"lock", "cs"} /\ owner = t
      /\ UNCHANGED taskVars
  <2>1. CASE KmutexLockWoken(t)
    <3>1. owner = t /\ lockCount = FirstCount /\ pc[t] = "lock" /\ wobj[t] = "NONE"
      BY Zenon, <1>0, <2>1 DEF KmutexLockWoken, At, MutexInv
    <3>. QED
      BY SMTT(60), <1>0, <2>1, <3>1
         DEF KmutexLockWoken, At, Goto, mutexVars, FirstCount, KcondTypeOK, KmutexTypeOK, TasksTypeOK
  <2>2. CASE KmutexTrylock(t)
    <3>1. lockCount = 0 /\ mutexQ = <<>> /\ wobj[t] = "NONE"
      BY Zenon, <1>0, <2>2 DEF KmutexTrylock, At, MutexInv, AwakeInv
    <3>. QED
      BY SMTT(60), <1>0, <2>2, <3>1 DEF KmutexTrylock, FirstCount, At, Goto
  <2>3. CASE KmutexNest(t)
    <3>1. lockCount' \in 1..MaxDepth /\ wobj[t] = "NONE"
      BY SMTT(60), <1>0, <2>3 DEF KmutexNest, At, AwakeInv, KcondTypeOK, KmutexTypeOK, TasksTypeOK
    <3>2. pc = [pc EXCEPT ![t] = "cs"]
      BY Zenon, <1>0, <2>3 DEF KmutexNest, At, KcondTypeOK, KmutexTypeOK, TasksTypeOK
    <3>. QED
      BY SMTT(60), <1>0, <2>3, <3>1, <3>2 DEF KmutexNest, At
  <2>. QED
    BY Zenon, <2>1, <2>2, <2>3
<1>2. UNCHANGED <<cur, state, wobj, timer, timerReady, pending, panic>>
  BY Zenon, <1>1 DEF taskVars
<1>3. KcondTypeOK' /\ ~panic'
  BY Zenon, <1>0, <1>1, <1>2 DEF Location, KcondTypeOK, KmutexTypeOK, TasksTypeOK
<1>4. SchedInv' /\ AwakeInv' /\ TimerInv'
  BY Zenon, <1>0, <1>1, <1>2 DEF KcondTypeOK, KmutexTypeOK, TasksTypeOK, SchedInv, AwakeInv, TimerInv
<1>5. MutexInv'
  BY SMTT(60), <1>0, <1>1, <1>2 DEF MutexInv, InList, KcondTypeOK, KmutexTypeOK, TasksTypeOK
<1>6. CondInv'
  BY Zenon, <1>0, <1>1, <1>2 DEF CondInv, KcondTypeOK, KmutexTypeOK, TasksTypeOK
<1>. QED
  BY Zenon, <1>3, <1>4, <1>5, <1>6 DEF KcondInv

(* What is known after HandOver by task t, whose own state and wait object *)
(* are then st and wo.                                                     *)
HandedOver(t, st, wo) ==
  /\ mutexQ' \in Seq(Task) /\ Distinct(mutexQ')
  /\ owner' \in Task \cup {NULL} /\ owner' # t
  /\ lockCount' \in 0..MaxDepth
  /\ lockCount' = IF owner' = NULL THEN 0 ELSE FirstCount
  /\ mutexQ' # <<>> => owner' # NULL
  /\ \A u \in Task : InList(mutexQ', u) <=> u # owner' /\ InList(mutexQ, u)
  /\ owner' # NULL => InList(mutexQ, owner') /\ pc[owner'] = "lock"
  /\ state' \in [Task -> TaskState] /\ wobj' \in [Task -> WobjType]
  /\ state'[t] = st /\ wobj'[t] = wo
  /\ \A u \in Task \ {t} :
       /\ state'[u] = IF u = owner' THEN "RUNNABLE" ELSE state[u]
       /\ wobj'[u] = IF u = owner' THEN "NONE" ELSE wobj[u]

(* Handing the mutex over, at the end of kmutex_unlock: the waiter that    *)
(* gets it was asleep, and is now awake, the owner, and out of the list.   *)
LEMMA HandOverLemma ==
  ASSUME KcondInv, NEW t \in Task, t = cur, owner = t, pc[t] = "cs",
         NEW st \in [Task -> TaskState], NEW wo \in [Task -> WobjType],
         \A u \in Task \ {t} : st[u] = state[u] /\ wo[u] = wobj[u],
         HandOver(st, wo)
  PROVE  HandedOver(t, st[t], wo[t])
<1> USE TaskAssumption, KmutexAssumption
<1>0. KcondTypeOK /\ MutexInv
  BY Zenon DEF KcondInv
<1>1. CASE mutexQ = <<>>
  <2>1. /\ owner' = NULL /\ lockCount' = 0 /\ mutexQ' = <<>>
        /\ state' = WakeUp(st, NULL) /\ wobj' = WaitObjReset(wo, NULL)
    BY Zenon, <1>1 DEF HandOver, Successor
  <2>2. state' = st /\ wobj' = wo
    BY Zenon, <2>1 DEF WakeUp, WaitObjReset
  <2>. QED
    BY SMTT(60), <1>0, <1>1, <2>1, <2>2 DEF HandedOver, MutexInv, KcondTypeOK, KmutexTypeOK, TasksTypeOK, InList
<1>2. CASE mutexQ # <<>>
  <2>1. /\ Head(mutexQ) \in Task /\ InList(mutexQ, Head(mutexQ))
        /\ Tail(mutexQ) \in Seq(Task) /\ Distinct(Tail(mutexQ))
        /\ \A u : InList(Tail(mutexQ), u) <=> u # Head(mutexQ) /\ InList(mutexQ, u)
    BY Zenon, <1>0, <1>2, TailLemma DEF MutexInv, KcondTypeOK, KmutexTypeOK, TasksTypeOK
  <2>2. /\ owner' = Head(mutexQ) /\ lockCount' = FirstCount /\ mutexQ' = Tail(mutexQ)
        /\ state' = WakeUp(st, Head(mutexQ)) /\ wobj' = WaitObjReset(wo, Head(mutexQ))
    BY Zenon, <1>2 DEF HandOver, Successor
  <2>3. Head(mutexQ) # t /\ pc[Head(mutexQ)] = "lock"
    BY Zenon, <1>0, <2>1 DEF MutexInv
  <2>4. /\ state' \in [Task -> TaskState] /\ wobj' \in [Task -> WobjType]
        /\ state'[t] = st[t] /\ wobj'[t] = wo[t]
        /\ \A u \in Task \ {t} :
             /\ state'[u] = IF u = owner' THEN "RUNNABLE" ELSE state[u]
             /\ wobj'[u] = IF u = owner' THEN "NONE" ELSE wobj[u]
    BY Zenon, <2>2, <2>3 DEF WakeUp, WaitObjReset, TaskState, WobjType
  <2>. QED
    BY SMTT(60), <2>1, <2>2, <2>3, <2>4 DEF HandedOver, FirstCount
<1>. QED
  BY Zenon, <1>1, <1>2

(* The ASSERTs of kmutex_unlock hold whenever a task inside calls it.      *)
LEMMA CanUnlockLemma ==
  ASSUME KcondInv, NEW t \in Task, pc[t] = "cs"
  PROVE  CanUnlock(t)
<1> USE TaskAssumption, KmutexAssumption
<1>1. KcondTypeOK /\ MutexInv /\ owner = t
  BY Zenon DEF KcondInv, MutexInv
<1>2. Recursive => lockCount > 0
  BY SMTT(60), <1>1 DEF KcondTypeOK, KmutexTypeOK, TasksTypeOK, MutexInv
<1>3. ASSUME mutexQ # <<>> PROVE state[Head(mutexQ)] = "SLEEPING"
  <2>1. Head(mutexQ) \in Task /\ InList(mutexQ, Head(mutexQ))
    BY Zenon, <1>1, <1>3, TailLemma DEF MutexInv, KcondTypeOK, KmutexTypeOK, TasksTypeOK
  <2>. QED
    BY Zenon, <1>1, <2>1 DEF MutexInv
<1>. QED
  BY Zenon, <1>1, <1>2, <1>3 DEF CanUnlock

(* Giving the mutex up, to leave or to sleep on the condition, keeps the   *)
(* part of the invariant that is about the mutex.                          *)
LEMMA ReleaseLemma ==
  ASSUME KcondInv, NEW t \in Task, pc[t] = "cs",
         NEW l \in {"out", "wait"}, pc' = [pc EXCEPT ![t] = l],
         NEW st, NEW wo, HandedOver(t, st, wo)
  PROVE  MutexInv'
<1>1. KcondTypeOK /\ MutexInv /\ owner = t
  BY Zenon DEF KcondInv, MutexInv
<1>2. pc'[t] = l /\ \A u \in Task \ {t} : pc'[u] = pc[u]
  BY Zenon, <1>1 DEF KcondTypeOK, KmutexTypeOK, TasksTypeOK
<1>3. ASSUME NEW u \in Task
      PROVE  /\ pc'[u] = "cs" => owner' = u
             /\ pc'[u] = "lock" => IF owner' = u
                                   THEN state'[u] # "SLEEPING" /\ wobj'[u] = "NONE"
                                   ELSE /\ state'[u] = "SLEEPING" /\ wobj'[u] = "KMUTEX"
                                        /\ InList(mutexQ', u)
             /\ owner' = u => pc'[u] \in {"cs", "lock"}
             /\ InList(mutexQ', u) => pc'[u] = "lock" /\ owner' # u
  <2>1. CASE u = t
    BY Zenon, <1>1, <1>2, <2>1 DEF MutexInv, HandedOver
  <2>2. CASE u # t
    <3>1. /\ pc'[u] = pc[u] /\ pc[u] # "cs" /\ owner # u
          /\ state'[u] = IF u = owner' THEN "RUNNABLE" ELSE state[u]
          /\ wobj'[u] = IF u = owner' THEN "NONE" ELSE wobj[u]
      BY Zenon, <1>1, <1>2, <2>2 DEF MutexInv, HandedOver
    <3>2. /\ pc[u] = "lock" => /\ state[u] = "SLEEPING" /\ wobj[u] = "KMUTEX"
                               /\ InList(mutexQ, u)
          /\ InList(mutexQ, u) => pc[u] = "lock"
          /\ InList(mutexQ', u) <=> u # owner' /\ InList(mutexQ, u)
          /\ owner' = u => InList(mutexQ, u)
      BY Zenon, <1>1, <3>1, KmutexAssumption DEF MutexInv, HandedOver
    <3>. QED
      BY Zenon, <3>1, <3>2
  <2>. QED
    BY Zenon, <2>1, <2>2
<1>4. /\ Distinct(mutexQ')
      /\ mutexQ' # <<>> => owner' # NULL
      /\ lockCount' = 0 <=> owner' = NULL \/ ~Recursive
      /\ owner' # NULL /\ pc'[owner'] = "lock" => lockCount' = FirstCount
  BY KmutexAssumption DEF HandedOver, FirstCount
<1>. QED
  BY Zenon, <1>3, <1>4 DEF MutexInv, FirstCount

(* No ASSERT of kmutex_unlock can fail, and it preserves the invariant.    *)
LEMMA UnlockInv ==
  ASSUME KcondInv, NEW t \in Task, KmutexUnlock(t), UNCHANGED condQ
  PROVE  KcondInv'
<1> USE TaskAssumption, KmutexAssumption
<1>0. /\ t # Idle /\ t = cur /\ state[t] = "RUNNING" /\ ~panic
      /\ pc[t] = "cs" /\ owner = t /\ wobj[t] = "NONE"
      /\ KcondTypeOK /\ SchedInv /\ AwakeInv /\ TimerInv /\ MutexInv /\ CondInv
  <2>1. At(t, "cs")
    BY ZenonT(60) DEF KmutexUnlock
  <2>2. KcondTypeOK /\ SchedInv /\ AwakeInv /\ TimerInv /\ MutexInv /\ CondInv /\ ~panic
    BY Zenon DEF KcondInv
  <2>. QED
    BY Zenon, <2>1, <2>2 DEF At, Running, MutexInv, AwakeInv
<1>1. CanUnlock(t)
  BY Zenon, <1>0, CanUnlockLemma
<1>2. CASE lockCount > 1
  <2>1. /\ lockCount' = lockCount - 1
        /\ UNCHANGED <<cur, state, wobj, timer, timerReady, pending, panic, owner, mutexQ, pc>>
    BY SMTT(60), <1>0, <1>1, <1>2 DEF KmutexUnlock, taskVars, KcondTypeOK, KmutexTypeOK, TasksTypeOK
  <2>2. lockCount' \in 1..MaxDepth
    BY SMTT(60), <1>0, <1>2, <2>1 DEF KcondTypeOK, KmutexTypeOK, TasksTypeOK
  <2>3. KcondTypeOK' /\ ~panic'
    BY <1>0, <2>1, <2>2 DEF KcondTypeOK, KmutexTypeOK, TasksTypeOK
  <2>4. SchedInv' /\ AwakeInv' /\ TimerInv' /\ CondInv'
    BY ZenonT(60), <1>0, <2>1 DEF SchedInv, AwakeInv, TimerInv, CondInv
  <2>5. MutexInv'
    <3>1. Recursive /\ owner # NULL /\ pc[owner] # "lock" /\ lockCount' # 0
      BY SMTT(60), <1>0, <1>2, <2>2 DEF MutexInv
    <3>. QED
      BY ZenonT(60), <1>0, <2>1, <3>1 DEF MutexInv
  <2>. QED
    BY ZenonT(60), <2>3, <2>4, <2>5 DEF KcondInv
<1>3. CASE ~(lockCount > 1)
  <2>1. /\ HandOver(state, wobj) /\ pc' = [pc EXCEPT ![t] = "out"]
        /\ UNCHANGED <<cur, timer, timerReady, pending, panic>>
    BY Zenon, <1>0, <1>1, <1>3 DEF KmutexUnlock, Goto, KcondTypeOK, KmutexTypeOK, TasksTypeOK
  <2>2. HandedOver(t, state[t], wobj[t])
    BY ZenonT(60), <1>0, <2>1, HandOverLemma DEF KcondTypeOK, KmutexTypeOK, TasksTypeOK
  <2>3. KcondTypeOK' /\ ~panic'
    BY ZenonT(60), <1>0, <2>1, <2>2
       DEF HandedOver, Location, KcondTypeOK, KmutexTypeOK, TasksTypeOK
  <2>4. SchedInv' /\ AwakeInv' /\ TimerInv'
    BY SMTT(60), <1>0, <2>1, <2>2
       DEF HandedOver, KcondTypeOK, KmutexTypeOK, TasksTypeOK, SchedInv, AwakeInv, TimerInv
  <2>5. MutexInv'
    BY ZenonT(60), <1>0, <2>1, <2>2, ReleaseLemma
  <2>6. CondInv'
    BY SMTT(60), <1>0, <2>1, <2>2 DEF HandedOver, CondInv, KcondTypeOK, KmutexTypeOK, TasksTypeOK
  <2>. QED
    BY Zenon, <2>3, <2>4, <2>5, <2>6 DEF KcondInv
<1>. QED
  BY Zenon, <1>2, <1>3

(* Sleeping in kernel_sleep and in sys_pause, and coming back.             *)
LEMMA SleepInv ==
  ASSUME KcondInv, NEW t \in Task, UNCHANGED <<mutexVars, condQ>>,
         \/ t \in TimedTask /\ \E n \in 1..MaxTicks : KernelSleep(t, n)
         \/ TaskStep(t)
  PROVE  KcondInv'
<1> USE TaskAssumption, KmutexAssumption
<1>0. /\ KcondTypeOK /\ SchedInv /\ AwakeInv /\ TimerInv /\ MutexInv /\ CondInv
      /\ ~panic
  BY Zenon DEF KcondInv
<1>1. /\ t # Idle /\ t = cur /\ state[t] = "RUNNING" /\ ~timerReady[t]
      /\ pc[t] \in {"out", "nap", "pause"} /\ wobj[t] = "NONE" /\ timer[t] = 0
      /\ owner # t /\ ~InList(mutexQ, t) /\ ~InList(condQ, t)
  <2>1. t # Idle /\ t = cur /\ state[t] = "RUNNING" /\ pc[t] \in {"out", "nap", "pause"}
    BY Zenon DEF KernelSleep, TaskStep, KernelSleepWoken, SysPause, ProcessSignals, At, Running
  <2>. QED
    BY SMTT(60), <1>0, <2>1 DEF AwakeInv, TimerInv, MutexInv, CondInv,
                      KcondTypeOK, KmutexTypeOK, TasksTypeOK
<1>2. /\ cur' = cur /\ wobj' = wobj /\ timerReady' = timerReady /\ panic' = panic
      /\ owner' = owner /\ lockCount' = lockCount /\ mutexQ' = mutexQ /\ condQ' = condQ
  BY Zenon DEF KernelSleep, TaskStep, KernelSleepWoken, SysPause, ProcessSignals,
         taskVars, mutexVars
<1>3. /\ pc' \in [Task -> Location] /\ state' \in [Task -> TaskState]
      /\ timer' \in [Task -> 0..MaxTicks] /\ pending' \subseteq pending
      /\ \A u \in Task \ {t} : pc'[u] = pc[u] /\ state'[u] = state[u] /\ timer'[u] = timer[u]
      /\ \/ pc'[t] = "out" /\ state'[t] = "RUNNING" /\ timer'[t] = 0
         \/ pc'[t] = "nap" /\ state'[t] = "SLEEPING" /\ timer'[t] > 0 /\ t \in TimedTask
         \/ pc'[t] = "pause" /\ state'[t] = "SLEEPING" /\ timer'[t] = 0 /\ t \notin pending
  <2> USE DEF KcondTypeOK, KmutexTypeOK, TasksTypeOK, Goto, Location, TaskState
  <2>1. CASE t \in TimedTask /\ \E n \in 1..MaxTicks : KernelSleep(t, n)
    BY SMTT(60), <1>0, <1>1, <2>1 DEF KernelSleep
  <2>2. CASE KernelSleepWoken(t)
    BY Zenon, <1>0, <1>1, <2>2 DEF KernelSleepWoken, taskVars
  <2>3. CASE SysPause(t) /\ t \in pending
    <3>1. pc' = [pc EXCEPT ![t] = "out"] /\ state' = state /\ timer' = timer /\ pending' = pending
      BY Zenon, <1>1, <2>3 DEF SysPause, taskVars
    <3>2. /\ pc \in [Task -> Location] /\ state \in [Task -> TaskState]
          /\ timer \in [Task -> 0..MaxTicks]
      BY Zenon, <1>0
    <3> HIDE DEF KcondTypeOK, KmutexTypeOK, TasksTypeOK, Goto
    <3>. QED
      BY Zenon, <1>1, <3>1, <3>2
  <2>3a. CASE SysPause(t) /\ t \notin pending
    <3>1. /\ pc' = [pc EXCEPT ![t] = "pause"] /\ state' = [state EXCEPT ![t] = "SLEEPING"]
          /\ timer' = timer /\ pending' = pending
      BY Zenon, <2>3a DEF SysPause
    <3>2. /\ pc \in [Task -> Location] /\ state \in [Task -> TaskState]
          /\ timer \in [Task -> 0..MaxTicks]
      BY Zenon, <1>0
    <3> HIDE DEF KcondTypeOK, KmutexTypeOK, TasksTypeOK, Goto
    <3>. QED
      BY Zenon, <1>1, <2>3a, <3>1, <3>2
  <2>4. CASE ProcessSignals(t)
    BY Zenon, <1>0, <1>1, <2>4 DEF ProcessSignals, At
  <2> HIDE DEF KcondTypeOK, KmutexTypeOK, TasksTypeOK, Goto, Location, TaskState
  <2>. QED
    BY ZenonT(60), <2>1, <2>2, <2>3, <2>3a, <2>4 DEF TaskStep
<1>4. KcondTypeOK' /\ ~panic'
  BY Zenon, <1>0, <1>2, <1>3 DEF KcondTypeOK, KmutexTypeOK, TasksTypeOK
<1>5. SchedInv' /\ AwakeInv'
  BY SMTT(60), <1>0, <1>1, <1>2, <1>3
     DEF SchedInv, AwakeInv, KcondTypeOK, KmutexTypeOK, TasksTypeOK
<1>6. TimerInv'
  BY SMTT(60), <1>0, <1>1, <1>2, <1>3 DEF TimerInv, KcondTypeOK, KmutexTypeOK, TasksTypeOK
<1>7. MutexInv'
  BY SMTT(60), <1>0, <1>1, <1>2, <1>3
     DEF MutexInv, FirstCount, KcondTypeOK, KmutexTypeOK, TasksTypeOK
<1>8. CondInv'
  BY SMTT(60), <1>0, <1>1, <1>2, <1>3 DEF CondInv, KcondTypeOK, KmutexTypeOK, TasksTypeOK
<1>. QED
  BY Zenon, <1>4, <1>5, <1>6, <1>7, <1>8 DEF KcondInv

(* A signal to a task that sleeps in no wait list: it can only be in       *)
(* sys_pause, and is woken up.                                             *)
LEMMA SendSignalInv ==
  ASSUME KcondInv, NoTimedUser, NEW u \in UserTask, SendSignal(u),
         UNCHANGED <<mutexVars, condQ>>
  PROVE  KcondInv'
<1> USE TaskAssumption, KmutexAssumption
<1>0. /\ KcondTypeOK /\ SchedInv /\ AwakeInv /\ TimerInv /\ MutexInv /\ CondInv
      /\ ~panic /\ u \in Task
  BY Zenon DEF KcondInv
<1>1. /\ cur' = cur /\ wobj' = wobj /\ timer' = timer /\ timerReady' = timerReady
      /\ panic' = panic /\ pc' = pc /\ pending' = pending \cup {u}
      /\ owner' = owner /\ lockCount' = lockCount /\ mutexQ' = mutexQ /\ condQ' = condQ
  BY Zenon DEF SendSignal, mutexVars
<1>2. CASE SignalWakesUp(u)
  <2>1. state[u] = "SLEEPING" /\ pc[u] = "pause" /\ u # cur
    BY Zenon, <1>0, <1>2 DEF SignalWakesUp, SendSignal, Running, NoTimedUser, Location,
       AwakeInv, TimerInv, MutexInv, CondInv, SchedInv,
       KcondTypeOK, KmutexTypeOK, TasksTypeOK
  <2>2. state' = [state EXCEPT ![u] = "RUNNABLE"]
    BY ZenonT(60), <1>0, <1>2, <2>1 DEF SendSignal, WakeUp, KcondTypeOK, KmutexTypeOK, TasksTypeOK
  <2>3. KcondTypeOK' /\ ~panic'
    BY Zenon, <1>0, <1>1, <2>2 DEF TaskState, KcondTypeOK, KmutexTypeOK, TasksTypeOK
  <2>4. SchedInv' /\ AwakeInv' /\ TimerInv'
    BY Zenon, <1>0, <1>1, <2>1, <2>2
       DEF SchedInv, AwakeInv, TimerInv, KcondTypeOK, KmutexTypeOK, TasksTypeOK
  <2>5. MutexInv' /\ CondInv'
    BY Zenon, <1>0, <1>1, <2>1, <2>2
       DEF MutexInv, CondInv, FirstCount, KcondTypeOK, KmutexTypeOK, TasksTypeOK
  <2>. QED
    BY Zenon, <2>3, <2>4, <2>5 DEF KcondInv
<1>3. CASE ~SignalWakesUp(u)
  <2>1. state' = state /\ (pc[u] = "pause" => state[u] # "SLEEPING")
    BY ZenonT(60), <1>0, <1>3 DEF SendSignal, SignalWakesUp, TimerInv
  <2>2. KcondTypeOK' /\ ~panic'
    BY Zenon, <1>0, <1>1, <2>1 DEF KcondTypeOK, KmutexTypeOK, TasksTypeOK
  <2>3. SchedInv' /\ AwakeInv' /\ MutexInv' /\ CondInv'
    BY ZenonT(60), <1>0, <1>1, <2>1 DEF SchedInv, AwakeInv, MutexInv, CondInv
  <2>4. TimerInv'
    BY Zenon, <1>0, <1>1, <2>1 DEF TimerInv
  <2>. QED
    BY Zenon, <2>2, <2>3, <2>4 DEF KcondInv
<1>. QED
  BY Zenon, <1>2, <1>3

(* kcond_wait up to the sleep: no ASSERT can fail, and the invariant holds *)
(* when the task has been queued and the mutex passed on.                  *)
LEMMA WaitInv ==
  ASSUME KcondInv, NEW t \in Task, NEW n \in 0..MaxTicks, KcondWait(t, n),
         n > 0 => t \in TimedTask
  PROVE  KcondInv'
<1> USE TaskAssumption, KmutexAssumption
<1>0. /\ t # Idle /\ t = cur /\ state[t] = "RUNNING" /\ ~panic
      /\ pc[t] = "cs" /\ owner = t /\ wobj[t] = "NONE" /\ ~InList(condQ, t)
      /\ KcondTypeOK /\ SchedInv /\ AwakeInv /\ TimerInv /\ MutexInv /\ CondInv
  BY Zenon DEF KcondInv, KcondWait, At, Running, MutexInv, AwakeInv, CondInv
<1>1. CanUnlock(t) /\ CanPrepareToWait(t)
  BY ZenonT(60), <1>0, CanUnlockLemma DEF CanPrepareToWait
<1>. DEFINE st == [state EXCEPT ![t] = "SLEEPING"]
            wo == [wobj EXCEPT ![t] = "KCOND"]
<1>2. /\ condQ' = Append(condQ, t) /\ HandOver(st, wo)
      /\ timer' = IF n > 0 THEN [timer EXCEPT ![t] = n] ELSE timer
      /\ pc' = [pc EXCEPT ![t] = "wait"]
      /\ cur' = cur /\ timerReady' = timerReady /\ pending' = pending /\ panic' = panic
  BY Zenon, <1>1 DEF KcondWait, Goto
<1>3. HandedOver(t, "SLEEPING", "KCOND")
  <2>1. /\ st \in [Task -> TaskState] /\ wo \in [Task -> WobjType]
        /\ st[t] = "SLEEPING" /\ wo[t] = "KCOND"
        /\ \A u \in Task \ {t} : st[u] = state[u] /\ wo[u] = wobj[u]
    BY Zenon, <1>0 DEF TaskState, WobjType, KcondTypeOK, KmutexTypeOK, TasksTypeOK
  <2>2. HandOver(st, wo)
    BY Zenon, <1>2
  <2> HIDE DEF st, wo
  <2>3. HandedOver(t, st[t], wo[t])
    BY Zenon, <1>0, <2>1, <2>2, HandOverLemma
  <2>. QED
    BY Zenon, <2>1, <2>3
<1> HIDE DEF st, wo
<1>4. /\ condQ' \in Seq(Task) /\ Distinct(condQ')
      /\ \A u : InList(condQ', u) <=> u = t \/ InList(condQ, u)
  BY Zenon, <1>0, <1>2, AppendLemma DEF CondInv, KcondTypeOK
<1>5. /\ timer' \in [Task -> 0..MaxTicks] /\ pc' \in [Task -> Location]
      /\ pc'[t] = "wait" /\ (timer'[t] > 0 => t \in TimedTask)
      /\ \A u \in Task \ {t} : timer'[u] = timer[u] /\ pc'[u] = pc[u]
  BY Zenon, <1>0, <1>2 DEF Location, TimerInv, KcondTypeOK, KmutexTypeOK, TasksTypeOK
<1>6. KcondTypeOK' /\ ~panic'
  BY Zenon, <1>0, <1>2, <1>3, <1>4, <1>5
     DEF HandedOver, KcondTypeOK, KmutexTypeOK, TasksTypeOK
<1>7. SchedInv' /\ AwakeInv'
  <2>1. SchedInv'
    BY SMTT(60), <1>0, <1>2, <1>3, <1>5 DEF HandedOver, SchedInv
  <2>2. AwakeInv'
    BY SMTT(60), <1>0, <1>3, <1>5 DEF HandedOver, AwakeInv
  <2>. QED
    BY Zenon, <2>1, <2>2
<1>8. TimerInv'
  <2>1. \A u \in Task \ {t} : /\ timer'[u] = timer[u] /\ timerReady'[u] = timerReady[u]
                             /\ pc'[u] = pc[u] /\ (u \in pending' <=> u \in pending)
                             /\ (pc[u] # "lock" => state'[u] = state[u] /\ wobj'[u] = wobj[u])
    BY SMTT(60), <1>2, <1>3, <1>5 DEF HandedOver
  <2>2. state'[t] = "SLEEPING" /\ ~timerReady'[t] /\ pc'[t] = "wait"
    BY Zenon, <1>0, <1>2, <1>3, <1>5 DEF HandedOver, TimerInv
  <2>. DEFINE Ok(u) ==
         /\ timer[u] > 0 => /\ u \in TimedTask
                            /\ state[u] = "SLEEPING" /\ pc[u] \in {"nap", "wait"}
         /\ timerReady[u] => state[u] = "RUNNABLE" /\ pc[u] \in {"nap", "wait"}
         /\ pc[u] = "nap" => wobj[u] = "NONE" /\ (state[u] = "SLEEPING" => timer[u] > 0)
         /\ pc[u] = "pause" => wobj[u] = "NONE" /\ (state[u] = "SLEEPING" => u \notin pending)
  <2>3. Ok(t)'
    BY Zenon, <1>5, <2>2
  <2>4. ASSUME NEW u \in Task \ {t} PROVE Ok(u)'
    <3>1. Ok(u)
      BY Zenon, <1>0 DEF TimerInv
    <3>. QED
      BY Zenon, <2>1, <3>1
  <2>. QED
    BY Zenon, <2>3, <2>4 DEF TimerInv
<1>9. MutexInv'
  BY ZenonT(60), <1>0, <1>2, <1>3, ReleaseLemma
<1>10. CondInv'
  <2>1. \A u \in Task \ {t} : pc[u] = "wait" => state'[u] = state[u] /\ wobj'[u] = wobj[u]
    BY Zenon, <1>3 DEF HandedOver
  <2>2. wobj'[t] = "KCOND" /\ InList(condQ', t)
    BY Zenon, <1>3, <1>4 DEF HandedOver
  <2>. QED
    BY SMTT(60), <1>0, <1>4, <1>5, <2>1, <2>2 DEF CondInv
<1>. QED
  BY Zenon, <1>6, <1>7, <1>8, <1>9, <1>10 DEF KcondInv

(* kcond_wait after the sleep: the task leaves the list, if it is still    *)
(* there, before it locks the mutex again.                                 *)
LEMMA WaitWokenInv ==
  ASSUME KcondInv, NEW t \in Task, KcondWaitWoken(t)
  PROVE  KcondInv'
<1> USE TaskAssumption, KmutexAssumption
<1>0. /\ t # Idle /\ t = cur /\ state[t] = "RUNNING" /\ ~panic /\ pc[t] = "wait"
      /\ KcondTypeOK /\ SchedInv /\ AwakeInv /\ TimerInv /\ MutexInv /\ CondInv
  BY Zenon DEF KcondInv, KcondWaitWoken, At, Running
<1>1. /\ wobj' = [wobj EXCEPT ![t] = "NONE"] /\ pc' = [pc EXCEPT ![t] = "relock"]
      /\ UNCHANGED <<cur, state, timer, timerReady, pending, panic>>
      /\ UNCHANGED <<owner, lockCount, mutexQ>>
  BY ZenonT(60), <1>0 DEF KcondWaitWoken, WaitObjReset, Goto, mutexVars,
              KcondTypeOK, KmutexTypeOK, TasksTypeOK
<1>2. /\ condQ' \in Seq(Task) /\ Distinct(condQ')
      /\ \A u : InList(condQ', u) <=> u # t /\ InList(condQ, u)
  BY Zenon, <1>0, UnlinkLemma DEF KcondWaitWoken, CondInv, KcondTypeOK
<1>3. KcondTypeOK' /\ ~panic'
  BY Zenon, <1>0, <1>1, <1>2 DEF WobjType, Location, KcondTypeOK, KmutexTypeOK, TasksTypeOK
<1>4. SchedInv' /\ AwakeInv' /\ TimerInv'
  BY SMTT(60), <1>0, <1>1
     DEF SchedInv, AwakeInv, TimerInv, KcondTypeOK, KmutexTypeOK, TasksTypeOK
<1>5. MutexInv'
  BY Zenon, <1>0, <1>1 DEF MutexInv, FirstCount, KcondTypeOK, KmutexTypeOK, TasksTypeOK
<1>6. CondInv'
  BY Zenon, <1>0, <1>1, <1>2 DEF CondInv, KcondTypeOK, KmutexTypeOK, TasksTypeOK
<1>. QED
  BY Zenon, <1>3, <1>4, <1>5, <1>6 DEF KcondInv

(* Waking up a set S of tasks that sleep in kcond_wait, and removing them  *)
(* from the list, as kcond_signal_int does.                                *)
LEMMA SignalIntLemma ==
  ASSUME KcondInv, NEW S \in SUBSET Task, SignalInt(S),
         \A u \in S : state[u] = "SLEEPING" /\ InList(condQ, u),
         condQ' \in Seq(Task), Distinct(condQ'),
         \A u \in Task : InList(condQ', u) <=> u \notin S /\ InList(condQ, u)
  PROVE  KcondInv'
<1> USE TaskAssumption, KmutexAssumption
<1>0. /\ KcondTypeOK /\ SchedInv /\ AwakeInv /\ TimerInv /\ MutexInv /\ CondInv
      /\ ~panic /\ \A u \in S : pc[u] = "wait"
  BY Zenon DEF KcondInv, CondInv
<1>1. UNCHANGED <<cur, pending, panic, owner, lockCount, mutexQ, pc>>
  BY Zenon DEF SignalInt, mutexVars
<1>2. /\ state' \in [Task -> TaskState] /\ wobj' \in [Task -> WobjType]
      /\ timer' \in [Task -> 0..MaxTicks] /\ timerReady' \in [Task -> BOOLEAN]
  BY SMTT(60), <1>0 DEF SignalInt, TaskState, WobjType, KcondTypeOK, KmutexTypeOK, TasksTypeOK
<1>3. /\ \A u \in S : state'[u] = "RUNNABLE" /\ wobj'[u] = "NONE" /\ timer'[u] = 0
      /\ \A u \in Task \ S : state'[u] = state[u] /\ wobj'[u] = wobj[u] /\ timer'[u] = timer[u]
      /\ \A u \in Task : timerReady'[u] => timerReady[u]
  BY Zenon, <1>0 DEF SignalInt, KcondTypeOK, KmutexTypeOK, TasksTypeOK
<1>4. KcondTypeOK' /\ ~panic'
  BY Zenon, <1>0, <1>1, <1>2 DEF KcondTypeOK, KmutexTypeOK, TasksTypeOK
<1>5. SchedInv' /\ AwakeInv'
  BY SMTT(60), <1>0, <1>1, <1>3 DEF SchedInv, AwakeInv
<1>6. TimerInv'
  BY SMTT(60), <1>0, <1>1, <1>3 DEF TimerInv
<1>7. MutexInv'
  BY SMTT(60), <1>0, <1>1, <1>3 DEF MutexInv, FirstCount
<1>8. CondInv'
  BY <1>0, <1>1, <1>3 DEF CondInv
<1>. QED
  BY Zenon, <1>4, <1>5, <1>6, <1>7, <1>8 DEF KcondInv

(* kcond_signal_one and kcond_signal_all.                                  *)
LEMMA SignalInv ==
  ASSUME KcondInv, NEW t \in Task, KcondSignalOne(t) \/ KcondSignalAll(t)
  PROVE  KcondInv'
<1>0. KcondTypeOK /\ CondInv
  BY Zenon DEF KcondInv
<1>1. \A u \in Task : InList(condQ, u) => wobj[u] = "KCOND"
  BY Zenon, <1>0 DEF CondInv
<1>2. CASE KcondSignalOne(t)
  <2>. DEFINE h == Head(condQ)
  <2>1. /\ h \in Task /\ InList(condQ, h)
        /\ Tail(condQ) \in Seq(Task) /\ Distinct(Tail(condQ))
        /\ \A u : InList(Tail(condQ), u) <=> u # h /\ InList(condQ, u)
    BY Zenon, <1>0, <1>2, TailLemma DEF KcondSignalOne, CondInv, KcondTypeOK
  <2>2. state[h] = "SLEEPING" /\ SignalInt({h}) /\ condQ' = Tail(condQ)
    BY Zenon, <1>1, <1>2, <2>1 DEF KcondSignalOne, SignalPanics
  <2>. HIDE DEF h
  <2>. QED
    BY Zenon, <2>1, <2>2, SignalIntLemma
<1>3. CASE KcondSignalAll(t)
  <2>. DEFINE asleep == {u \in Task : InList(condQ, u) /\ state[u] = "SLEEPING"}
              kept == {u \in Task : InList(condQ, u)} \ asleep
  <2>2. ~SignalPanics(asleep)
    BY Zenon, <1>1 DEF SignalPanics
  <2>3. SignalInt(asleep)
    BY Zenon, <1>3, <2>2 DEF KcondSignalAll
  <2>4. PICK rest \in ListsOf(kept, Len(condQ)) :
          ListReduced(condQ, kept, rest) /\ condQ' = rest
    BY ZenonT(60), <1>3, <2>2 DEF KcondSignalAll
  <2>5. /\ asleep \in SUBSET Task /\ kept \in SUBSET Task
        /\ \A u \in asleep : state[u] = "SLEEPING" /\ InList(condQ, u)
        /\ \A u \in Task : u \in kept <=> u \notin asleep /\ InList(condQ, u)
    BY Zenon
  <2>. HIDE DEF asleep, kept
  <2>6. /\ rest \in Seq(Task) /\ Distinct(rest)
        /\ \A u : InList(rest, u) <=> u \in kept
    BY Zenon, <1>0, <2>4, <2>5, ReducedLemma DEF CondInv, KcondTypeOK
  <2>. QED
    BY Zenon, <2>3, <2>4, <2>5, <2>6, SignalIntLemma
<1>. QED
  BY Zenon, <1>2, <1>3

(* A signal to a task that sleeps in kcond_wait.  The task has no timer,   *)
(* because wake_up would leave it armed.                                   *)
LEMMA SendSignalToWaiterInv ==
  ASSUME KcondInv, NoTimedUser, NEW u \in UserTask, SendSignalToWaiter(u)
  PROVE  KcondInv'
<1> USE TaskAssumption, KmutexAssumption
<1>0. /\ KcondTypeOK /\ SchedInv /\ AwakeInv /\ TimerInv /\ MutexInv /\ CondInv
      /\ ~panic /\ u \in Task /\ u \notin TimedTask
  BY Zenon DEF KcondInv, NoTimedUser
<1>1. state[u] = "SLEEPING" /\ wobj[u] = "KCOND" /\ u # cur
  BY Zenon DEF SendSignalToWaiter, SignalWakesUp, Running
<1>2. pc[u] = "wait" /\ timer[u] = 0
  BY SMTT(60), <1>0, <1>1 DEF AwakeInv, TimerInv, MutexInv, SchedInv, Location,
                    KcondTypeOK, KmutexTypeOK, TasksTypeOK
<1>3. /\ state' = [state EXCEPT ![u] = "RUNNABLE"] /\ wobj' = [wobj EXCEPT ![u] = "NONE"]
      /\ pending' = pending \cup {u}
      /\ UNCHANGED <<cur, timer, timerReady, panic, owner, lockCount, mutexQ, pc>>
  <2>1. state' = [state EXCEPT ![u] = "RUNNABLE"]
    BY Zenon, <1>0, <1>1 DEF SendSignalToWaiter, WakeUp, KcondTypeOK, KmutexTypeOK, TasksTypeOK
  <2>2. wobj' = [wobj EXCEPT ![u] = "NONE"]
    BY Zenon, <1>0 DEF SendSignalToWaiter, WaitObjReset, KcondTypeOK, KmutexTypeOK, TasksTypeOK
  <2>. QED
    BY Zenon, <2>1, <2>2 DEF SendSignalToWaiter, mutexVars
<1>4. /\ condQ' \in Seq(Task) /\ Distinct(condQ')
      /\ \A v : InList(condQ', v) <=> v # u /\ InList(condQ, v)
  BY ZenonT(60), <1>0, UnlinkLemma DEF SendSignalToWaiter, CondInv, KcondTypeOK
<1>5. KcondTypeOK' /\ ~panic'
  BY Zenon, <1>0, <1>3, <1>4 DEF TaskState, WobjType, KcondTypeOK, KmutexTypeOK, TasksTypeOK
<1>6. SchedInv' /\ AwakeInv' /\ TimerInv'
  BY SMTT(60), <1>0, <1>2, <1>3
     DEF SchedInv, AwakeInv, TimerInv, KcondTypeOK, KmutexTypeOK, TasksTypeOK
<1>7. MutexInv'
  BY Zenon, <1>0, <1>2, <1>3 DEF MutexInv, FirstCount, KcondTypeOK, KmutexTypeOK, TasksTypeOK
<1>8. CondInv'
  BY Zenon, <1>0, <1>2, <1>3, <1>4 DEF CondInv, KcondTypeOK, KmutexTypeOK, TasksTypeOK
<1>. QED
  BY Zenon, <1>5, <1>6, <1>7, <1>8 DEF KcondInv

-----------------------------------------------------------------------------
(* KcondInv is inductive. *)
LEMMA NextInv ==
  ASSUME NoTimedUser, KcondInv, [KcondNext]_kcondVars
  PROVE  KcondInv'
<1>1. CASE KmutexNext /\ UNCHANGED condQ
  <2>1. CASE \E t \in Task : KmutexStep(t)
    BY Zenon, <1>1, <2>1, LockInv, AcquireInv, UnlockInv DEF KmutexStep
  <2>2. CASE TasksNext /\ UNCHANGED mutexVars
    <3>1. ~Halted
      BY Zenon DEF Halted, KcondInv
    <3>2. UNCHANGED <<mutexVars, condQ>>
      BY Zenon, <1>1, <2>2
    <3>3. CASE TickAllTimers \/ DoSchedule
      BY Zenon, <3>2, <3>3, TickInv, ScheduleInv
    <3>4. CASE \E t \in Task : TaskStep(t)
      BY Zenon, <3>2, <3>4, SleepInv
    <3>5. CASE \E t \in TimedTask, n \in 1..MaxTicks : KernelSleep(t, n)
      <4>1. PICK t \in TimedTask, n \in 1..MaxTicks : KernelSleep(t, n)
        BY Zenon, <3>5
      <4>2. t \in Task
        BY Zenon, TaskAssumption
      <4>. QED
        BY Zenon, <3>2, <4>1, <4>2, SleepInv
    <3>6. CASE \E u \in UserTask : SendSignal(u)
      BY Zenon, <3>2, <3>6, SendSignalInv
    <3>. QED
      BY Zenon, <2>2, <3>1, <3>3, <3>4, <3>5, <3>6 DEF TasksNext
  <2>. QED
    BY Zenon, <1>1, <2>1, <2>2 DEF KmutexNext
<1>2. ASSUME NEW t \in Task, KcondStep(t) PROVE KcondInv'
  <2>1. 0 \in 0..MaxTicks /\ \A n \in 1..MaxTicks : n \in 0..MaxTicks
    BY TaskAssumption
  <2>2. CASE KcondWait(t, 0)
    BY <2>1, <2>2, WaitInv
  <2>3. CASE t \in TimedTask /\ \E n \in 1..MaxTicks : KcondWait(t, n)
    BY Zenon, <2>1, <2>3, WaitInv
  <2>. QED
    BY Zenon, <1>2, <2>2, <2>3, WaitWokenInv, SignalInv DEF KcondStep
<1>3. CASE \E u \in UserTask : SendSignalToWaiter(u)
  BY Zenon, <1>3, SendSignalToWaiterInv
<1>4. CASE UNCHANGED kcondVars
  <2>. USE <1>4 DEF kcondVars, kmutexVars, taskVars, mutexVars
  <2>1. KcondTypeOK' /\ ~panic'
    BY Zenon DEF KcondInv, KcondTypeOK, KmutexTypeOK, TasksTypeOK
  <2>2. SchedInv' /\ AwakeInv' /\ TimerInv' /\ MutexInv' /\ CondInv'
    BY Zenon DEF KcondInv, SchedInv, AwakeInv, TimerInv, MutexInv, CondInv, FirstCount
  <2>. QED
    BY Zenon, <2>1, <2>2 DEF KcondInv
<1>. QED
  BY Zenon, <1>1, <1>2, <1>3, <1>4 DEF KcondNext

(* Every reachable state of the mutex and the condition, for any number of *)
(* tasks, satisfies the inductive invariant; in particular its types.      *)
THEOREM Invariance ==
  ASSUME NoTimedUser
  PROVE  KcondSpec => []KcondInv
<1>1. KcondInit => KcondInv
  BY Zenon, InitInv
<1>2. KcondInv /\ [KcondNext]_kcondVars => KcondInv'
  BY Zenon, NextInv
<1>. QED
  BY <1>1, <1>2, PTL DEF KcondSpec

(* KcondTypeOK: the types. *)
THEOREM TypeCorrect ==
  ASSUME NoTimedUser
  PROVE  KcondSpec => []KcondTypeOK
<1>1. KcondInv => KcondTypeOK
  BY Zenon DEF KcondInv
<1>. QED
  BY <1>1, Invariance, PTL

(* None of the ASSERTs fails; kmutex_lock returns to the owner.            *)
THEOREM AssertsHold ==
  ASSUME NoTimedUser
  PROVE  KcondSpec => []NoAssertFails
<1>1. KcondInv => NoAssertFails
  BY Zenon DEF KcondInv, NoAssertFails
<1>. QED
  BY <1>1, Invariance, PTL

(* A sleeping task can be found by whoever has to wake it up.              *)
THEOREM WakeUpPossible ==
  ASSUME NoTimedUser
  PROVE  KcondSpec => []SleepersCanBeWoken
<1>1. ASSUME KcondInv PROVE SleepersCanBeWoken
  <2>. SUFFICES ASSUME NEW t \in Task
                PROVE  /\ state[t] = "SLEEPING" =>
                            \/ timer[t] > 0
                            \/ wobj[t] = "KMUTEX" /\ InList(mutexQ, t)
                            \/ wobj[t] = "KCOND" /\ InList(condQ, t)
                            \/ pc[t] = "pause" /\ t \notin pending
                       /\ InList(mutexQ, t) => state[t] = "SLEEPING" /\ owner # NULL
    BY ZenonT(60) DEF SleepersCanBeWoken
  <2>1. pc[t] \in Location /\ pc[t] # "sem"
    BY Zenon, <1>1 DEF KcondInv, KcondTypeOK, KmutexTypeOK, TasksTypeOK, SchedInv
  <2>2. InList(mutexQ, t) => mutexQ # <<>>
    BY SMTT(60) DEF InList
  <2>. QED
    BY Zenon, <1>1, <2>1, <2>2
       DEF KcondInv, AwakeInv, TimerInv, MutexInv, CondInv, Location
<1>. QED
  BY <1>1, Invariance, PTL

(* kmutex_unlock hands the mutex to a task that it also wakes up.          *)
THEOREM OwnerAwake ==
  ASSUME NoTimedUser
  PROVE  KcondSpec => []OwnerIsAwake
<1>1. KcondInv => OwnerIsAwake
  BY Zenon DEF KcondInv, KcondTypeOK, KmutexTypeOK, MutexInv, OwnerIsAwake
<1>. QED
  BY <1>1, Invariance, PTL

(* No wake-up timer outlives the sleep it was set for.                     *)
THEOREM TimersCancelled ==
  ASSUME NoTimedUser
  PROVE  KcondSpec => []NoStaleTimer
<1>1. KcondInv => NoStaleTimer
  BY Zenon DEF KcondInv, TimerInv, NoStaleTimer
<1>. QED
  BY <1>1, Invariance, PTL

(* Whoever is between lock and unlock owns the mutex.  This needs none of  *)
(* the facts about sleeping and waking up.                                 *)
OwnerInv ==
  /\ pc \in [Task -> Location]
  /\ \A t \in Task : pc[t] = "cs" => owner = t

(* A task gets inside only when nobody is.                                 *)
LEMMA EnterLemma ==
  ASSUME OwnerInv, [KcondNext]_kcondVars, NEW u \in Task, pc[u] # "cs", pc'[u] = "cs"
  PROVE  \A t \in Task : pc[t] # "cs"
<1>. USE TaskAssumption, KmutexAssumption
<1>0. /\ pc \in [Task -> Location] /\ \A t \in Task : pc[t] = "cs" => owner = t
      /\ NULL \notin Task
  BY Zenon DEF OwnerInv
<1>1. CASE \E t \in Task : KmutexStep(t)
  <2>1. PICK t \in Task : KmutexStep(t)
    BY Zenon, <1>1
  <2>2. KmutexLock(t) \/ KmutexLockWoken(t) \/ KmutexTrylock(t)
    BY Zenon, <1>0, <2>1 DEF KmutexStep, KmutexNest, KmutexUnlock, KmutexPanic, Panic, Goto
  <2>3. CASE KmutexLock(t)
    BY Zenon, <1>0, <2>3 DEF KmutexLock, LockFree, LockBusy, KmutexPanic, Panic, Goto
  <2>4. CASE KmutexLockWoken(t)
    BY Zenon, <1>0, <2>4 DEF KmutexLockWoken, KmutexPanic, Panic, Goto, At
  <2>5. CASE KmutexTrylock(t)
    BY Zenon, <1>0, <2>5 DEF KmutexTrylock
  <2>. QED
    BY Zenon, <2>2, <2>3, <2>4, <2>5
<1>2. CASE TasksNext
  BY ZenonT(60), <1>0, <1>2 DEF TasksNext, TickAllTimers, DoSchedule, Halted, TaskStep,
     KernelSleepWoken, SysPause, ProcessSignals, KernelSleep, SendSignal, Goto
<1>3. CASE \E t \in Task : KcondStep(t)
  <2>1. PICK t \in Task, l \in Location \ {"cs"} : pc' \in {pc, [pc EXCEPT ![t] = l]}
    BY Zenon, <1>3 DEF KcondStep, KcondWait, KcondWaitWoken, KcondSignalOne, KcondSignalAll,
                SignalInt, KmutexPanic, Panic, Goto, Location
  <2>. QED
    BY Zenon, <1>0, <2>1
<1>4. CASE (\E t \in UserTask : SendSignalToWaiter(t)) \/ UNCHANGED kcondVars
  BY ZenonT(60), <1>4 DEF SendSignalToWaiter, kcondVars, kmutexVars
<1>. QED
  BY Zenon, <1>1, <1>2, <1>3, <1>4 DEF KcondNext, KmutexNext

(* The tasks between lock and unlock. *)
Inside == {t \in Task : pc[t] = "cs"}

(* One task gets inside, or the one that was there leaves.                 *)
LEMMA InsideStep ==
  ASSUME OwnerInv, OwnerInv', [KcondNext]_kcondVars
  PROVE  \/ \E u \in Task : Inside = {} /\ Inside' = {u}
         \/ \E t \in Task : Inside = {t} /\ Inside' = {}
         \/ Inside' = Inside
<1>1. /\ \A t \in Task : pc[t] = "cs" => owner = t
      /\ \A t \in Task : pc'[t] = "cs" => owner' = t
  BY Zenon DEF OwnerInv
<1>2. CASE \E u \in Task : pc[u] # "cs" /\ pc'[u] = "cs"
  <2>1. PICK u \in Task : pc[u] # "cs" /\ pc'[u] = "cs"
    BY Zenon, <1>2
  <2>2. Inside = {} /\ Inside' = {u}
    BY ZenonT(60), <1>1, <2>1, EnterLemma DEF Inside
  <2>. QED
    BY Zenon, <2>2
<1>3. CASE \A u \in Task : pc'[u] = "cs" => pc[u] = "cs"
  <2>1. CASE Inside' = {} /\ Inside # {}
    <3>1. PICK t \in Task : pc[t] = "cs"
      BY Zenon, <2>1 DEF Inside
    <3>2. Inside = {t}
      BY Zenon, <1>1, <3>1 DEF Inside
    <3>. QED
      BY Zenon, <2>1, <3>2
  <2>2. CASE Inside' # {} \/ Inside = {}
    BY Zenon, <1>1, <1>3, <2>2 DEF Inside
  <2>. QED
    BY Zenon, <2>1, <2>2
<1>. QED
  BY Zenon, <1>2, <1>3

(* It stays so, whatever the scheduler, the timers and the signals do.     *)
LEMMA OwnerNextInv ==
  ASSUME OwnerInv, [KcondNext]_kcondVars
  PROVE  OwnerInv'
<1>. USE TaskAssumption, KmutexAssumption DEF OwnerInv
<1>1. CASE \E t \in Task : KmutexStep(t)
  <2>1. PICK t \in Task : KmutexStep(t)
    BY Zenon, <1>1
  <2>2. CASE KmutexLock(t)
    <3>1. \/ owner = NULL /\ owner' = t /\ pc' = [pc EXCEPT ![t] = "cs"]
          \/ owner' = owner /\ (pc' = pc \/ pc' = [pc EXCEPT ![t] = "lock"])
      BY Zenon, <2>2 DEF KmutexLock, LockFree, LockBusy, KmutexPanic, Panic, mutexVars, Goto
    <3>. QED
      BY <3>1 DEF Location
  <2>3. CASE KmutexLockWoken(t)
    <3>1. owner' = owner /\ (pc' = pc \/ (owner = t /\ pc' = [pc EXCEPT ![t] = "cs"]))
      BY Zenon, <2>3 DEF KmutexLockWoken, KmutexPanic, Panic, mutexVars, Goto
    <3>. QED
      BY <3>1 DEF Location
  <2>4. CASE KmutexNest(t)
    BY Zenon, <2>4 DEF KmutexNest
  <2>5. CASE KmutexTrylock(t)
    <3>1. owner = NULL /\ owner' = t /\ pc' = [pc EXCEPT ![t] = "cs"]
      BY Zenon, <2>5 DEF KmutexTrylock, Goto
    <3>. QED
      BY <3>1 DEF Location
  <2>6. CASE KmutexUnlock(t)
    <3>1. \/ owner' = owner /\ pc' = pc
          \/ owner = t /\ pc' = [pc EXCEPT ![t] = "out"]
      BY Zenon, <2>6 DEF KmutexUnlock, CanUnlock, KmutexPanic, Panic, mutexVars, Goto
    <3>. QED
      BY <3>1 DEF Location
  <2>. QED
    BY Zenon, <2>1, <2>2, <2>3, <2>4, <2>5, <2>6 DEF KmutexStep
<1>2. CASE TasksNext /\ UNCHANGED mutexVars
  <2>1. owner' = owner
    BY Zenon, <1>2 DEF mutexVars
  <2>2. pc' = pc \/ \E t \in Task, l \in {"out", "nap", "pause"} : pc' = [pc EXCEPT ![t] = l]
    BY ZenonT(60), <1>2 DEF TasksNext, TickAllTimers, DoSchedule, Halted, TaskStep,
       KernelSleepWoken, SysPause, ProcessSignals, KernelSleep, SendSignal, Goto
  <2>. QED
    BY <2>1, <2>2 DEF Location
<1>3. CASE \E t \in Task : KcondStep(t)
  <2>1. PICK t \in Task : KcondStep(t)
    BY Zenon, <1>3
  <2>2. \/ owner' = owner /\ (pc' = pc \/ pc' = [pc EXCEPT ![t] = "relock"])
        \/ owner = t /\ pc' = [pc EXCEPT ![t] = "wait"]
    BY Zenon, <2>1 DEF KcondStep, KcondWait, KcondWaitWoken, KcondSignalOne, KcondSignalAll,
                SignalInt, CanUnlock, KmutexPanic, Panic, mutexVars, Goto
  <2>. QED
    BY <2>2 DEF Location
<1>4. CASE (\E t \in UserTask : SendSignalToWaiter(t)) \/ UNCHANGED kcondVars
  BY Zenon, <1>4 DEF SendSignalToWaiter, kcondVars, kmutexVars, mutexVars
<1>. QED
  BY Zenon, <1>1, <1>2, <1>3, <1>4 DEF KcondNext, KmutexNext

(* kmutex and kcond implement a lock, MutualExclusion, for any tasks.      *)
(* Nothing is assumed of timers and signals: the stale timer of the        *)
(* findings ends in a failed ASSERT, never in two tasks inside.            *)
THEOREM Refinement == KcondSpec => MutualExclusion
<1>1. KcondInit => OwnerInv /\ Lock!Init
  BY Zenon DEF KcondInit, KmutexInit, TasksInit, OwnerInv, Location, Lock!Init
<1>2. ASSUME OwnerInv, [KcondNext]_kcondVars
      PROVE  OwnerInv' /\ [Lock!Next]_{t \in Task : pc[t] = "cs"}
  <2>1. OwnerInv'
    BY Zenon, <1>2, OwnerNextInv
  <2>. QED
    BY Zenon, <1>2, <2>1, InsideStep DEF Inside, Lock!Next, Lock!Enter, Lock!Leave
<1>. QED
  BY <1>1, <1>2, PTL DEF KcondSpec, MutualExclusion, Lock!Spec

-----------------------------------------------------------------------------
(* What is left of a wait list when some nodes are dropped: for every list *)
(* and every set of its nodes there is exactly one such list.              *)

(* `r` is what is left of `q` when only the nodes of the tasks in S stay.  *)
IsReduction(q, S, r) == r \in ListsOf(S, Len(q)) /\ ListReduced(q, S, r)

(* The nodes of `r` are in the same order in `q`. *)
SameOrder(q, r) ==
  \A i, j \in 1..Len(r) : i < j =>
    \E k, l \in 1..Len(q) : k < l /\ q[k] = r[i] /\ q[l] = r[j]

(* The lists of at most n nodes. *)
LEMMA ListsOfLemma ==
  ASSUME NEW S, NEW n \in Nat, NEW r
  PROVE  r \in ListsOf(S, n) <=> r \in Seq(S) /\ Len(r) <= n
<1>1. ASSUME r \in ListsOf(S, n) PROVE r \in Seq(S) /\ Len(r) <= n
  <2>1. PICK k \in 0..n : r \in [1..k -> S]
    BY Zenon, <1>1 DEF ListsOf
  <2>. QED
    BY <2>1
<1>2. ASSUME r \in Seq(S), Len(r) <= n PROVE r \in ListsOf(S, n)
  <2>1. Len(r) \in 0..n /\ r \in [1..Len(r) -> S]
    BY <1>2, LenLemma
  <2>. QED
    BY ZenonT(60), <2>1 DEF ListsOf
<1>. QED
  BY Zenon, <1>1, <1>2

(* A walk over the list can always drop the nodes of the other tasks.      *)
LEMMA ReductionExists ==
  ASSUME NEW T, NEW q \in Seq(T), NEW S \in SUBSET T, \A x \in S : InList(q, x)
  PROVE  \E r : IsReduction(q, S, r)
<1> DEFINE Walked(n, r) ==
             /\ r \in Seq(S) /\ Len(r) <= n
             /\ \A i \in 1..n : q[i] \in S => InList(r, q[i])
             /\ \A i \in 1..Len(r) : \E k \in 1..n : q[k] = r[i]
             /\ \A i, j \in 1..Len(r) : i < j =>
                  \E k, l \in 1..n : k < l /\ q[k] = r[i] /\ q[l] = r[j]
           bad == {n \in 0..Len(q) : ~\E r : Walked(n, r)}
<1>0. Len(q) \in Nat
  BY Zenon, LenLemma
<1>1. Walked(0, <<>>)
  BY DEF InList
<1>2. ASSUME NEW n \in 1..Len(q), NEW r, Walked(n - 1, r) PROVE \E s : Walked(n, s)
  <2>0. /\ r \in Seq(S) /\ Len(r) \in Nat /\ Len(r) <= n - 1 /\ n \in Nat
        /\ \A i \in 1..n - 1 : q[i] \in S => InList(r, q[i])
        /\ \A i \in 1..Len(r) : \E k \in 1..n - 1 : q[k] = r[i]
        /\ \A i, j \in 1..Len(r) : i < j =>
             \E k, l \in 1..n - 1 : k < l /\ q[k] = r[i] /\ q[l] = r[j]
    BY <1>2, LenLemma
  <2>1. CASE q[n] \notin S
    <3>1. \A i \in 1..n : q[i] \in S => InList(r, q[i])
      <4>1. \A i \in 1..n : i = n \/ i \in 1..n - 1
        BY <2>0
      <4>. QED
        BY Zenon, <2>0, <2>1, <4>1
    <3>2. \A k \in 1..n - 1 : k \in 1..n
      BY <2>0
    <3>3. \A i \in 1..Len(r) : \E k \in 1..n : q[k] = r[i]
      BY Zenon, <2>0, <3>2
    <3>4. ASSUME NEW i \in 1..Len(r), NEW j \in 1..Len(r), i < j
          PROVE  \E k, l \in 1..n : k < l /\ q[k] = r[i] /\ q[l] = r[j]
      BY <2>0, <3>2, <3>4
    <3>5. Len(r) <= n
      BY <2>0
    <3>. QED
      BY Zenon, <2>0, <3>1, <3>3, <3>4, <3>5
  <2>2. CASE q[n] \in S
    <3> DEFINE s == Append(r, q[n])
    <3>1. /\ s \in Seq(S) /\ Len(s) = Len(r) + 1 /\ s[Len(r) + 1] = q[n]
          /\ \A i \in 1..Len(r) : s[i] = r[i]
      BY <2>0, <2>2
    <3> HIDE DEF s
    <3>2. Len(s) <= n /\ Len(s) \in Nat
      BY <2>0, <3>1
    <3>3. ASSUME NEW i \in 1..n, q[i] \in S PROVE InList(s, q[i])
      <4>1. CASE i = n
        <5>1. Len(r) + 1 \in 1..Len(s)
          BY <2>0, <3>1
        <5>. QED
          BY Zenon, <3>1, <4>1, <5>1 DEF InList
      <4>2. CASE i # n
        <5>1. i \in 1..n - 1
          BY <2>0, <4>2
        <5>2. PICK j \in 1..Len(r) : r[j] = q[i]
          BY Zenon, <2>0, <3>3, <5>1 DEF InList
        <5>3. j \in 1..Len(s) /\ s[j] = q[i]
          BY <2>0, <3>1, <5>2
        <5>. QED
          BY Zenon, <5>3 DEF InList
      <4>. QED
        BY Zenon, <4>1, <4>2
    <3>4. ASSUME NEW i \in 1..Len(s) PROVE \E k \in 1..n : q[k] = s[i]
      <4>1. CASE i \in 1..Len(r)
        <5>1. PICK k \in 1..n - 1 : q[k] = r[i]
          BY Zenon, <2>0, <4>1
        <5>2. k \in 1..n
          BY <2>0
        <5>. QED
          BY Zenon, <3>1, <4>1, <5>1, <5>2
      <4>2. CASE i = Len(r) + 1
        <5>1. n \in 1..n
          BY <2>0
        <5>. QED
          BY Zenon, <3>1, <4>2, <5>1
      <4>. QED
        BY <2>0, <3>1, <4>1, <4>2
    <3>5. ASSUME NEW i \in 1..Len(s), NEW j \in 1..Len(s), i < j
          PROVE  \E k, l \in 1..n : k < l /\ q[k] = s[i] /\ q[l] = s[j]
      <4>1. i \in 1..Len(r)
        BY <2>0, <3>1, <3>5
      <4>2. CASE j \in 1..Len(r)
        <5>1. PICK k \in 1..n - 1, l \in 1..n - 1 : k < l /\ q[k] = r[i] /\ q[l] = r[j]
          BY Zenon, <2>0, <3>5, <4>1, <4>2
        <5>2. k \in 1..n /\ l \in 1..n
          BY <2>0
        <5>. QED
          BY ZenonT(60), <3>1, <4>1, <4>2, <5>1, <5>2
      <4>3. CASE j = Len(r) + 1
        <5>1. PICK k \in 1..n - 1 : q[k] = r[i]
          BY Zenon, <2>0, <4>1
        <5>2. k \in 1..n /\ n \in 1..n /\ k < n
          BY <2>0
        <5>. QED
          BY Zenon, <3>1, <4>1, <4>3, <5>1, <5>2
      <4>. QED
        BY <2>0, <3>1, <4>2, <4>3
    <3>6. Walked(n, s)
      BY ZenonT(60), <3>1, <3>2, <3>3, <3>4, <3>5
    <3>. QED
      BY ZenonT(60), <3>6
  <2>. QED
    BY Zenon, <2>1, <2>2
<1> HIDE DEF Walked
<1>3. bad = {}
  <2> SUFFICES ASSUME bad # {} PROVE FALSE
    OBVIOUS
  <2>1. PICK n \in bad : \A m \in bad : n <= m
    <3>1. bad \in SUBSET Nat
      BY <1>0
    <3> HIDE DEF bad
    <3>. QED
      BY Zenon, <3>1, LeastLemma
  <2>2. n # 0
    BY Zenon, <1>1, <2>1
  <2>3. n \in 1..Len(q) /\ n - 1 \in 0..Len(q) /\ ~(n <= n - 1)
    BY <1>0, <2>1, <2>2
  <2>. QED
    BY Zenon, <1>2, <2>1, <2>3
<1>4. PICK r : Walked(Len(q), r)
  BY <1>0, <1>3
<1>5. /\ r \in Seq(S) /\ Len(r) <= Len(q)
      /\ \A i \in 1..Len(q) : q[i] \in S => InList(r, q[i])
      /\ \A i, j \in 1..Len(r) : i < j =>
           \E k, l \in 1..Len(q) : k < l /\ q[k] = r[i] /\ q[l] = r[j]
  BY Zenon, <1>4 DEF Walked
<1>6. \A x \in S : InList(r, x)
  BY <1>5 DEF InList
<1>7. r \in ListsOf(S, Len(q))
  BY Zenon, <1>0, <1>5, ListsOfLemma
<1>. QED
  BY Zenon, <1>5, <1>6, <1>7 DEF IsReduction, ListReduced

(* What a reduction is, for lists of tasks that are in the list once.      *)
LEMMA ReductionFacts ==
  ASSUME NEW T, NEW q \in Seq(T), Distinct(q), NEW S \in SUBSET T, NEW r, IsReduction(q, S, r)
  PROVE  /\ r \in Seq(S) /\ r \in Seq(T) /\ Len(r) \in Nat /\ Len(r) <= Len(q)
         /\ Distinct(r)
         /\ \A y : InList(r, y) <=> y \in S
         /\ SameOrder(q, r)
<1>1. r \in ListsOf(S, Len(q)) /\ ListReduced(q, S, r) /\ Len(q) \in Nat
  BY Zenon, LenLemma DEF IsReduction
<1>2. r \in Seq(S) /\ Len(r) <= Len(q) /\ Len(r) \in Nat
  BY Zenon, <1>1, ListsOfLemma, LenLemma
<1>3. r \in Seq(T) /\ Distinct(r) /\ \A y : InList(r, y) <=> y \in S
  BY Zenon, <1>1, ReducedLemma
<1>. QED
  BY Zenon, <1>1, <1>2, <1>3 DEF ListReduced, SameOrder

(* Two reductions to the same tasks agree as far as the first one goes:    *)
(* at the first difference, each would have its node before the other's.   *)
LEMMA ReductionPrefix ==
  ASSUME NEW T, NEW q \in Seq(T), Distinct(q), NEW S \in SUBSET T,
         NEW r, IsReduction(q, S, r), NEW s, IsReduction(q, S, s)
  PROVE  \A i \in 1..Len(r) : i \in 1..Len(s) /\ s[i] = r[i]
<1> DEFINE diff == {i \in 1..Len(r) : ~(i \in 1..Len(s) /\ s[i] = r[i])}
<1>1. /\ Len(r) \in Nat /\ Distinct(r) /\ \A y : InList(r, y) <=> y \in S
      /\ SameOrder(q, r)
  BY Zenon, ReductionFacts
<1>2. /\ Len(s) \in Nat /\ Distinct(s) /\ \A y : InList(s, y) <=> y \in S
      /\ SameOrder(q, s)
  BY ZenonT(60), ReductionFacts
<1> SUFFICES ASSUME diff # {} PROVE FALSE
  OBVIOUS
<1>3. PICK i \in diff : \A j \in diff : i <= j
  <2>1. diff \in SUBSET Nat
    BY <1>1
  <2> HIDE DEF diff
  <2>. QED
    BY Zenon, <2>1, LeastLemma
<1>4. /\ i \in 1..Len(r) /\ ~(i \in 1..Len(s) /\ s[i] = r[i])
      /\ \A j \in 1..i - 1 : j \in 1..Len(r) /\ j \in 1..Len(s) /\ s[j] = r[j]
  <2>1. i \in 1..Len(r) /\ ~(i \in 1..Len(s) /\ s[i] = r[i])
    BY Zenon, <1>3
  <2>2. ASSUME NEW j \in 1..i - 1 PROVE j \in 1..Len(r) /\ j \in 1..Len(s) /\ s[j] = r[j]
    <3>1. j \in 1..Len(r) /\ ~(i <= j)
      BY <1>1, <2>1
    <3>. QED
      BY Zenon, <1>3, <3>1
  <2>. QED
    BY Zenon, <2>1, <2>2
<1> HIDE DEF diff
<1>5. PICK j \in 1..Len(s) : s[j] = r[i]
  <2>1. InList(r, r[i])
    BY Zenon, <1>4 DEF InList
  <2>. QED
    BY ZenonT(60), <1>1, <1>2, <2>1 DEF InList
<1>6. i < j /\ i \in 1..Len(s)
  <2>1. ~(j < i)
    <3> SUFFICES ASSUME j < i PROVE FALSE
      OBVIOUS
    <3>1. j \in 1..i - 1
      BY <1>1, <1>2, <1>4
    <3>2. j \in 1..Len(r) /\ r[j] = r[i]
      BY Zenon, <1>4, <1>5, <3>1
    <3>3. j = i
      BY Zenon, <1>1, <1>4, <3>2 DEF Distinct
    <3>. QED
      BY <1>4, <3>3
  <2>2. j # i
    BY Zenon, <1>4, <1>5
  <2>. QED
    BY <1>1, <1>2, <1>4, <2>1, <2>2
<1>7. PICK k \in 1..Len(r) : r[k] = s[i]
  <2>1. InList(s, s[i])
    BY Zenon, <1>6 DEF InList
  <2>. QED
    BY ZenonT(60), <1>1, <1>2, <2>1 DEF InList
<1>8. i < k
  <2>1. ~(k < i)
    <3> SUFFICES ASSUME k < i PROVE FALSE
      OBVIOUS
    <3>1. k \in 1..i - 1
      BY <1>1, <1>4
    <3>2. k \in 1..Len(s) /\ s[k] = s[i]
      BY Zenon, <1>4, <1>7, <3>1
    <3>3. k = i
      BY Zenon, <1>2, <1>6, <3>2 DEF Distinct
    <3>. QED
      BY <1>4, <3>3
  <2>2. k # i
    BY Zenon, <1>4, <1>6, <1>7
  <2>. QED
    BY <1>1, <1>4, <2>1, <2>2
<1>9. PICK a \in 1..Len(q), b \in 1..Len(q) : a < b /\ q[a] = r[i] /\ q[b] = r[k]
  BY Zenon, <1>1, <1>4, <1>8 DEF SameOrder
<1>10. PICK c \in 1..Len(q), d \in 1..Len(q) : c < d /\ q[c] = s[i] /\ q[d] = s[j]
  BY Zenon, <1>2, <1>6 DEF SameOrder
<1>11. a = d /\ b = c
  BY Zenon, <1>5, <1>7, <1>9, <1>10 DEF Distinct
<1>. QED
  BY <1>9, <1>10, <1>11, LenLemma

(* So the list that is left is determined by the tasks in it. *)
LEMMA ReducedIs ==
  ASSUME NEW T, NEW q \in Seq(T), Distinct(q), NEW S \in SUBSET T,
         NEW r, IsReduction(q, S, r)
  PROVE  Reduced(q, S) = r
<1>1. IsReduction(q, S, Reduced(q, S))
  BY Zenon DEF IsReduction, Reduced
<1> DEFINE s == Reduced(q, S)
<1>2. IsReduction(q, S, s)
  BY Zenon, <1>1
<1> HIDE DEF s
<1>3. r \in Seq(T) /\ s \in Seq(T) /\ Len(r) \in Nat /\ Len(s) \in Nat
  BY ZenonT(60), <1>2, ReductionFacts
<1>4. \A i \in 1..Len(r) : i \in 1..Len(s) /\ s[i] = r[i]
  BY Zenon, <1>2, ReductionPrefix
<1>5. \A i \in 1..Len(s) : i \in 1..Len(r) /\ r[i] = s[i]
  BY <1>2, ReductionPrefix
<1>6. Len(r) = Len(s)
  BY SMTT(60), <1>3, <1>4, <1>5
<1>7. r = s
  BY Zenon, <1>3, <1>4, <1>6, SameElements
<1>. QED
  BY Zenon, <1>7 DEF s

(* And there is one. *)
LEMMA ReducedIsReduction ==
  ASSUME NEW T, NEW q \in Seq(T), NEW S \in SUBSET T, \A x \in S : InList(q, x)
  PROVE  IsReduction(q, S, Reduced(q, S))
BY Zenon, ReductionExists DEF IsReduction, Reduced

(* Dropping nodes in two walks or in one comes to the same. *)
LEMMA ReducedTwice ==
  ASSUME NEW T, NEW q \in Seq(T), Distinct(q), NEW S \in SUBSET T, \A x \in S : InList(q, x),
         NEW R \in SUBSET S
  PROVE  Reduced(Reduced(q, S), R) = Reduced(q, R)
<1> DEFINE s == Reduced(q, S)
           r == Reduced(s, R)
<1>1. IsReduction(q, S, s)
  BY Zenon, ReducedIsReduction
<1> HIDE DEF s
<1>2. /\ s \in Seq(T) /\ Len(s) \in Nat /\ Len(s) <= Len(q) /\ Distinct(s)
      /\ \A y : InList(s, y) <=> y \in S
      /\ SameOrder(q, s)
  BY ZenonT(60), <1>1, ReductionFacts
<1>3. R \in SUBSET T /\ \A x \in R : InList(s, x)
  BY Zenon, <1>2
<1>4. IsReduction(s, R, r)
  BY Zenon, <1>2, <1>3, ReducedIsReduction
<1> HIDE DEF r
<1>5. /\ r \in Seq(R) /\ Len(r) \in Nat /\ Len(r) <= Len(s)
      /\ \A y : InList(r, y) <=> y \in R
      /\ SameOrder(s, r)
  BY Zenon, <1>2, <1>3, <1>4, ReductionFacts
<1>6. ASSUME NEW i \in 1..Len(r), NEW j \in 1..Len(r), i < j
      PROVE  \E k, l \in 1..Len(q) : k < l /\ q[k] = r[i] /\ q[l] = r[j]
  <2>1. PICK a \in 1..Len(s), b \in 1..Len(s) : a < b /\ s[a] = r[i] /\ s[b] = r[j]
    BY ZenonT(60), <1>5, <1>6 DEF SameOrder
  <2>. QED
    BY SMTT(60), <1>2, <2>1 DEF SameOrder
<1>7. r \in ListsOf(R, Len(q))
  <2>1. Len(q) \in Nat /\ Len(r) <= Len(q)
    BY <1>2, <1>5, LenLemma
  <2>. QED
    BY Zenon, <1>5, <2>1, ListsOfLemma
<1>8. IsReduction(q, R, r)
  BY Zenon, <1>5, <1>6, <1>7 DEF IsReduction, ListReduced
<1>9. Reduced(q, R) = r
  BY Zenon, <1>3, <1>8, ReducedIs
<1>. QED
  BY Zenon, <1>9 DEF r, s

(* A new node stays at the end. *)
LEMMA ReducedAppend ==
  ASSUME NEW T, NEW q \in Seq(T), Distinct(q), NEW S \in SUBSET T, \A y \in S : InList(q, y),
         NEW x \in T, ~InList(q, x)
  PROVE  Reduced(Append(q, x), S \cup {x}) = Append(Reduced(q, S), x)
<1> DEFINE s == Reduced(q, S)
           a == Append(q, x)
           r == Append(s, x)
<1>1. IsReduction(q, S, s)
  BY Zenon, ReducedIsReduction
<1> HIDE DEF s
<1>2. /\ s \in Seq(S) /\ Len(s) \in Nat /\ Len(s) <= Len(q)
      /\ \A y : InList(s, y) <=> y \in S
      /\ SameOrder(q, s)
  BY ZenonT(60), <1>1, ReductionFacts
<1>3. /\ a \in Seq(T) /\ Len(a) = Len(q) + 1 /\ a[Len(q) + 1] = x /\ Len(q) \in Nat
      /\ \A i \in 1..Len(q) : a[i] = q[i]
      /\ Distinct(a)
  BY SMTT(60), AppendLemma, LenLemma
<1>4. /\ r \in Seq(S \cup {x}) /\ Len(r) = Len(s) + 1 /\ r[Len(s) + 1] = x
      /\ \A i \in 1..Len(s) : r[i] = s[i]
  <2>1. s \in Seq(S \cup {x})
    BY <1>2
  <2>. QED
    BY <2>1
<1> HIDE DEF a, r
<1>5. \A y \in S \cup {x} : InList(r, y)
  <2>1. InList(r, x)
    <3>1. Len(s) + 1 \in 1..Len(r)
      BY SMTT(60), <1>2, <1>4
    <3>. QED
      BY Zenon, <1>4, <3>1 DEF InList
  <2>2. ASSUME NEW y \in S PROVE InList(r, y)
    <3>1. PICK i \in 1..Len(s) : s[i] = y
      BY Zenon, <1>2 DEF InList
    <3>2. i \in 1..Len(r) /\ r[i] = y
      BY SMTT(60), <1>2, <1>4, <3>1
    <3>. QED
      BY Zenon, <3>2 DEF InList
  <2>. QED
    BY Zenon, <2>1, <2>2
<1>6. ASSUME NEW i \in 1..Len(r), NEW j \in 1..Len(r), i < j
      PROVE  \E k, l \in 1..Len(a) : k < l /\ a[k] = r[i] /\ a[l] = r[j]
  <2>1. i \in 1..Len(s)
    BY <1>2, <1>4, <1>6
  <2>2. CASE j \in 1..Len(s)
    <3>1. PICK k \in 1..Len(q), l \in 1..Len(q) : k < l /\ q[k] = s[i] /\ q[l] = s[j]
      BY Zenon, <1>2, <1>6, <2>1, <2>2 DEF SameOrder
    <3>2. k \in 1..Len(a) /\ l \in 1..Len(a) /\ a[k] = r[i] /\ a[l] = r[j]
      BY SMTT(60), <1>3, <1>4, <2>1, <2>2, <3>1
    <3>. QED
      BY Zenon, <3>1, <3>2
  <2>3. CASE j = Len(s) + 1
    <3>1. PICK k \in 1..Len(q) : q[k] = s[i]
      <4>1. InList(s, s[i])
        BY Zenon, <2>1 DEF InList
      <4>. QED
        BY ZenonT(60), <1>2, <4>1 DEF InList
    <3>2. /\ k \in 1..Len(a) /\ a[k] = r[i] /\ k < Len(q) + 1
          /\ Len(q) + 1 \in 1..Len(a) /\ a[Len(q) + 1] = r[j]
      BY SMTT(60), <1>3, <1>4, <2>1, <2>3, <3>1
    <3>. QED
      BY Zenon, <3>2
  <2>. QED
    BY <1>2, <1>4, <2>2, <2>3
<1>7. r \in ListsOf(S \cup {x}, Len(a))
  <2>1. Len(a) \in Nat /\ Len(r) <= Len(a)
    BY SMTT(60), <1>2, <1>3, <1>4
  <2>. QED
    BY Zenon, <1>4, <2>1, ListsOfLemma
<1>8. IsReduction(a, S \cup {x}, r)
  BY ZenonT(60), <1>5, <1>6, <1>7 DEF IsReduction, ListReduced
<1>9. S \cup {x} \in SUBSET T
  OBVIOUS
<1>10. Reduced(a, S \cup {x}) = r
  BY <1>3, <1>8, <1>9, ReducedIs
<1>. QED
  BY ZenonT(60), <1>10 DEF r, s, a

(* list_remove keeps the order of the other nodes. *)
LEMMA UnlinkIsReduction ==
  ASSUME NEW T, NEW q \in Seq(T), Distinct(q), NEW x,
         NEW S, S = {y \in T : InList(q, y)} \ {x}
  PROVE  Unlink(q, x) = Reduced(q, S)
<1> DEFINE u == Unlink(q, x)
<1>0. Len(q) \in Nat /\ \A i \in 1..Len(q) : q[i] \in T
  BY Zenon, LenLemma
<1>1. u \in Seq(T) /\ \A y : InList(u, y) <=> y # x /\ InList(q, y)
  BY Zenon, UnlinkLemma
<1>2. Len(u) \in Nat /\ Len(u) <= Len(q) /\ SameOrder(q, u)
  <2>1. CASE InList(q, x)
    <3> DEFINE k == CHOOSE i \in 1..Len(q) : q[i] = x
    <3>1. k \in 1..Len(q) /\ u = RemoveNode(q, k)
      BY Zenon, <2>1 DEF Unlink, InList
    <3> HIDE DEF k, u
    <3>2. /\ Len(u) = Len(q) - 1
          /\ \A i \in 1..Len(u) : u[i] = IF i < k THEN q[i] ELSE q[i + 1]
      BY Zenon, <3>1, RemoveNodeIndex
    <3>3. ASSUME NEW i \in 1..Len(u), NEW j \in 1..Len(u), i < j
          PROVE  \E a, b \in 1..Len(q) : a < b /\ q[a] = u[i] /\ q[b] = u[j]
      <4> DEFINE a == IF i < k THEN i ELSE i + 1
                 b == IF j < k THEN j ELSE j + 1
      <4>1. a \in 1..Len(q) /\ b \in 1..Len(q) /\ a < b
        BY <1>0, <3>1, <3>2, <3>3
      <4>2. q[a] = u[i] /\ q[b] = u[j]
        BY Zenon, <3>2
      <4> HIDE DEF a, b
      <4>. QED
        BY Zenon, <4>1, <4>2
    <3>4. Len(q) - 1 \in Nat /\ Len(q) - 1 <= Len(q)
      BY SMTT(60), <1>0, <3>1
    <3>5. SameOrder(q, u)
      BY ZenonT(60), <3>3 DEF SameOrder
    <3>. QED
      BY ZenonT(60), <3>2, <3>4, <3>5
  <2>2. CASE ~InList(q, x)
    <3>1. u = q
      BY Zenon, <2>2 DEF Unlink
    <3>2. SameOrder(q, q)
      BY Zenon, <1>0 DEF SameOrder
    <3>. QED
      BY <1>0, <3>1, <3>2
  <2>. QED
    BY Zenon, <2>1, <2>2
<1>3. S \in SUBSET T /\ \A y \in S : InList(u, y)
  BY Zenon, <1>1
<1>4. u \in Seq(S)
  <2>1. \A i \in 1..Len(u) : u[i] \in S
    <3>1. ASSUME NEW i \in 1..Len(u) PROVE u[i] \in S
      <4>1. u[i] \in T /\ InList(u, u[i])
        BY Zenon, <1>1, LenLemma DEF InList
      <4>. QED
        BY Zenon, <1>1, <4>1
    <3>. QED
      BY Zenon, <3>1
  <2> HIDE DEF u
  <2>. QED
    BY <1>1, <1>2, <2>1
<1> HIDE DEF u
<1>5. u \in ListsOf(S, Len(q))
  BY Zenon, <1>0, <1>2, <1>4, ListsOfLemma
<1>6. IsReduction(q, S, u)
  BY Zenon, <1>2, <1>3, <1>5 DEF IsReduction, ListReduced, SameOrder
<1>7. Reduced(q, S) = u
  BY Zenon, <1>3, <1>6, ReducedIs
<1>. QED
  BY Zenon, <1>7 DEF u

(* So does taking the first node off. *)
LEMMA TailIsReduction ==
  ASSUME NEW T, NEW q \in Seq(T), Distinct(q), q # <<>>
  PROVE  Tail(q) = Reduced(q, {y \in T : InList(q, y)} \ {Head(q)})
<1> DEFINE S == {y \in T : InList(q, y)} \ {Head(q)}
           u == Tail(q)
<1>0. /\ Len(q) \in Nat /\ Len(q) > 0 /\ u \in Seq(T) /\ Len(u) = Len(q) - 1
      /\ \A i \in 1..Len(u) : u[i] = q[i + 1]
  BY LenLemma
<1>1. \A y : InList(u, y) <=> y # Head(q) /\ InList(q, y)
  BY Zenon, TailLemma
<1>2. ASSUME NEW i \in 1..Len(u), NEW j \in 1..Len(u), i < j
      PROVE  \E k, l \in 1..Len(q) : k < l /\ q[k] = u[i] /\ q[l] = u[j]
  <2>1. i + 1 \in 1..Len(q) /\ j + 1 \in 1..Len(q) /\ i + 1 < j + 1
    BY <1>0, <1>2
  <2>2. q[i + 1] = u[i] /\ q[j + 1] = u[j]
    BY Zenon, <1>0
  <2>. QED
    BY Zenon, <2>1, <2>2
<1>3. S \in SUBSET T /\ \A y \in S : InList(u, y)
  BY Zenon, <1>1
<1>4. u \in Seq(S)
  <2>1. \A i \in 1..Len(u) : u[i] \in S
    <3>1. ASSUME NEW i \in 1..Len(u) PROVE u[i] \in S
      <4>1. u[i] \in T /\ InList(u, u[i])
        BY Zenon, <1>0, LenLemma DEF InList
      <4>. QED
        BY Zenon, <1>1, <4>1
    <3>. QED
      BY Zenon, <3>1
  <2> HIDE DEF u, S
  <2>. QED
    BY <1>0, <2>1
<1> HIDE DEF u, S
<1>5. u \in ListsOf(S, Len(q))
  <2>1. Len(u) <= Len(q)
    BY <1>0
  <2>. QED
    BY Zenon, <1>0, <1>4, <2>1, ListsOfLemma
<1>6. IsReduction(q, S, u)
  BY Zenon, <1>2, <1>3, <1>5 DEF IsReduction, ListReduced
<1>7. Reduced(q, S) = u
  BY Zenon, <1>3, <1>6, ReducedIs
<1>. QED
  BY ZenonT(60), <1>7 DEF u, S

(* The first node stays the first. *)
LEMMA ReducedHead ==
  ASSUME NEW T, NEW q \in Seq(T), Distinct(q), q # <<>>, NEW S \in SUBSET T,
         \A y \in S : InList(q, y), Head(q) \in S
  PROVE  Reduced(q, S) # <<>> /\ Head(Reduced(q, S)) = Head(q)
<1> DEFINE r == Reduced(q, S)
<1>0. Len(q) \in Nat /\ Len(q) > 0 /\ Head(q) = q[1]
  BY LenLemma
<1>1. IsReduction(q, S, r)
  BY Zenon, ReducedIsReduction
<1> HIDE DEF r
<1>2. r \in Seq(T) /\ Len(r) \in Nat /\ SameOrder(q, r) /\ \A y : InList(r, y) <=> y \in S
  BY Zenon, <1>1, ReductionFacts
<1>3. PICK i \in 1..Len(r) : r[i] = q[1]
  BY Zenon, <1>0, <1>2 DEF InList
<1>4. i = 1
  <2> SUFFICES ASSUME 1 < i PROVE FALSE
    BY <1>2
  <2>1. 1 \in 1..Len(r)
    BY <1>2
  <2>2. PICK k \in 1..Len(q), l \in 1..Len(q) : k < l /\ q[k] = r[1] /\ q[l] = r[i]
    BY Zenon, <1>2, <2>1 DEF SameOrder
  <2>3. l = 1
    BY <1>0, <1>3, <2>2 DEF Distinct
  <2>. QED
    BY <1>0, <2>2, <2>3
<1>5. r # <<>> /\ Head(r) = r[1]
  <2>1. r # <<>>
    BY <1>2, <1>3
  <2>. QED
    BY <1>2, <2>1
<1>. QED
  BY Zenon, <1>0, <1>3, <1>4, <1>5 DEF r

(* When nobody stays, the list is empty. *)
LEMMA ReducedEmpty ==
  ASSUME NEW T, NEW q \in Seq(T), Distinct(q)
  PROVE  Reduced(q, {}) = <<>>
<1>1. {} \in SUBSET T
  OBVIOUS
<1>2. <<>> \in ListsOf({}, Len(q))
  <2>1. <<>> \in Seq({}) /\ Len(<<>>) <= Len(q) /\ Len(q) \in Nat
    BY LenLemma
  <2>. QED
    BY ZenonT(60), <2>1, ListsOfLemma
<1>3. IsReduction(q, {}, <<>>)
  BY <1>2 DEF IsReduction, ListReduced
<1>. QED
  BY Zenon, <1>1, <1>3, ReducedIs

(* Who is in the list that is left. *)
LEMMA ReducedElements ==
  ASSUME NEW T, NEW q \in Seq(T), Distinct(q), NEW S \in SUBSET T, \A y \in S : InList(q, y)
  PROVE  /\ Reduced(q, S) \in Seq(T) /\ Distinct(Reduced(q, S))
         /\ \A y : InList(Reduced(q, S), y) <=> y \in S
         /\ {y \in T : InList(Reduced(q, S), y)} = S
<1> DEFINE r == Reduced(q, S)
<1>1. IsReduction(q, S, r)
  BY Zenon, ReducedIsReduction
<1> HIDE DEF r
<1>2. r \in Seq(T) /\ Distinct(r) /\ \A y : InList(r, y) <=> y \in S
  BY Zenon, <1>1, ReductionFacts
<1>3. {y \in T : InList(r, y)} = S
  BY Zenon, <1>2
<1>. QED
  BY Zenon, <1>2, <1>3 DEF r

(* list_remove of one node, before or after dropping others. *)
LEMMA ReducedUnlink ==
  ASSUME NEW T, NEW q \in Seq(T), Distinct(q), NEW S \in SUBSET T, \A y \in S : InList(q, y),
         NEW x
  PROVE  Reduced(Unlink(q, x), S \ {x}) = Unlink(Reduced(q, S), x)
<1> DEFINE r == Reduced(q, S)
           E == {y \in T : InList(q, y)} \ {x}
           R == S \ {x}
<1>1. r \in Seq(T) /\ Distinct(r)
  BY Zenon, ReducedElements
<1>2. {y \in T : InList(r, y)} = S
  BY Zenon, ReducedElements
<1>3. R \in SUBSET S
  OBVIOUS
<1>4. R = {y \in T : InList(r, y)} \ {x} /\ E = {y \in T : InList(q, y)} \ {x}
  BY ZenonT(60), <1>2
<1>5. E \in SUBSET T /\ R \in SUBSET E /\ \A y \in E : InList(q, y)
  OBVIOUS
<1> HIDE DEF E, R
<1>6. Reduced(r, R) = Reduced(q, R)
  BY Zenon, <1>3, ReducedTwice
<1> HIDE DEF r
<1>7. Unlink(r, x) = Reduced(r, R)
  BY <1>1, <1>4, UnlinkIsReduction
<1>8. Unlink(q, x) = Reduced(q, E)
  BY <1>4, UnlinkIsReduction
<1>9. Reduced(Reduced(q, E), R) = Reduced(q, R)
  BY Zenon, <1>5, ReducedTwice
<1>10. Reduced(Unlink(q, x), R) = Unlink(r, x)
  BY Zenon, <1>6, <1>7, <1>8, <1>9
<1>. QED
  BY Zenon, <1>10 DEF r, R

(* Taking the first node off, before or after dropping others. *)
LEMMA ReducedTail ==
  ASSUME NEW T, NEW q \in Seq(T), Distinct(q), q # <<>>, NEW S \in SUBSET T,
         \A y \in S : InList(q, y), Head(q) \in S
  PROVE  /\ Reduced(q, S) # <<>>
         /\ Reduced(Tail(q), S \ {Head(q)}) = Tail(Reduced(q, S))
<1> DEFINE r == Reduced(q, S)
           h == Head(q)
           E == {y \in T : InList(q, y)} \ {h}
           R == S \ {h}
<1>0. r # <<>> /\ Head(r) = h
  BY Zenon, ReducedHead
<1>1. r \in Seq(T) /\ Distinct(r)
  BY Zenon, ReducedElements
<1>2. Tail(r) = Reduced(r, {y \in T : InList(r, y)} \ {Head(r)})
  BY ZenonT(60), <1>0, <1>1, TailIsReduction
<1>3. Reduced(q, R) = Reduced(r, {y \in T : InList(r, y)} \ {h})
  <2>1. {y \in T : InList(r, y)} = S
    BY Zenon, ReducedElements
  <2>2. R \in SUBSET S
    OBVIOUS
  <2> HIDE DEF R
  <2>3. Reduced(r, R) = Reduced(q, R)
    BY Zenon, <2>2, ReducedTwice
  <2>. QED
    BY ZenonT(60), <2>1, <2>3 DEF R
<1>4. Tail(q) = Reduced(q, E)
  BY ZenonT(60), TailIsReduction
<1>5. E \in SUBSET T /\ R \in SUBSET E /\ \A y \in E : InList(q, y)
  OBVIOUS
<1> HIDE DEF r, E, R, h
<1>6. Reduced(Reduced(q, E), R) = Reduced(q, R)
  BY Zenon, <1>5, ReducedTwice
<1>7. Reduced(Tail(q), R) = Tail(r)
  BY ZenonT(60), <1>0, <1>2, <1>3, <1>4, <1>6
<1>. QED
  BY ZenonT(60), <1>0, <1>7 DEF r, R, h

-----------------------------------------------------------------------------
(* The refinement of Monitor.                                              *)

(* The operators on lists are the same seen through Monitor.               *)
LEMMA SameLists ==
  ASSUME NEW q, NEW x
  PROVE  /\ Mon!InList(q, x) <=> InList(q, x)
         /\ Mon!Unlink(q, x) = Unlink(q, x)
         /\ Mon!Reduced(q, x) = Reduced(q, x)
<1>1. \A p : Mon!InList(q, p) <=> InList(q, p)
  BY Zenon DEF InList, Mon!InList
<1>2. Mon!Unlink(q, x) = Unlink(q, x)
  BY <1>1 DEF Unlink, Mon!Unlink, RemoveNode, Mon!RemoveNode
<1>3. Mon!Reduced(q, x) = Reduced(q, x)
  <2>1. Mon!ListsOf(x, Len(q)) = ListsOf(x, Len(q))
    BY Zenon DEF ListsOf, Mon!ListsOf
  <2>2. \A r : Mon!ListReduced(q, x, r) <=> ListReduced(q, x, r)
    BY Zenon DEF ListReduced, Mon!ListReduced, InList, Mon!InList
  <2>. QED
    BY Zenon, <2>1, <2>2 DEF Reduced, Mon!Reduced
<1>. QED
  BY Zenon, <1>1, <1>2, <1>3

(* What the invariant says of the list of the waiters that sleep.          *)
LEMMA SleepersLemma ==
  ASSUME KcondInv
  PROVE  /\ condQ \in Seq(Task) /\ Distinct(condQ)
         /\ Asleep \in SUBSET Task /\ \A t \in Asleep : InList(condQ, t)
         /\ \A t : InList(Sleepers, t) <=> t \in Asleep
         /\ \A t \in Task : InList(condQ, t) => pc[t] = "wait" /\ wobj[t] = "KCOND"
<1>1. condQ \in Seq(Task) /\ Distinct(condQ)
  BY ZenonT(60) DEF KcondInv, KcondTypeOK, CondInv
<1>2. \A t \in Task : InList(condQ, t) => pc[t] = "wait" /\ wobj[t] = "KCOND"
  BY ZenonT(60) DEF KcondInv, CondInv
<1>3. Asleep \in SUBSET Task /\ \A t \in Asleep : InList(condQ, t)
  BY Zenon DEF Asleep
<1>4. \A t : InList(Sleepers, t) <=> t \in Asleep
  BY Zenon, <1>1, <1>3, ReducedElements DEF Sleepers
<1>. QED
  BY Zenon, <1>1, <1>2, <1>3, <1>4

(* The waiters that sleep, when nobody joins or leaves the list and no     *)
(* task in kcond_wait falls asleep or wakes up.                            *)
LEMMA SleepersFrame ==
  ASSUME KcondInv, condQ' = condQ,
         \A t \in Task : pc[t] = "wait" => (state'[t] = "SLEEPING" <=> state[t] = "SLEEPING")
  PROVE  Sleepers' = Sleepers
<1>1. \A t \in Task : InList(condQ, t) => pc[t] = "wait"
  BY Zenon, SleepersLemma
<1>2. Asleep' = Asleep
  BY Zenon, <1>1 DEF Asleep
<1>. QED
  BY Zenon, <1>2 DEF Sleepers

(* A step that leaves the waiters that sleep alone is one of the mutex.    *)
LEMMA QuietStep ==
  ASSUME KcondInv, KcondInv', [KcondNext]_kcondVars, Sleepers' = Sleepers
  PROVE  [Mon!MonitorNext]_(Mon!monitorVars)
<1>1. CASE \E u \in Task : Inside = {} /\ Inside' = {u}
  <2>1. PICK u \in Task : Inside = {} /\ Inside' = {u}
    BY Zenon, <1>1
  <2>2. ~InList(Sleepers, u)
    <3>1. pc'[u] = "cs"
      BY Zenon, <2>1 DEF Inside
    <3>2. \A t \in Task : InList(condQ', t) => pc'[t] = "wait"
      BY ZenonT(60) DEF KcondInv, CondInv
    <3>3. u \notin Asleep'
      BY Zenon, <3>1, <3>2 DEF Asleep
    <3>4. condQ' \in Seq(Task) /\ Distinct(condQ')
      BY ZenonT(60) DEF KcondInv, KcondTypeOK, CondInv
    <3>5. Asleep' \in SUBSET Task /\ \A t \in Asleep' : InList(condQ', t)
      BY Zenon DEF Asleep
    <3>6. ~InList(Reduced(condQ', Asleep'), u)
      BY Zenon, <3>3, <3>4, <3>5, ReducedElements
    <3>7. Sleepers' = Reduced(condQ', Asleep')
      BY Zenon DEF Sleepers
    <3>. QED
      BY Zenon, <3>6, <3>7
  <2>3. ~Mon!InList(Sleepers, u)
    BY Zenon, <2>2, SameLists
  <2>4. Mon!Enter(u)
    BY Zenon, <2>1, <2>3 DEF Inside, Mon!Enter
  <2>. QED
    BY Zenon, <2>4 DEF Mon!MonitorNext
<1>2. CASE \E t \in Task : Inside = {t} /\ Inside' = {}
  <2>1. PICK t \in Task : Inside = {t} /\ Inside' = {}
    BY Zenon, <1>2
  <2>2. Mon!Leave(t)
    BY Zenon, <2>1 DEF Inside, Mon!Leave
  <2>. QED
    BY Zenon, <2>2 DEF Mon!MonitorNext
<1>3. CASE Inside' = Inside
  BY Zenon, <1>3 DEF Inside, Mon!monitorVars
<1>4. OwnerInv /\ OwnerInv'
  BY ZenonT(60) DEF OwnerInv, KcondInv, KcondTypeOK, KmutexTypeOK, TasksTypeOK, MutexInv
<1>. QED
  BY Zenon, <1>1, <1>2, <1>3, <1>4, InsideStep

(* tick_all_timers: the waits of several tasks may be over at once.        *)
LEMMA MonTick ==
  ASSUME KcondInv, TickAllTimers, UNCHANGED <<mutexVars, condQ>>
  PROVE  Mon!MonitorNext
<1> DEFINE S == {t \in TimedTask : timer[t] = 1}
<1>1. pc' = pc /\ condQ' = condQ
  BY Zenon DEF TickAllTimers
<1>2. \A t \in Task : timer[t] = 1 => t \in TimedTask
  BY SMTT(60) DEF KcondInv, TimerInv
<1>3. Asleep' = Asleep \ S
  <2>1. \A t \in Task : state'[t] = "SLEEPING" <=> state[t] = "SLEEPING" /\ timer[t] # 1
    BY Zenon DEF TickAllTimers
  <2>. QED
    BY Zenon, <1>1, <1>2, <2>1 DEF Asleep
<1> HIDE DEF S
<1>4. /\ condQ \in Seq(Task) /\ Distinct(condQ)
      /\ Asleep \in SUBSET Task /\ \A t \in Asleep : InList(condQ, t)
  BY Zenon, SleepersLemma
<1> DEFINE R == Asleep \ S
<1>5. R \in SUBSET Asleep /\ R = {t \in Task : InList(Sleepers, t)} \ S
  BY Zenon, SleepersLemma
<1>6. Sleepers' = Reduced(Sleepers, R)
  <2>1. Sleepers' = Reduced(condQ, R)
    BY Zenon, <1>1, <1>3 DEF Sleepers
  <2> HIDE DEF R
  <2>2. Reduced(Reduced(condQ, Asleep), R) = Reduced(condQ, R)
    BY SMTT(60), <1>4, <1>5, ReducedTwice
  <2>. QED
    BY Zenon, <2>1, <2>2 DEF Sleepers
<1> HIDE DEF R
<1>7. Sleepers' = Mon!Reduced(Sleepers, {t \in Task : Mon!InList(Sleepers, t)} \ S)
  <2>1. {t \in Task : Mon!InList(Sleepers, t)} = {t \in Task : InList(Sleepers, t)}
    BY Zenon, SameLists
  <2>. QED
    BY Zenon, <1>5, <1>6, <2>1, SameLists
<1>8. S \in SUBSET (UserTask \cup TimedTask)
  BY Zenon DEF S
<1>9. Mon!TimeOut(S)
  BY Zenon, <1>1, <1>7, <1>8 DEF Mon!TimeOut
<1>. QED
  BY Zenon, <1>8, <1>9 DEF Mon!MonitorNext

(* A task that stays outside kcond_wait, or comes back from it, does not   *)
(* wake a waiter up, and neither does the scheduler.                       *)
LEMMA MonQuiet ==
  ASSUME KcondInv, KcondInv', UNCHANGED condQ,
         \/ \E t \in Task : KmutexStep(t)
         \/ DoSchedule
         \/ \E t \in Task : TaskStep(t) \/ \E n \in 1..MaxTicks : KernelSleep(t, n)
         \/ \E u \in UserTask : SendSignal(u)
  PROVE  Sleepers' = Sleepers
<1> USE TaskAssumption, KmutexAssumption
<1> DEFINE Same(w) == pc[w] = "wait" => (state'[w] = "SLEEPING" <=> state[w] = "SLEEPING")
<1>0. /\ state \in [Task -> TaskState] /\ pc \in [Task -> Location] /\ cur \in Task
      /\ mutexQ \in Seq(Task) /\ ~panic'
      /\ \A t \in Task : InList(mutexQ, t) => pc[t] = "lock"
      /\ \A t \in Task : pc[t] = "wait" => wobj[t] = "KCOND" \/ state[t] # "SLEEPING"
  <2>1. /\ state \in [Task -> TaskState] /\ pc \in [Task -> Location] /\ cur \in Task
        /\ mutexQ \in Seq(Task) /\ ~panic'
    BY ZenonT(60) DEF KcondInv, KcondTypeOK, KmutexTypeOK, TasksTypeOK
  <2>2. \A t \in Task : InList(mutexQ, t) => pc[t] = "lock"
    BY ZenonT(60) DEF KcondInv, MutexInv
  <2>3. \A t \in Task : pc[t] = "wait" => wobj[t] = "KCOND" \/ state[t] # "SLEEPING"
    BY ZenonT(60) DEF KcondInv, CondInv
  <2>. QED
    BY ZenonT(60), <2>1, <2>2, <2>3
<1>1. ASSUME NEW t \in Task, KmutexStep(t) PROVE \A w \in Task : Same(w)
  <2>1. CASE KmutexLock(t)
    <3>1. pc[t] # "wait"
      BY Zenon, <2>1 DEF KmutexLock, At
    <3>2. state' = state \/ state' = [state EXCEPT ![t] = "SLEEPING"]
      BY Zenon, <1>0, <2>1 DEF KmutexLock, LockFree, LockBusy, KmutexPanic, Panic, taskVars
    <3>. QED
      BY Zenon, <1>0, <3>1, <3>2
  <2>2. CASE KmutexLockWoken(t) \/ KmutexNest(t) \/ KmutexTrylock(t)
    BY ZenonT(60), <2>2 DEF KmutexLockWoken, KmutexNest, KmutexTrylock, KmutexPanic, Panic, taskVars
  <2>3. CASE KmutexUnlock(t)
    <3>1. state' = state \/ state' = WakeUp(state, Successor)
      BY Zenon, <2>3 DEF KmutexUnlock, HandOver, KmutexPanic, Panic, taskVars
    <3>2. ASSUME NEW w \in Task, w = Successor PROVE pc[w] = "lock"
      <4>1. mutexQ # <<>> /\ w = Head(mutexQ)
        BY Zenon, <3>2 DEF Successor
      <4>2. InList(mutexQ, w)
        <5>1. Len(mutexQ) \in Nat /\ Len(mutexQ) > 0 /\ Head(mutexQ) = mutexQ[1]
          BY SMTT(60), <1>0, <4>1, LenLemma
        <5>. QED
          BY SMTT(60), <4>1, <5>1 DEF InList
      <4>. QED
        BY Zenon, <1>0, <4>2
    <3>3. ASSUME NEW w \in Task, state' = WakeUp(state, Successor) PROVE Same(w)
      <4>1. w # Successor => state'[w] = state[w]
        BY Zenon, <3>3 DEF WakeUp
      <4>. QED
        BY Zenon, <3>2, <4>1
    <3>. QED
      BY ZenonT(60), <3>1, <3>3
  <2>. QED
    BY Zenon, <1>1, <2>1, <2>2, <2>3 DEF KmutexStep
<1>2. ASSUME DoSchedule PROVE \A w \in Task : Same(w)
  <2>1. state[Idle] # "SLEEPING" /\ (timerReady[cur] => state[cur] = "RUNNABLE")
    BY ZenonT(60), <1>0 DEF KcondInv, SchedInv, AwakeInv, TimerInv
  <2>2. CASE ReturnImmediately
    <3>1. state' = [state EXCEPT ![cur] = "RUNNING"] /\ state[cur] = "RUNNABLE"
      BY ZenonT(60), <2>1, <2>2 DEF ReturnImmediately
    <3>. QED
      BY Zenon, <1>0, <3>1
  <2>3. ASSUME NEW t \in Task, SwitchTo(t) PROVE \A w \in Task : Same(w)
    <3>1. state[t] # "SLEEPING"
      BY Zenon, <2>1, <2>3 DEF SwitchTo, Selectable
    <3>2. \A w \in Task : state'[w] = IF w = t THEN "RUNNING"
                                      ELSE IF w = cur /\ state[w] = "RUNNING"
                                      THEN "RUNNABLE" ELSE state[w]
      BY ZenonT(60), <2>3 DEF SwitchTo
    <3>. QED
      BY Zenon, <3>1, <3>2
  <2> HIDE DEF Same
  <2>. QED
    BY ZenonT(60), <1>2, <2>2, <2>3 DEF DoSchedule
<1>3. ASSUME NEW t \in Task, TaskStep(t) \/ \E n \in 1..MaxTicks : KernelSleep(t, n)
      PROVE  \A w \in Task : Same(w)
  <2>1. pc[t] # "wait"
    BY Zenon, <1>3 DEF TaskStep, KernelSleep, KernelSleepWoken, SysPause, ProcessSignals, At
  <2>2. state' = state \/ state' = [state EXCEPT ![t] = "SLEEPING"]
    BY Zenon, <1>3 DEF TaskStep, KernelSleep, KernelSleepWoken, SysPause, ProcessSignals, taskVars
  <2>. QED
    BY Zenon, <1>0, <2>1, <2>2
<1>4. ASSUME NEW u \in UserTask, SendSignal(u) PROVE \A w \in Task : Same(w)
  <2>1. CASE SignalWakesUp(u)
    <3>1. state' = WakeUp(state, u) /\ wobj[u] = "NONE" /\ state[u] = "SLEEPING" /\ u \in Task
      BY Zenon, <1>4, <2>1 DEF SendSignal, SignalWakesUp
    <3>2. pc[u] # "wait"
      BY Zenon, <1>0, <3>1
    <3>3. \A w \in Task : w # u => state'[w] = state[w]
      BY ZenonT(60), <3>1 DEF WakeUp
    <3>. QED
      BY Zenon, <3>2, <3>3
  <2>2. CASE ~SignalWakesUp(u)
    BY ZenonT(60), <1>4, <2>2 DEF SendSignal
  <2>. QED
    BY Zenon, <2>1, <2>2
<1>5. \A w \in Task : Same(w)
  <2> HIDE DEF Same
  <2>. QED
    BY ZenonT(60), <1>1, <1>2, <1>3, <1>4
<1>. QED
  BY ZenonT(60), <1>5, SleepersFrame

(* kcond_wait: leaving the mutex and joining the sleepers is one step.     *)
LEMMA MonWait ==
  ASSUME KcondInv, KcondInv', NEW t \in Task, NEW n, KcondWait(t, n)
  PROVE  Mon!MonitorNext
<1> USE TaskAssumption, KmutexAssumption
<1>0. /\ state \in [Task -> TaskState] /\ pc \in [Task -> Location] /\ mutexQ \in Seq(Task)
      /\ ~panic' /\ pc[t] = "cs" /\ t = cur
      /\ \A u \in Task : InList(mutexQ, u) => pc[u] = "lock"
      /\ \A u \in Task : pc[u] = "cs" => owner = u
  <2>1. /\ state \in [Task -> TaskState] /\ pc \in [Task -> Location] /\ mutexQ \in Seq(Task)
        /\ ~panic'
    BY ZenonT(60) DEF KcondInv, KcondTypeOK, KmutexTypeOK, TasksTypeOK
  <2>2. /\ \A u \in Task : InList(mutexQ, u) => pc[u] = "lock"
        /\ \A u \in Task : pc[u] = "cs" => owner = u
    BY ZenonT(60) DEF KcondInv, MutexInv
  <2>3. pc[t] = "cs" /\ t = cur
    BY ZenonT(60) DEF KcondWait, At, Running
  <2>. QED
    BY ZenonT(60), <2>1, <2>2, <2>3
<1>1. /\ condQ' = Append(condQ, t) /\ pc' = [pc EXCEPT ![t] = "wait"]
      /\ state' = WakeUp([state EXCEPT ![t] = "SLEEPING"], Successor)
  <2>1. CanPrepareToWait(t) /\ CanUnlock(t)
    BY Zenon, <1>0 DEF KcondWait, KmutexPanic, Panic
  <2>. QED
    BY Zenon, <2>1 DEF KcondWait, HandOver, Goto
<1>2. ASSUME NEW w \in Task, w = Successor PROVE pc[w] = "lock"
  <2>1. mutexQ # <<>> /\ w = Head(mutexQ)
    BY Zenon, <1>2 DEF Successor
  <2>2. InList(mutexQ, w)
    <3>1. Len(mutexQ) \in Nat /\ Len(mutexQ) > 0 /\ Head(mutexQ) = mutexQ[1]
      BY SMTT(60), <1>0, <2>1, LenLemma
    <3>. QED
      BY SMTT(60), <2>1, <3>1 DEF InList
  <2>. QED
    BY Zenon, <1>0, <2>2
<1>3. /\ state'[t] = "SLEEPING"
      /\ \A w \in Task \ {t} : pc[w] # "lock" => state'[w] = state[w]
  <2>1. \A w \in Task : w # Successor => state'[w] = [state EXCEPT ![t] = "SLEEPING"][w]
    BY Zenon, <1>1 DEF WakeUp
  <2>2. \A w \in Task : pc[w] # "lock" => w # Successor
    BY Zenon, <1>2
  <2>. QED
    BY Zenon, <1>0, <2>1, <2>2
<1>4. /\ condQ \in Seq(Task) /\ Distinct(condQ)
      /\ Asleep \in SUBSET Task /\ \A w \in Asleep : InList(condQ, w)
      /\ \A w \in Task : InList(condQ, w) => pc[w] = "wait"
  BY Zenon, SleepersLemma
<1>5. ~InList(condQ, t)
  BY Zenon, <1>0, <1>4
<1>6. \A w : InList(condQ', w) <=> w = t \/ InList(condQ, w)
  BY Zenon, <1>1, <1>4, <1>5, AppendLemma
<1>7. Asleep' = Asleep \cup {t}
  <2>1. \A w \in Task : w \in Asleep' <=> InList(condQ', w) /\ state'[w] = "SLEEPING"
    BY Zenon DEF Asleep
  <2>2. \A w \in Task : w \in Asleep <=> InList(condQ, w) /\ state[w] = "SLEEPING"
    BY Zenon DEF Asleep
  <2>3. Asleep' \in SUBSET Task
    BY Zenon DEF Asleep
  <2>. QED
    BY Zenon, <1>3, <1>4, <1>5, <1>6, <2>1, <2>2, <2>3
<1>8. Sleepers' = Append(Sleepers, t)
  <2>1. Reduced(Append(condQ, t), Asleep \cup {t}) = Append(Reduced(condQ, Asleep), t)
    BY SMTT(60), <1>4, <1>5, ReducedAppend
  <2>. QED
    BY ZenonT(60), <1>1, <1>7, <2>1 DEF Sleepers
<1>9. Inside = {t} /\ Inside' = {}
  BY Zenon, <1>0, <1>1 DEF Inside
<1>10. Mon!Wait(t)
  BY Zenon, <1>8, <1>9 DEF Inside, Mon!Wait
<1>. QED
  BY ZenonT(60), <1>10 DEF Mon!MonitorNext

(* A task that leaves kcond_wait had already been woken up. *)
LEMMA MonWoken ==
  ASSUME KcondInv, NEW t \in Task, KcondWaitWoken(t)
  PROVE  Sleepers' = Sleepers
<1>1. condQ' = Unlink(condQ, t) /\ state' = state /\ state[t] = "RUNNING"
  BY Zenon DEF KcondWaitWoken, At, Running
<1>2. /\ condQ \in Seq(Task) /\ Distinct(condQ)
      /\ Asleep \in SUBSET Task /\ \A w \in Asleep : InList(condQ, w)
      /\ \A w : InList(Sleepers, w) <=> w \in Asleep
  BY Zenon, SleepersLemma
<1>3. \A w : InList(condQ', w) <=> w # t /\ InList(condQ, w)
  BY Zenon, <1>1, <1>2, UnlinkLemma
<1>4. t \notin Asleep
  BY Zenon, <1>1 DEF Asleep
<1>5. Asleep' = Asleep \ {t}
  BY Zenon, <1>1, <1>3, <1>4 DEF Asleep
<1>6. Sleepers' = Unlink(Sleepers, t)
  <2>1. Reduced(Unlink(condQ, t), Asleep \ {t}) = Unlink(Reduced(condQ, Asleep), t)
    BY <1>2, ReducedUnlink
  <2>. QED
    BY Zenon, <1>1, <1>5, <2>1 DEF Sleepers
<1>. QED
  BY Zenon, <1>2, <1>4, <1>6 DEF Unlink

(* kcond_signal_one and kcond_signal_all: the first sleeper, or all.       *)
LEMMA MonSignal ==
  ASSUME KcondInv, KcondInv', NEW t \in Task, KcondSignalOne(t) \/ KcondSignalAll(t)
  PROVE  Mon!MonitorNext
<1>0. /\ condQ \in Seq(Task) /\ Distinct(condQ)
      /\ Asleep \in SUBSET Task /\ \A w \in Asleep : InList(condQ, w)
      /\ \A w \in Task : InList(condQ, w) => wobj[w] = "KCOND"
  BY Zenon, SleepersLemma
<1>1. CASE KcondSignalOne(t)
  <2> DEFINE h == Head(condQ)
  <2>1. condQ # <<>> /\ h \in Task /\ InList(condQ, h) /\ state[h] = "SLEEPING"
        /\ \A w : InList(Tail(condQ), w) <=> w # h /\ InList(condQ, w)
    BY Zenon, <1>0, <1>1, TailLemma DEF KcondSignalOne
  <2>2. SignalInt({h}) /\ condQ' = Tail(condQ)
    BY Zenon, <1>0, <1>1, <2>1 DEF KcondSignalOne, SignalPanics
  <2>3. pc' = pc /\ \A w \in Task : state'[w] = IF w = h THEN "RUNNABLE" ELSE state[w]
    BY Zenon, <2>2 DEF SignalInt
  <2> HIDE DEF h
  <2>4. h \in Asleep /\ Asleep' = Asleep \ {h}
    BY Zenon, <2>1, <2>2, <2>3 DEF Asleep
  <2>5. Reduced(condQ, Asleep) # <<>>
        /\ Reduced(Tail(condQ), Asleep \ {h}) = Tail(Reduced(condQ, Asleep))
    BY Zenon, <1>0, <2>1, <2>4, ReducedTail DEF h
  <2>6. Sleepers # <<>> /\ Sleepers' = Tail(Sleepers)
    BY ZenonT(60), <2>2, <2>4, <2>5 DEF Sleepers
  <2>. QED
    BY Zenon, <2>3, <2>6 DEF Mon!MonitorNext, Mon!SignalOne
<1>2. CASE KcondSignalAll(t)
  <2>1. ~SignalPanics(Asleep)
    BY Zenon, <1>0 DEF SignalPanics
  <2>2. SignalInt(Asleep)
    BY Zenon, <1>2, <2>1 DEF KcondSignalAll, Asleep
  <2>3. pc' = pc /\ \A w \in Task : state'[w] = IF w \in Asleep THEN "RUNNABLE" ELSE state[w]
    BY Zenon, <2>2 DEF SignalInt
  <2>4. \A w \in Task : InList(condQ', w) => InList(condQ, w)
    <3> DEFINE kept == {u \in Task : InList(condQ, u)} \ Asleep
    <3>1. PICK rest \in ListsOf(kept, Len(condQ)) :
            ListReduced(condQ, kept, rest) /\ condQ' = rest
      BY ZenonT(60), <1>2, <2>1 DEF KcondSignalAll, Asleep
    <3>2. kept \in SUBSET Task /\ \A w \in kept : InList(condQ, w)
      BY Zenon
    <3> HIDE DEF kept
    <3>3. \A w : InList(rest, w) <=> w \in kept
      BY Zenon, <1>0, <3>1, <3>2, ReducedLemma
    <3>. QED
      BY Zenon, <3>1, <3>2, <3>3
  <2>5. Asleep' = {}
    BY Zenon, <2>3, <2>4 DEF Asleep
  <2>6. condQ' \in Seq(Task) /\ Distinct(condQ')
    BY ZenonT(60) DEF KcondInv, KcondTypeOK, CondInv
  <2>7. Sleepers' = <<>>
    <3>1. Reduced(condQ', {}) = <<>>
      BY Zenon, <2>6, ReducedEmpty
    <3>. QED
      BY Zenon, <2>5, <3>1 DEF Sleepers
  <2>. QED
    BY Zenon, <2>3, <2>7 DEF Mon!MonitorNext, Mon!SignalAll
<1>. QED
  BY Zenon, <1>1, <1>2

(* send_signal2 to a sleeper ends its wait. *)
LEMMA MonInterrupt ==
  ASSUME KcondInv, NEW u \in UserTask, SendSignalToWaiter(u)
  PROVE  Mon!MonitorNext
<1> USE TaskAssumption, KmutexAssumption
<1>0. /\ condQ \in Seq(Task) /\ Distinct(condQ)
      /\ Asleep \in SUBSET Task /\ \A w \in Asleep : InList(condQ, w)
      /\ \A w : InList(Sleepers, w) <=> w \in Asleep
  BY Zenon, SleepersLemma
<1>1. /\ u \in Task /\ state[u] = "SLEEPING" /\ wobj[u] = "KCOND" /\ u # cur
      /\ state' = WakeUp(state, u) /\ condQ' = Unlink(condQ, u) /\ pc' = pc
  BY Zenon DEF SendSignalToWaiter, SignalWakesUp, Running
<1>2. InList(condQ, u)
  <2>1. KcondTypeOK /\ SchedInv /\ AwakeInv /\ TimerInv /\ MutexInv /\ CondInv
    BY Zenon DEF KcondInv
  <2>2. pc[u] = "wait"
    BY Zenon, <1>1, <2>1 DEF AwakeInv, TimerInv, MutexInv, SchedInv, Location,
                    KcondTypeOK, KmutexTypeOK, TasksTypeOK
  <2>. QED
    BY Zenon, <1>1, <2>1, <2>2 DEF CondInv
<1>3. \A w : InList(condQ', w) <=> w # u /\ InList(condQ, w)
  BY ZenonT(60), <1>0, <1>1, UnlinkLemma
<1>4. u \in Asleep /\ Asleep' = Asleep \ {u}
  <2>1. \A w \in Task : w # u => state'[w] = state[w]
    BY Zenon, <1>1 DEF WakeUp
  <2>. QED
    BY ZenonT(60), <1>1, <1>2, <1>3, <2>1 DEF Asleep
<1>5. Sleepers' = Unlink(Sleepers, u)
  <2>1. Reduced(Unlink(condQ, u), Asleep \ {u}) = Unlink(Reduced(condQ, Asleep), u)
    BY SMTT(60), <1>0, ReducedUnlink
  <2>2. Sleepers' = Reduced(condQ', Asleep')
    BY Zenon DEF Sleepers
  <2>3. Sleepers' = Reduced(Unlink(condQ, u), Asleep \ {u})
    BY Zenon, <1>1, <1>4, <2>2
  <2>. QED
    BY Zenon, <2>1, <2>3 DEF Sleepers
<1>6. Mon!InList(Sleepers, u) /\ Sleepers' = Mon!Unlink(Sleepers, u)
  BY Zenon, <1>0, <1>4, <1>5, SameLists
<1>7. Mon!Interrupt(u)
  BY ZenonT(60), <1>1, <1>6 DEF Mon!Interrupt
<1>. QED
  BY Zenon, <1>1, <1>7 DEF Mon!MonitorNext

(* kmutex and kcond implement a monitor: ConditionVariable, for any tasks. *)
(* A signal sent after kcond_wait has released the mutex finds the waiter, *)
(* and waiters are served in the order in which they came.                 *)
THEOREM MonitorRefinement ==
  ASSUME NoTimedUser
  PROVE  KcondSpec => ConditionVariable
<1>1. KcondInit => Mon!MonitorInit
  <2> SUFFICES ASSUME KcondInit PROVE Mon!MonitorInit
    OBVIOUS
  <2>1. {t \in Task : pc[t] = "cs"} = {} /\ condQ = <<>>
    BY Zenon DEF KcondInit, KmutexInit, TasksInit
  <2>2. Asleep = {}
    BY <2>1 DEF Asleep, InList
  <2>3. <<>> \in Seq(Task) /\ Distinct(<<>>)
    BY SMTT(60) DEF Distinct
  <2>4. Sleepers = <<>>
    BY ZenonT(60), <2>1, <2>2, <2>3, ReducedEmpty DEF Sleepers
  <2>. QED
    BY Zenon, <2>1, <2>4 DEF Mon!MonitorInit
<1>2. ASSUME KcondInv, KcondInv', [KcondNext]_kcondVars
      PROVE  [Mon!MonitorNext]_(Mon!monitorVars)
  <2>1. CASE Sleepers' = Sleepers
    BY ZenonT(60), <1>2, <2>1, QuietStep
  <2>2. CASE KmutexNext /\ UNCHANGED condQ
    <3>1. CASE \E t \in Task : KmutexStep(t)
      BY ZenonT(60), <1>2, <2>1, <2>2, <3>1, MonQuiet
    <3>2. CASE TasksNext /\ UNCHANGED mutexVars
      <4>1. CASE TickAllTimers
        BY ZenonT(60), <1>2, <2>2, <3>2, <4>1, MonTick
      <4>2. ~Halted
        BY ZenonT(60), <1>2 DEF Halted, KcondInv
      <4>3. TimedTask \subseteq Task
        BY Zenon, TaskAssumption
      <4>4. CASE ~TickAllTimers
        <5>1. \/ DoSchedule
              \/ \E t \in Task : TaskStep(t) \/ \E n \in 1..MaxTicks : KernelSleep(t, n)
              \/ \E u \in UserTask : SendSignal(u)
          BY ZenonT(60), <3>2, <4>2, <4>3, <4>4 DEF TasksNext
        <5>. QED
          BY ZenonT(60), <1>2, <2>1, <2>2, <5>1, MonQuiet
      <4>. QED
        BY Zenon, <4>1, <4>4
    <3>. QED
      BY Zenon, <2>2, <3>1, <3>2 DEF KmutexNext
  <2>3. ASSUME NEW t \in Task, KcondStep(t) PROVE [Mon!MonitorNext]_(Mon!monitorVars)
    <3>1. CASE \E n : KcondWait(t, n)
      BY ZenonT(60), <1>2, <3>1, MonWait
    <3>2. CASE KcondWaitWoken(t)
      BY ZenonT(60), <1>2, <2>1, <3>2, MonWoken
    <3>3. CASE KcondSignalOne(t) \/ KcondSignalAll(t)
      BY ZenonT(60), <1>2, <3>3, MonSignal
    <3>. QED
      BY ZenonT(60), <2>3, <3>1, <3>2, <3>3 DEF KcondStep
  <2>4. CASE \E u \in UserTask : SendSignalToWaiter(u)
    BY ZenonT(60), <1>2, <2>4, MonInterrupt
  <2>5. CASE UNCHANGED kcondVars
    <3>1. state' = state /\ condQ' = condQ
      BY Zenon, <2>5 DEF kcondVars, kmutexVars, taskVars
    <3>2. Sleepers' = Sleepers
      BY Zenon, <3>1 DEF Sleepers, Asleep
    <3>. QED
      BY Zenon, <2>1, <3>2
  <2>. QED
    BY ZenonT(60), <1>2, <2>2, <2>3, <2>4, <2>5 DEF KcondNext
<1>. QED
  BY <1>1, <1>2, Invariance, PTL DEF KcondSpec, ConditionVariable, Mon!MonitorSpec

=============================================================================
