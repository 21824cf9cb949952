------------------------------- MODULE Kmutex -------------------------------
(***************************************************************************)
(* kernel/kmutex.c: a sleeping mutex whose unlock hands the ownership to   *)
(* the first waiter.  Holding it does not disable preemption.              *)
(*                                                                         *)
(* The model has one mutex and tasks that lock, try, unlock, sleep and     *)
(* signal each other in any order.                                         *)
(***************************************************************************)
EXTENDS Tasks

CONSTANTS
  NULL,
  Recursive,  \* m->flags has KMUTEX_FL_RECURSIVE
  MaxDepth    \* bound on the nesting of a recursive mutex

ASSUME KmutexAssumption ==
  /\ NULL \notin Task
  /\ Recursive \in BOOLEAN
  /\ MaxDepth \in Nat \ {0}

VARIABLES
  owner,      \* m->owner_task
  lockCount,  \* m->lock_count
  mutexQ      \* m->wait_list

mutexVars == <<owner, lockCount, mutexQ>>

KmutexTypeOK ==
  /\ TasksTypeOK
  /\ owner \in Task \cup {NULL}
  /\ lockCount \in 0..MaxDepth
  /\ mutexQ \in Seq(Task)

KmutexInit ==
  /\ TasksInit
  /\ owner = NULL
  /\ lockCount = 0
  /\ mutexQ = <<>>

(* A failed ASSERT of kmutex.c. *)
KmutexPanic == Panic /\ UNCHANGED mutexVars

-----------------------------------------------------------------------------
(* What taking a mutex that nobody owns adds to lock_count. *)
FirstCount == IF Recursive THEN 1 ELSE 0

(* kmutex_lock when nobody owns the mutex. *)
LockFree(t) ==
  /\ owner = NULL
  /\ IF Recursive /\ lockCount # 0 THEN KmutexPanic
     ELSE /\ owner' = t
          /\ lockCount' = lockCount + FirstCount
          /\ Goto(t, "cs")
          /\ UNCHANGED <<taskVars, mutexQ>>

(* Mutant: a new waiter is put at the head of the wait list. *)
LockBusy_AddHead(t) ==
  /\ owner \notin {NULL, t}
  /\ mutexQ' = <<t>> \o mutexQ
  /\ wobj' = [wobj EXCEPT ![t] = "KMUTEX"]
  /\ state' = [state EXCEPT ![t] = "SLEEPING"]
  /\ Goto(t, "lock")
  /\ UNCHANGED <<cur, timer, timerReady, pending, panic, owner, lockCount>>

(* kmutex_lock when another task owns it: join the wait list and sleep.    *)
LockBusy(t) ==
  /\ owner \notin {NULL, t}
  /\ IF ~CanPrepareToWait(t) \/ (Recursive /\ lockCount = 0) THEN KmutexPanic
     ELSE /\ mutexQ' = Append(mutexQ, t)
          /\ wobj' = [wobj EXCEPT ![t] = "KMUTEX"]
          /\ state' = [state EXCEPT ![t] = "SLEEPING"]
          /\ Goto(t, "lock")
          /\ UNCHANGED <<cur, timer, timerReady, pending, panic, owner, lockCount>>

KmutexLock(t) ==
  /\ At(t, "out") \/ At(t, "relock")
  /\ LockFree(t) \/ LockBusy(t)

(* The rest of kmutex_lock, once the task has been woken up. *)
KmutexLockWoken(t) ==
  /\ At(t, "lock")
  /\ IF owner # t \/ lockCount # FirstCount THEN KmutexPanic
     ELSE Goto(t, "cs") /\ UNCHANGED <<taskVars, mutexVars>>

(* A nested kmutex_lock or kmutex_trylock by the owner. *)
KmutexNest(t) ==
  /\ At(t, "cs")
  /\ Recursive /\ owner = t /\ lockCount < MaxDepth
  /\ lockCount' = lockCount + 1
  /\ UNCHANGED <<taskVars, owner, mutexQ, pc>>

(* Mutant: trylock does not look at the owner. *)
KmutexTrylock_NoCheck(t) ==
  /\ At(t, "out")
  /\ owner' = t
  /\ lockCount' = FirstCount
  /\ Goto(t, "cs")
  /\ UNCHANGED <<taskVars, mutexQ>>

(* kmutex_trylock from outside; it changes nothing when it fails. *)
KmutexTrylock(t) ==
  /\ At(t, "out")
  /\ owner = NULL
  /\ owner' = t
  /\ lockCount' = lockCount + FirstCount
  /\ Goto(t, "cs")
  /\ UNCHANGED <<taskVars, mutexQ>>

(* The task to which unlock gives the mutex. *)
Successor == IF mutexQ = <<>> THEN NULL ELSE Head(mutexQ)

(* Mutant: the new owner is not woken up. *)
HandOver_NoWakeUp(st, wo) ==
  /\ owner' = Successor
  /\ lockCount' = IF mutexQ = <<>> THEN 0 ELSE FirstCount
  /\ mutexQ' = IF mutexQ = <<>> THEN <<>> ELSE Tail(mutexQ)
  /\ state' = st
  /\ wobj' = WaitObjReset(wo, Successor)

(* The last part of kmutex_unlock, given the task states and the wait      *)
(* objects at that point: pass the mutex on and wake the new owner up.     *)
HandOver(st, wo) ==
  /\ owner' = Successor
  /\ lockCount' = IF mutexQ = <<>> THEN 0 ELSE FirstCount
  /\ mutexQ' = IF mutexQ = <<>> THEN <<>> ELSE Tail(mutexQ)
  /\ state' = WakeUp(st, Successor)
  /\ wobj' = WaitObjReset(wo, Successor)

(* The ASSERTs of kmutex_unlock. *)
CanUnlock(t) ==
  /\ owner = t
  /\ Recursive => lockCount > 0
  /\ mutexQ # <<>> => state[Head(mutexQ)] = "SLEEPING"

KmutexUnlock(t) ==
  /\ At(t, "cs")
  /\ \/ /\ ~CanUnlock(t)
        /\ KmutexPanic
     \/ /\ CanUnlock(t) /\ lockCount > 1
        /\ lockCount' = lockCount - 1
        /\ UNCHANGED <<taskVars, owner, mutexQ, pc>>
     \/ /\ CanUnlock(t) /\ lockCount <= 1
        /\ HandOver(state, wobj)
        /\ Goto(t, "out")
        /\ UNCHANGED <<cur, timer, timerReady, pending, panic>>

-----------------------------------------------------------------------------
KmutexStep(t) ==
  \/ KmutexLock(t) \/ KmutexLockWoken(t) \/ KmutexNest(t)
  \/ KmutexTrylock(t) \/ KmutexUnlock(t)

KmutexNext ==
  \/ \E t \in Task : KmutexStep(t)
  \/ TasksNext /\ UNCHANGED mutexVars

kmutexVars == <<taskVars, pc, mutexVars>>

KmutexSpec == KmutexInit /\ [][KmutexNext]_kmutexVars

=============================================================================
