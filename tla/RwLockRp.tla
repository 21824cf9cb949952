------------------------------ MODULE RwLockRp ------------------------------
(***************************************************************************)
(* The reader-preferring lock of kernel/rwlock.c (rwlock_rp): the first    *)
(* reader takes a semaphore for all of them, and a mutex protects their    *)
(* number.  The mutex is what Exclusion says of it (Kcond implements that) *)
(* and the semaphore what Semaphore says (Ksem implements that): a wait    *)
(* ends when it takes the unit.  A step is a region that the other tasks cannot tell apart.       *)
(***************************************************************************)
EXTENDS FiniteSets, Naturals

CONSTANTS Task, NoTask

ASSUME RpAssumption == IsFiniteSet(Task) /\ NoTask \notin Task

VARIABLES
  holder,   \* who is in r->readers_lock, as a set
  sem,      \* the counter of r->writers_sem
  readers,  \* r->readers_count
  owner,    \* r->ex_owner
  at

rpVars == <<holder, sem, readers, owner, at>>

(* "rd", "wr": holds the lock.  In shlock: before the mutex, in ksem_wait, *)
(* and before kmutex_unlock; in shunlock: before the mutex and before      *)
(* kmutex_unlock; in exlock and in exunlock: before and after the          *)
(* semaphore or the ex_owner field, whichever comes first.                 *)
RpLocation == {"out", "rd", "wr", "shlock", "first", "shared", "shunlock", "left",
             "exlock", "own", "exunlock", "release"}

RpTypeOK ==
  /\ holder \subseteq Task
  /\ sem \in {0, 1} /\ readers \in Nat
  /\ owner \in Task \cup {NoTask}
  /\ at \in [Task -> RpLocation]

(* rwlock_rp_init. *)
RpInit ==
  /\ holder = {} /\ sem = 1 /\ readers = 0 /\ owner = NoTask
  /\ at = [t \in Task |-> "out"]

Mutex == INSTANCE Exclusion WITH Process <- Task, inside <- holder

Moves(t, from, to) == at[t] = from /\ at' = [at EXCEPT ![t] = to]

(* ksem_signal: the semaphore has at most one unit. *)
SemSignal == sem' = IF sem < 1 THEN sem + 1 ELSE sem

-----------------------------------------------------------------------------
RpCall(t) ==
  /\ \/ Moves(t, "out", "shlock") \/ Moves(t, "out", "exlock")
     \/ Moves(t, "rd", "shunlock") \/ Moves(t, "wr", "exunlock")
  /\ UNCHANGED <<holder, sem, readers, owner>>

RpGetMutex(t) ==
  /\ at[t] \in {"shlock", "shunlock"}
  /\ Mutex!Enter(t)
  /\ UNCHANGED <<sem, readers, owner, at>>

RpShLock(t) ==
  /\ holder = {t}
  /\ readers' = readers + 1
  /\ Moves(t, "shlock", IF readers' = 1 THEN "first" ELSE "shared")
  /\ UNCHANGED <<holder, sem, owner>>

(* Mutant: the first reader does not wait for the writer. *)
RpFirst_NoWait(t) ==
  /\ sem' = 0
  /\ Moves(t, "first", "shared")
  /\ UNCHANGED <<holder, readers, owner>>

(* The first reader's ksem_wait. *)
RpFirst(t) ==
  /\ sem > 0 /\ sem' = sem - 1
  /\ Moves(t, "first", "shared")
  /\ UNCHANGED <<holder, readers, owner>>

(* Mutant: any reader that leaves lets the writers in. *)
RpShUnlock_AnySignals(t) ==
  /\ holder = {t}
  /\ readers' = readers - 1
  /\ SemSignal
  /\ Moves(t, "shunlock", "left")
  /\ UNCHANGED <<holder, owner>>

RpShUnlock(t) ==
  /\ holder = {t}
  /\ readers' = readers - 1
  /\ IF readers' = 0 THEN SemSignal ELSE UNCHANGED sem
  /\ Moves(t, "shunlock", "left")
  /\ UNCHANGED <<holder, owner>>

RpReturn(t) ==
  /\ Mutex!Leave(t)
  /\ Moves(t, "shared", "rd") \/ Moves(t, "left", "out")
  /\ UNCHANGED <<sem, readers, owner>>

(* exlock: ksem_wait, then ex_owner. *)
RpExLock(t) ==
  /\ sem > 0 /\ sem' = sem - 1
  /\ Moves(t, "exlock", "own")
  /\ UNCHANGED <<holder, readers, owner>>

RpOwn(t) ==
  /\ owner' = t
  /\ Moves(t, "own", "wr")
  /\ UNCHANGED <<holder, sem, readers>>

(* exunlock: ex_owner, then ksem_signal. *)
RpExUnlock(t) ==
  /\ owner' = NoTask
  /\ Moves(t, "exunlock", "release")
  /\ UNCHANGED <<holder, sem, readers>>

RpRelease(t) ==
  /\ SemSignal
  /\ Moves(t, "release", "out")
  /\ UNCHANGED <<holder, readers, owner>>

RpStep(t) ==
  \/ RpCall(t) \/ RpGetMutex(t) \/ RpShLock(t) \/ RpFirst(t) \/ RpShUnlock(t)
  \/ RpReturn(t) \/ RpExLock(t) \/ RpOwn(t) \/ RpExUnlock(t) \/ RpRelease(t)

RpNext == \E t \in Task : RpStep(t)

RpSpec == RpInit /\ [][RpNext]_rpVars

-----------------------------------------------------------------------------
Counted == {t \in Task : at[t] \in {"first", "shared", "rd", "shunlock"}}
Shares == {t \in Task : at[t] \in {"shared", "rd", "shunlock"}}
Excludes == {t \in Task : at[t] \in {"own", "wr", "exunlock"}}

RSL == INSTANCE SharedLock WITH Process <- Task, reading <- Shares, writing <- Excludes

(* Readers exclude writers and writers each other, although only the first *)
(* reader and the last one use the semaphore.                              *)
RpReadersXorWriter == RSL!Spec

(* The tasks that wait for the semaphore, or are about to take its unit. *)
SemAsked == [t \in Task |-> IF at[t] \in {"first", "exlock"} THEN 1 ELSE 0]

(* The semaphore as its users see it (Ksem implements Semaphore). *)
RSem == INSTANCE Semaphore WITH
          Client <- Task, Start <- 1, Max <- 1, TakeUnits <- {1}, GiveUnits <- {1},
          units <- sem, asked <- SemAsked

(* The tasks that have taken the unit for themselves. *)
Units(t) == at[t] \in {"own", "wr", "exunlock", "release"}

HolderInv ==
  /\ \A t \in Task : at[t] \in {"first", "shared", "left"} => holder = {t}
  /\ \A t \in holder :
       holder = {t} /\ at[t] \in {"shlock", "first", "shared", "shunlock", "left"}
  /\ \A t \in Task : at[t] = "first" => Counted = {t}

UnitInv ==
  /\ \A s, t \in Task : Units(s) /\ Units(t) => s = t
  /\ \A t \in Task : Units(t) => sem = 0 /\ Shares = {}
  /\ Shares # {} => sem = 0
  /\ sem = 0 => Shares # {} \/ \E t \in Task : Units(t)

(* The unit of the semaphore is in its counter, with a writer, or with the *)
(* readers, never in two places and never lost; readers_count is the       *)
(* number of the readers; and ex_owner is what the ASSERTs of exlock and   *)
(* exunlock say.                                                           *)
RpInv ==
  /\ RpTypeOK /\ HolderInv /\ UnitInv
  /\ readers = Cardinality(Counted)
  /\ \A t \in Task : owner = t <=> at[t] \in {"wr", "exunlock"}

=============================================================================
