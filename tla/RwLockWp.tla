------------------------------ MODULE RwLockWp ------------------------------
(***************************************************************************)
(* The writer-preferring lock of kernel/rwlock.c (rwlock_wp), which        *)
(* devfs, ramfs and sysfs use.  Its mutex and its condition are those of   *)
(* Monitor; between entering and leaving it, a task runs alone.            *)
(***************************************************************************)
EXTENDS Monitor, FiniteSets

CONSTANTS
  NULL,
  Rec,      \* rw->rec: exlock can be nested
  MaxRec    \* bound on the nesting

ASSUME WpAssumption ==
  /\ IsFiniteSet(Process) /\ NULL \notin Process
  /\ Rec \in BOOLEAN /\ MaxRec \in Nat \ {0}

VARIABLES
  r,        \* readers count
  w,        \* a writer is waiting or writing
  exOwner,  \* rw->ex_owner
  rc,       \* recursive locking count
  pc

wpVars == <<inside, waitQ, r, w, exOwner, rc, pc>>

(* "out": holds nothing; "rd", "wr": holds the lock; "shlock", "shunlock", *)
(* "exunlock": in these functions; "exlock", "drain": in the first and in  *)
(* the second loop of exlock; "nest": in exlock of a task that already is  *)
(* the exclusive owner of a recursive lock.                                *)
InCall == {"shlock", "shunlock", "exlock", "drain", "exunlock", "nest"}
Location == {"out", "rd", "wr"} \cup InCall

WpTypeOK ==
  /\ inside \subseteq Process /\ waitQ \in Seq(Process)
  /\ r \in Nat /\ w \in BOOLEAN
  /\ exOwner \in Process \cup {NULL}
  /\ rc \in Nat
  /\ pc \in [Process -> Location]

(* rwlock_wp_init; it leaves rc alone, which is 0 in the zeroed memory of *)
(* the objects that embed the lock.                                       *)
WpInit ==
  /\ MonitorInit
  /\ r = 0 /\ w = FALSE /\ exOwner = NULL /\ rc = 0
  /\ pc = [t \in Process |-> "out"]

Goto(t, l) == pc' = [pc EXCEPT ![t] = l]

lockVars == <<r, w, exOwner, rc>>

-----------------------------------------------------------------------------
(* A task calls one of the functions. *)
Call(t) ==
  /\ t \notin inside
  /\ \/ pc[t] = "out" /\ (Goto(t, "shlock") \/ Goto(t, "exlock"))
     \/ pc[t] = "rd" /\ Goto(t, "shunlock")
     \/ pc[t] = "wr" /\ Goto(t, "exunlock")
     \/ pc[t] = "wr" /\ Rec /\ rc < MaxRec /\ Goto(t, "nest")
  /\ UNCHANGED <<inside, waitQ, lockVars>>

(* It gets the mutex, in kmutex_lock or at the end of kcond_wait. *)
GetMutex(t) == pc[t] \in InCall /\ Enter(t) /\ UNCHANGED <<lockVars, pc>>

(* kmutex_unlock, at the end of each function. *)
Return(t) == pc[t] \notin InCall /\ Leave(t) /\ UNCHANGED <<lockVars, pc>>

(* kcond_wait in one of the loops. *)
WaitInLoop(t) ==
  /\ \/ pc[t] \in {"shlock", "exlock"} /\ w
     \/ pc[t] = "drain" /\ r > 0
  /\ Wait(t)
  /\ UNCHANGED <<lockVars, pc>>

ShLock(t) ==
  /\ pc[t] = "shlock" /\ inside = {t} /\ ~w
  /\ r' = r + 1
  /\ Goto(t, "rd")
  /\ UNCHANGED <<inside, waitQ, w, exOwner, rc>>

(* Mutant: the last reader does not signal the condition. *)
ShUnlock_NoSignal(t) ==
  /\ pc[t] = "shunlock" /\ inside = {t}
  /\ r' = r - 1
  /\ Goto(t, "out")
  /\ UNCHANGED <<inside, waitQ, w, exOwner, rc>>

ShUnlock(t) ==
  /\ pc[t] = "shunlock" /\ inside = {t}
  /\ r' = r - 1
  /\ IF r = 1 THEN SignalOne ELSE UNCHANGED waitQ
  /\ Goto(t, "out")
  /\ UNCHANGED <<inside, w, exOwner, rc>>

(* Mutant: a writer does not wait for the other writers. *)
ExLockTurn_NoWait(t) ==
  /\ pc[t] = "exlock" /\ inside = {t}
  /\ w' = TRUE
  /\ Goto(t, "drain")
  /\ UNCHANGED <<inside, waitQ, r, exOwner, rc>>

(* Mutant: exlock sets no flag that keeps new readers out. *)
ExLockTurn_NoFlag(t) ==
  /\ pc[t] = "exlock" /\ inside = {t} /\ ~w
  /\ Goto(t, "drain")
  /\ UNCHANGED <<inside, waitQ, lockVars>>

(* exlock: the first loop ends; the task is the next writer. *)
ExLockTurn(t) ==
  /\ pc[t] = "exlock" /\ inside = {t} /\ ~w
  /\ w' = TRUE
  /\ Goto(t, "drain")
  /\ UNCHANGED <<inside, waitQ, r, exOwner, rc>>

(* Mutant: exlock does not wait for the readers. *)
ExLock_NoDrain(t) ==
  /\ pc[t] = "drain" /\ inside = {t}
  /\ exOwner' = t
  /\ rc' = IF Rec THEN 1 ELSE rc
  /\ Goto(t, "wr")
  /\ UNCHANGED <<inside, waitQ, r, w>>

(* exlock: the second loop ends. *)
ExLock(t) ==
  /\ pc[t] = "drain" /\ inside = {t} /\ r = 0
  /\ exOwner' = t
  /\ rc' = IF Rec THEN rc + 1 ELSE rc
  /\ Goto(t, "wr")
  /\ UNCHANGED <<inside, waitQ, r, w>>

(* exlock of the owner. *)
ExLockNested(t) ==
  /\ pc[t] = "nest" /\ inside = {t}
  /\ rc' = rc + 1
  /\ Goto(t, "wr")
  /\ UNCHANGED <<inside, waitQ, r, w, exOwner>>

(* Mutant: only one of the waiting tasks is woken up. *)
ExUnlock_SignalOne(t) ==
  /\ pc[t] = "exunlock" /\ inside = {t}
  /\ exOwner' = NULL /\ w' = FALSE
  /\ rc' = IF Rec THEN rc - 1 ELSE rc
  /\ SignalOne /\ Goto(t, "out")
  /\ UNCHANGED <<inside, r>>

(* Mutant: the count of a recursive lock is not looked at. *)
ExUnlock_NoCount(t) ==
  /\ pc[t] = "exunlock" /\ inside = {t}
  /\ exOwner' = NULL /\ w' = FALSE
  /\ rc' = IF Rec THEN rc - 1 ELSE rc
  /\ SignalAll
  /\ Goto(t, IF rc > 1 THEN "wr" ELSE "out")
  /\ UNCHANGED <<inside, r>>

ExUnlock(t) ==
  /\ pc[t] = "exunlock" /\ inside = {t}
  /\ rc' = IF Rec THEN rc - 1 ELSE rc
  /\ IF Rec /\ rc > 1
     THEN Goto(t, "wr") /\ UNCHANGED <<waitQ, exOwner, w>>
     ELSE exOwner' = NULL /\ w' = FALSE /\ SignalAll /\ Goto(t, "out")
  /\ UNCHANGED <<inside, r>>

(* A task that waits is sent a signal. *)
Signalled(t) == Interrupt(t) /\ UNCHANGED <<lockVars, pc>>

WpStep(t) ==
  \/ Call(t) \/ GetMutex(t) \/ Return(t) \/ WaitInLoop(t)
  \/ ShLock(t) \/ ShUnlock(t)
  \/ ExLockTurn(t) \/ ExLock(t) \/ ExLockNested(t) \/ ExUnlock(t)

WpNext ==
  \/ \E t \in Process : WpStep(t)
  \/ \E t \in Interruptible : Signalled(t)

WpSpec == WpInit /\ [][WpNext]_wpVars

-----------------------------------------------------------------------------
(* The ASSERTs of rwlock_wp_exlock_int and rwlock_wp_exunlock_int hold     *)
(* when they are evaluated.                                                *)
NoAssertFails ==
  \A t \in inside :
    /\ pc[t] = "drain" /\ r = 0 => exOwner = NULL /\ (Rec => rc = 0)
    /\ pc[t] \in {"exunlock", "nest"} => exOwner = t /\ w /\ (Rec => rc >= 1)

Reading == {t \in Process : pc[t] \in {"rd", "shunlock"}}
Writing == {t \in Process : pc[t] \in {"wr", "exunlock", "nest"}}

(* Readers and writers exclude each other as a reader-writer lock must.    *)
SL == INSTANCE SharedLock WITH reading <- Reading, writing <- Writing

ReadersXorWriter == SL!Spec

(* The last reader's signal goes to the writer that waits for the readers, *)
(* as the comment in rwlock_wp_shunlock says: while there are no readers,  *)
(* the writer that set `w` does not sleep.                                 *)
NextWriterIsWoken ==
  \A t \in Process : pc[t] = "drain" /\ InList(waitQ, t) => r > 0

(* That is so for the writers that are not sent signals, whatever signals  *)
(* the tasks in the queue behind them get.                                 *)
QuietWriterIsWoken ==
  \A t \in Process \ Interruptible : pc[t] = "drain" /\ InList(waitQ, t) => r > 0

(* Nobody sleeps while there is no writer to wait for. *)
NobodySleepsWithoutWriter == ~w => waitQ = <<>>

-----------------------------------------------------------------------------
(* The inductive invariant of exclusion: one task at most has claimed or   *)
(* holds exclusive access, and then `w` is set.                            *)
Claims(t) == pc[t] = "drain" \/ t \in Writing

QueueInv ==
  /\ \A s, t \in inside : s = t
  /\ \A t \in Process : InList(waitQ, t) =>
       t \notin inside /\ pc[t] \in {"shlock", "exlock", "drain"}
  /\ Distinct(waitQ)
  /\ ~w => waitQ = <<>>

ClaimInv ==
  /\ \A s, t \in Process : Claims(s) /\ Claims(t) => s = t
  /\ w <=> \E t \in Process : Claims(t)
  /\ \A t \in Process : t \in Writing <=> exOwner = t
  /\ Writing # {} => r = 0
  /\ rc = 0 <=> exOwner = NULL \/ ~Rec
  /\ \A t \in Process : pc[t] = "nest" => Rec

WpInv == WpTypeOK /\ QueueInv /\ ClaimInv /\ r = Cardinality(Reading)

(* And the one of the wake-up: the writer that waits for the readers is    *)
(* the first in the queue, unless a signal made it queue again.            *)
NextWriterInv ==
  \A t \in Process \ Interruptible : pc[t] = "drain" =>
    IF InList(waitQ, t) THEN waitQ[1] = t /\ r > 0
    ELSE r > 0 => inside = {t} /\ waitQ = <<>>

-----------------------------------------------------------------------------
(* What a task that holds the lock or the mutex does: it goes on. *)
WpFairness ==
  \A t \in Process :
    /\ SF_wpVars(GetMutex(t))
    /\ WF_wpVars(WaitInLoop(t) \/ ShLock(t) \/ ShUnlock(t) \/ ExLockTurn(t)
                 \/ ExLock(t) \/ ExLockNested(t) \/ ExUnlock(t) \/ Return(t))
    /\ WF_wpVars(pc[t] \in {"rd", "wr"} /\ Call(t) /\ pc'[t] # "nest")

WpFairSpec == WpSpec /\ WpFairness

(* Writers are preferred: the next writer, if it is not sent signals, gets *)
(* the lock, however many readers keep coming and are interrupted.         *)
NextWriterGetsIn == \A t \in Process \ Interruptible : pc[t] = "drain" ~> pc[t] = "wr"

=============================================================================
