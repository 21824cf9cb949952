---------------------------- MODULE RwLockProofs ----------------------------
(***************************************************************************)
(* Proofs about the two reader-writer locks, for any finite set of tasks:  *)
(* first RwLockWp, then RwLockRp.                                          *)
(***************************************************************************)
EXTENDS RwLockWp, RwLockRp, WaitListsProofs, FiniteSetTheorems

(* The count of the readers is zero exactly when there are none. *)
LEMMA ReadersFinite ==
  /\ IsFiniteSet(Reading)
  /\ Cardinality(Reading) \in Nat
  /\ Cardinality(Reading) = 0 <=> Reading = {}
<1>1. Reading \subseteq Process
  BY Zenon DEF Reading
<1>. QED
  BY Zenon, <1>1, WpAssumption, FS_Subset, FS_CardinalityType, FS_EmptySet

(* rwlock_wp_init. *)
LEMMA WpInitInv == WpInit => WpInv
<1> SUFFICES ASSUME WpInit PROVE WpInv
  BY Zenon
<1> USE WpAssumption DEF WpInit, MonitorInit
<1>1. WpTypeOK
  <2>1. w \in BOOLEAN
    BY ZenonT(60)
  <2>2. inside \subseteq Process /\ waitQ \in Seq(Process) /\ r \in Nat /\ rc \in Nat
    BY SMTT(60)
  <2>3. pc \in [Process -> Location]
    BY Zenon DEF Location, InCall
  <2>. QED
    BY Zenon, <2>1, <2>2, <2>3 DEF WpTypeOK
<1>2. QueueInv
  BY SMTT(60) DEF QueueInv, InList, Distinct
<1>3. Reading = {} /\ Writing = {}
  BY Zenon DEF Reading, Writing
<1>4. ClaimInv
  BY Zenon, <1>3 DEF ClaimInv, Claims
<1>5. Cardinality(Reading) = 0
  BY Zenon, <1>3, FS_EmptySet
<1>. QED
  BY Zenon, <1>1, <1>2, <1>4, <1>5 DEF WpInv

(* Steps that leave the fields of the lock alone: calling, getting and     *)
(* releasing the mutex, waiting and being woken up by a signal.            *)
LEMMA WaitingInv ==
  ASSUME WpInv, NEW t \in Process,
         Call(t) \/ GetMutex(t) \/ Return(t) \/ WaitInLoop(t) \/ Signalled(t)
  PROVE  WpInv'
<1> USE WpAssumption
<1>0. /\ WpTypeOK /\ QueueInv /\ ClaimInv /\ r = Cardinality(Reading)
      /\ r' = r /\ w' = w /\ exOwner' = exOwner /\ rc' = rc
  BY Zenon DEF WpInv, Call, GetMutex, Return, WaitInLoop, Signalled, lockVars
<1>1. /\ pc' \in [Process -> Location]
      /\ \A u \in Process \ {t} : pc'[u] = pc[u]
      /\ \/ pc'[t] = pc[t]
         \/ pc[t] = "out" /\ pc'[t] \in {"shlock", "exlock"} /\ t \notin inside
         \/ pc[t] = "rd" /\ pc'[t] = "shunlock" /\ t \notin inside
         \/ pc[t] = "wr" /\ pc'[t] \in {"exunlock", "nest"} /\ t \notin inside
      /\ pc'[t] = "nest" => pc[t] = "nest" \/ Rec
  <2>1. CASE Call(t)
    BY Zenon, <1>0, <2>1 DEF Call, Goto, WpTypeOK, Location, InCall
  <2>2. CASE ~Call(t)
    BY Zenon, <1>0, <2>2 DEF GetMutex, Return, WaitInLoop, Signalled, WpTypeOK
  <2>. QED
    BY Zenon, <2>1, <2>2
<1>2. Reading' = Reading /\ Writing' = Writing /\ \A u \in Process : Claims(u)' <=> Claims(u)
  BY Zenon, <1>1 DEF Reading, Writing, Claims
<1>3. ClaimInv'
  BY Zenon, <1>0, <1>1, <1>2 DEF ClaimInv
<1>4. WpTypeOK' /\ QueueInv'
  <2>1. CASE Call(t)
    <3>1. UNCHANGED <<inside, waitQ>>
      BY Zenon, <2>1 DEF Call
    <3>2. ~InList(waitQ, t)
      BY Zenon, <1>0, <2>1 DEF Call, QueueInv
    <3>. QED
      BY Zenon, <1>0, <1>1, <3>1, <3>2 DEF QueueInv, WpTypeOK
  <2>2. CASE GetMutex(t)
    BY Zenon, <1>0, <1>1, <2>2 DEF GetMutex, Enter, QueueInv, WpTypeOK
  <2>3. CASE Return(t)
    BY Zenon, <1>0, <1>1, <2>3 DEF Return, Leave, QueueInv, WpTypeOK
  <2>4. CASE WaitInLoop(t)
    <3>1. /\ inside = {t} /\ inside' = {} /\ waitQ' = Append(waitQ, t) /\ pc' = pc
          /\ pc[t] \in {"shlock", "exlock", "drain"}
      BY Zenon, <2>4 DEF WaitInLoop, Wait
    <3>2. w
      BY Zenon, <1>0, <2>4 DEF WaitInLoop, ClaimInv, Claims
    <3>3. /\ waitQ' \in Seq(Process) /\ Distinct(waitQ')
          /\ \A u : InList(waitQ', u) <=> u = t \/ InList(waitQ, u)
      BY Zenon, <1>0, <3>1, AppendLemma DEF QueueInv, WpTypeOK
    <3>. QED
      BY Zenon, <1>0, <1>1, <3>1, <3>2, <3>3 DEF QueueInv, WpTypeOK
  <2>5. CASE Signalled(t)
    <3>1. inside' = inside /\ pc' = pc /\ waitQ' = Unlink(waitQ, t) /\ InList(waitQ, t)
      BY Zenon, <2>5 DEF Signalled, Interrupt
    <3>2. /\ waitQ' \in Seq(Process) /\ Distinct(waitQ')
          /\ \A u : InList(waitQ', u) <=> u # t /\ InList(waitQ, u)
      BY Zenon, <1>0, <3>1, UnlinkLemma DEF QueueInv, WpTypeOK
    <3>3. w
      BY SMTT(60), <1>0, <3>1 DEF QueueInv, InList
    <3>. QED
      BY Zenon, <1>0, <1>1, <3>1, <3>2, <3>3 DEF QueueInv, WpTypeOK
  <2>. QED
    BY Zenon, <2>1, <2>2, <2>3, <2>4, <2>5
<1>. QED
  BY Zenon, <1>0, <1>2, <1>3, <1>4 DEF WpInv

(* shlock and shunlock: the readers are counted, and there is no writer    *)
(* when one more comes.                                                    *)
LEMMA ReaderInv ==
  ASSUME WpInv, NEW t \in Process, ShLock(t) \/ ShUnlock(t)
  PROVE  WpInv'
<1> USE WpAssumption
<1>0. /\ WpTypeOK /\ QueueInv /\ ClaimInv /\ r = Cardinality(Reading)
      /\ inside = {t} /\ inside' = inside /\ w' = w /\ exOwner' = exOwner /\ rc' = rc
  BY Zenon DEF WpInv, ShLock, ShUnlock
<1>1. /\ pc' \in [Process -> Location]
      /\ \A u \in Process \ {t} : pc'[u] = pc[u]
      /\ \/ ShLock(t) /\ pc[t] = "shlock" /\ pc'[t] = "rd" /\ ~w /\ r' = r + 1 /\ waitQ' = waitQ
         \/ /\ ShUnlock(t) /\ pc[t] = "shunlock" /\ pc'[t] = "out" /\ r' = r - 1
            /\ waitQ' = waitQ \/ SignalOne
  BY Zenon, <1>0 DEF ShLock, ShUnlock, Goto, WpTypeOK, Location, InCall
<1>2. Writing' = Writing /\ \A u \in Process : Claims(u)' <=> Claims(u)
  BY Zenon, <1>1 DEF Writing, Claims
<1>3. r' = Cardinality(Reading') /\ r' \in Nat
  <2>1. CASE pc'[t] = "rd"
    <3>1. Reading' = Reading \cup {t} /\ t \notin Reading /\ r' = r + 1
      BY Zenon, <1>1, <2>1 DEF Reading
    <3>2. Cardinality(Reading') = Cardinality(Reading) + 1
      BY ZenonT(60), <3>1, ReadersFinite, FS_AddElement
    <3>. QED
      BY SMTT(60), <1>0, <3>1, <3>2, ReadersFinite
  <2>2. CASE pc'[t] = "out"
    <3>1. Reading' = Reading \ {t} /\ t \in Reading /\ r' = r - 1
      BY Zenon, <1>1, <2>2 DEF Reading
    <3>2. Cardinality(Reading') = Cardinality(Reading) - 1 /\ Cardinality(Reading) # 0
      BY ZenonT(60), <3>1, ReadersFinite, FS_RemoveElement
    <3>. QED
      BY <1>0, <3>1, <3>2, ReadersFinite
  <2>. QED
    BY Zenon, <1>1, <2>1, <2>2
<1>4. ClaimInv'
  <2>1. Writing # {} => r' = 0
    <3>1. CASE ShLock(t)
      BY Zenon, <1>0, <3>1 DEF ShLock, ClaimInv, Claims, Writing
    <3>2. CASE ShUnlock(t)
      <4>1. Reading # {}
        BY Zenon, <3>2 DEF ShUnlock, Reading
      <4>. QED
        BY Zenon, <1>0, <4>1, ReadersFinite DEF ClaimInv
    <3>. QED
      BY Zenon, <3>1, <3>2
  <2>. QED
    BY Zenon, <1>0, <1>1, <1>2, <2>1 DEF ClaimInv
<1>5. waitQ' \in Seq(Process) /\ Distinct(waitQ') /\ (\A u : InList(waitQ', u) => InList(waitQ, u))
      /\ (waitQ = <<>> => waitQ' = <<>>)
  <2>1. CASE waitQ' = waitQ
    BY Zenon, <1>0, <2>1 DEF QueueInv, WpTypeOK
  <2>2. CASE SignalOne /\ waitQ # <<>>
    BY Zenon, <1>0, <2>2, TailLemma DEF SignalOne, QueueInv, WpTypeOK
  <2>3. CASE SignalOne /\ waitQ = <<>>
    BY Zenon, <1>0, <2>3 DEF SignalOne, QueueInv, WpTypeOK
  <2>. QED
    BY Zenon, <1>1, <2>1, <2>2, <2>3
<1>6. WpTypeOK' /\ QueueInv'
  BY Zenon, <1>0, <1>1, <1>3, <1>5 DEF QueueInv, WpTypeOK
<1>. QED
  BY Zenon, <1>3, <1>4, <1>6 DEF WpInv

(* exlock and exunlock: a writer claims the lock only when nobody has it   *)
(* claimed, and takes it when the readers are gone.                        *)
LEMMA WriterInv ==
  ASSUME WpInv, NEW t \in Process,
         ExLockTurn(t) \/ ExLock(t) \/ ExLockNested(t) \/ ExUnlock(t)
  PROVE  WpInv'
<1> USE WpAssumption
<1>0. /\ WpTypeOK /\ QueueInv /\ ClaimInv /\ r = Cardinality(Reading)
      /\ inside = {t} /\ inside' = inside /\ r' = r
      /\ \A u \in Process : InList(waitQ, u) => u # t
  BY Zenon DEF WpInv, ExLockTurn, ExLock, ExLockNested, ExUnlock, QueueInv
<1>1. /\ pc' \in [Process -> Location]
      /\ \A u \in Process \ {t} : pc'[u] = pc[u]
      /\ pc[t] \notin {"rd", "shunlock"} /\ pc'[t] \notin {"rd", "shunlock"}
  BY Zenon, <1>0 DEF ExLockTurn, ExLock, ExLockNested, ExUnlock, Goto, WpTypeOK, Location, InCall
<1>2. Reading' = Reading
  BY Zenon, <1>1 DEF Reading
<1>. QED
  <2>1. CASE ExLockTurn(t)
    <3>1. /\ pc[t] = "exlock" /\ pc'[t] = "drain" /\ ~w /\ w'
          /\ waitQ' = waitQ /\ exOwner' = exOwner /\ rc' = rc
      BY Zenon, <1>0, <2>1 DEF ExLockTurn, Goto, WpTypeOK
    <3>2. WpTypeOK'
      BY Zenon, <1>0, <1>1, <2>1, <3>1 DEF WpTypeOK, ExLockTurn
    <3>3. QueueInv'
      BY Zenon, <1>0, <1>1, <3>1 DEF QueueInv
    <3>4. Writing' = Writing /\ \A u \in Process : Claims(u)' <=> u = t
      BY Zenon, <1>0, <1>1, <3>1 DEF ClaimInv, Claims, Writing
    <3>5. ClaimInv'
      BY Zenon, <1>0, <1>1, <3>1, <3>4 DEF ClaimInv
    <3>. QED
      BY Zenon, <1>0, <1>2, <3>2, <3>3, <3>5 DEF WpInv
  <2>2. CASE ExLock(t)
    <3>1. /\ pc[t] = "drain" /\ pc'[t] = "wr" /\ r = 0 /\ exOwner' = t
          /\ waitQ' = waitQ /\ w' = w /\ rc' = IF Rec THEN rc + 1 ELSE rc
      BY Zenon, <1>0, <2>2 DEF ExLock, Goto, WpTypeOK
    <3>2. t \notin Writing /\ Claims(t)
      BY Zenon, <3>1 DEF Claims, Writing
    <3>3. Writing = {} /\ exOwner = NULL /\ rc = 0
      <4>1. \A u \in Process : u \notin Writing
        BY Zenon, <1>0, <3>2 DEF ClaimInv, Claims
      <4>2. Writing = {} /\ exOwner = NULL
        BY Zenon, <1>0, <4>1 DEF Writing, ClaimInv, WpTypeOK
      <4>. QED
        BY Zenon, <1>0, <4>2 DEF ClaimInv
    <3>4. WpTypeOK' /\ QueueInv'
      BY SMTT(60), <1>0, <1>1, <3>1, <3>3 DEF QueueInv, WpTypeOK
    <3>5. /\ \A u \in Process : u \in Writing' <=> u = t
          /\ \A u \in Process : Claims(u)' <=> Claims(u)
      BY Zenon, <1>1, <3>1, <3>3 DEF Claims, Writing
    <3>6. ClaimInv'
      BY <1>0, <1>1, <3>1, <3>3, <3>5 DEF ClaimInv, WpTypeOK
    <3>. QED
      BY Zenon, <1>0, <1>2, <3>4, <3>6 DEF WpInv
  <2>3. CASE ExLockNested(t)
    <3>1. /\ pc[t] = "nest" /\ pc'[t] = "wr"
          /\ waitQ' = waitQ /\ w' = w /\ rc' = rc + 1 /\ exOwner' = exOwner
      BY Zenon, <1>0, <2>3 DEF ExLockNested, Goto, WpTypeOK
    <3>2. Rec /\ rc + 1 # 0 /\ exOwner # NULL
      BY SMTT(60), <1>0, <3>1 DEF ClaimInv, WpTypeOK, Writing
    <3>3. WpTypeOK' /\ QueueInv'
      BY SMTT(60), <1>0, <1>1, <3>1 DEF QueueInv, WpTypeOK
    <3>4. Writing' = Writing /\ \A u \in Process : Claims(u)' <=> Claims(u)
      BY Zenon, <1>1, <3>1 DEF Claims, Writing
    <3>5. ClaimInv'
      BY SMTT(60), <1>0, <1>1, <3>1, <3>2, <3>4 DEF ClaimInv
    <3>. QED
      BY Zenon, <1>0, <1>2, <3>3, <3>5 DEF WpInv
  <2>4. CASE ExUnlock(t) /\ Rec /\ rc > 1
    <3>1. /\ pc[t] = "exunlock" /\ pc'[t] = "wr"
          /\ waitQ' = waitQ /\ w' = w /\ rc' = rc - 1 /\ exOwner' = exOwner
      BY Zenon, <1>0, <2>4 DEF ExUnlock, Goto, WpTypeOK
    <3>2. exOwner # NULL /\ rc - 1 \in Nat /\ rc - 1 # 0
      BY SMTT(60), <1>0, <2>4, <3>1 DEF ClaimInv, WpTypeOK, Writing
    <3>3. WpTypeOK' /\ QueueInv'
      BY Zenon, <1>0, <1>1, <3>1, <3>2 DEF QueueInv, WpTypeOK
    <3>4. Writing' = Writing /\ \A u \in Process : Claims(u)' <=> Claims(u)
      BY SMTT(60), <1>1, <3>1 DEF Claims, Writing
    <3>5. ClaimInv'
      BY SMTT(60), <1>0, <1>1, <2>4, <3>1, <3>2, <3>4 DEF ClaimInv
    <3>. QED
      BY Zenon, <1>0, <1>2, <3>3, <3>5 DEF WpInv
  <2>5. CASE ExUnlock(t) /\ ~(Rec /\ rc > 1)
    <3>1. /\ pc[t] = "exunlock" /\ pc'[t] = "out"
          /\ waitQ' = <<>> /\ w' = FALSE /\ rc' = (IF Rec THEN rc - 1 ELSE rc) /\ exOwner' = NULL
      BY Zenon, <1>0, <2>5 DEF ExUnlock, Goto, WpTypeOK, SignalAll
    <3>2. rc' = 0
      BY <1>0, <2>5, <3>1 DEF ClaimInv, WpTypeOK, Writing
    <3>3. w' \in BOOLEAN
      BY <3>1, ZenonT(60)
    <3>4. WpTypeOK' /\ QueueInv'
      BY SMTT(60), <1>0, <1>1, <3>1, <3>2, <3>3 DEF QueueInv, WpTypeOK, InList, Distinct
    <3>5. Writing' = {} /\ \A u \in Process : ~Claims(u)'
      BY SMTT(60), <1>0, <1>1, <3>1 DEF ClaimInv, Claims, Writing
    <3>6. ClaimInv'
      BY Zenon, <1>0, <1>1, <3>1, <3>2, <3>5 DEF ClaimInv
    <3>. QED
      BY Zenon, <1>0, <1>2, <3>4, <3>6 DEF WpInv
  <2>. QED
    BY Zenon, <2>1, <2>2, <2>3, <2>4, <2>5

-----------------------------------------------------------------------------
(* Every step of the lock's users keeps the invariant. *)
LEMMA WpNextInv == WpInv /\ [WpNext]_wpVars => WpInv'
<1> SUFFICES ASSUME WpInv, [WpNext]_wpVars PROVE WpInv'
  BY Zenon
<1>1. CASE UNCHANGED wpVars
  BY SMTT(60), <1>1 DEF wpVars, WpInv, WpTypeOK, QueueInv, ClaimInv, Claims, Reading, Writing
<1>2. ASSUME NEW t \in Process, WpStep(t) PROVE WpInv'
  BY Zenon, <1>2, WaitingInv, ReaderInv, WriterInv DEF WpStep
<1>3. ASSUME NEW t \in Interruptible, Signalled(t) PROVE WpInv'
  <2>1. t \in Process
    BY <1>3 DEF WpInv, WpTypeOK, Signalled, Interrupt, InList
  <2>. QED
    BY SMTT(60), <1>3, <2>1, WaitingInv
<1>. QED
  BY Zenon, <1>1, <1>2, <1>3 DEF WpNext

(* The exclusion invariant of rwlock_wp holds for any number of tasks,     *)
(* whether signals come or not.                                            *)
THEOREM WpInvariance == WpSpec => []WpInv
BY WpInitInv, WpNextInv, PTL DEF WpSpec

(* Type correctness: in particular the readers count does not go below 0.  *)
THEOREM WpTypeCorrect == WpSpec => []WpTypeOK
<1>1. WpInv => WpTypeOK
  BY Zenon DEF WpInv
<1>. QED
  BY <1>1, WpInvariance, PTL

(* The ASSERTs of exlock and exunlock hold. *)
THEOREM WpAssertsHold == WpSpec => []NoAssertFails
<1>1. WpInv => NoAssertFails
  <2> SUFFICES ASSUME WpInv, NEW t \in inside
               PROVE  /\ pc[t] = "drain" /\ r = 0 => exOwner = NULL /\ (Rec => rc = 0)
                      /\ pc[t] \in {"exunlock", "nest"} => exOwner = t /\ w /\ (Rec => rc >= 1)
    BY Zenon DEF NoAssertFails
  <2>1. t \in Process /\ ClaimInv /\ WpTypeOK
    BY Zenon DEF WpInv, WpTypeOK
  <2>2. ASSUME pc[t] = "drain" PROVE exOwner = NULL /\ (Rec => rc = 0)
    <3>1. t \notin Writing /\ Claims(t)
      BY Zenon, <2>2 DEF Writing, Claims
    <3>2. \A u \in Process : u \notin Writing
      BY Zenon, <2>1, <3>1 DEF ClaimInv, Claims
    <3>3. exOwner = NULL
      BY Zenon, <2>1, <3>2 DEF ClaimInv, WpTypeOK
    <3>. QED
      BY Zenon, <2>1, <3>3 DEF ClaimInv
  <2>3. ASSUME pc[t] \in {"exunlock", "nest"} PROVE exOwner = t /\ w /\ (Rec => rc >= 1)
    <3>1. t \in Writing /\ Claims(t)
      BY Zenon, <2>1, <2>3 DEF Writing, Claims
    <3>2. exOwner = t /\ w
      BY SMTT(60), <2>1, <3>1 DEF ClaimInv
    <3>. QED
      BY SMTT(60), <2>1, <3>2, WpAssumption DEF ClaimInv, WpTypeOK
  <2>. QED
    BY <2>2, <2>3
<1>. QED
  BY <1>1, WpInvariance, PTL

(* exunlock wakes up all the waiting tasks: nobody sleeps while there is   *)
(* no writer.                                                              *)
THEOREM WpNobodySleeps == WpSpec => []NobodySleepsWithoutWriter
<1>1. WpInv => NobodySleepsWithoutWriter
  BY Zenon DEF WpInv, QueueInv, NobodySleepsWithoutWriter
<1>. QED
  BY <1>1, WpInvariance, PTL

(* rwlock_wp is a reader-writer lock: what its users see is a behaviour of *)
(* SharedLock.                                                             *)
THEOREM WpRefinement == WpSpec => ReadersXorWriter
<1>1. WpInit => SL!Init
  BY Zenon DEF WpInit, SL!Init, Reading, Writing
<1>2. WpInv /\ [WpNext]_wpVars => [SL!Next]_<<Reading, Writing>>
  <2> SUFFICES ASSUME WpInv, [WpNext]_wpVars
               PROVE  \/ SL!Next
                      \/ Reading' = Reading /\ Writing' = Writing
    BY Zenon
  <2>0. WpTypeOK /\ ClaimInv /\ r = Cardinality(Reading)
    BY Zenon DEF WpInv
  <2>1. CASE UNCHANGED wpVars
    BY Zenon, <2>1 DEF wpVars, Reading, Writing
  <2>2. CASE \E t \in Interruptible : Signalled(t)
    BY Zenon, <2>2 DEF Signalled, Reading, Writing
  <2>3. ASSUME NEW t \in Process, ShLock(t) PROVE SL!StartReading(t)
    <3>1. Writing = {}
      BY Zenon, <2>0, <2>3 DEF ShLock, ClaimInv, Claims, Writing
    <3>. QED
      BY SMTT(60), <2>0, <2>3, <3>1 DEF ShLock, SL!StartReading, Goto, Reading, Writing, WpTypeOK
  <2>4. ASSUME NEW t \in Process, ShUnlock(t) PROVE SL!StopReading(t)
    BY Zenon, <2>0, <2>4 DEF ShUnlock, SL!StopReading, Goto, Reading, Writing, WpTypeOK
  <2>5. ASSUME NEW t \in Process, ExLock(t) PROVE SL!StartWriting(t)
    <3>1. Reading = {}
      BY SMTT(60), <2>0, <2>5, ReadersFinite DEF ExLock
    <3>2. Writing = {}
      BY Zenon, <2>0, <2>5 DEF ExLock, ClaimInv, Claims, Writing
    <3>. QED
      BY SMTT(60), <2>0, <2>5, <3>1, <3>2 DEF ExLock, SL!StartWriting, Goto, Reading, Writing, WpTypeOK
  <2>6. ASSUME NEW t \in Process, ExUnlock(t)
        PROVE  SL!StopWriting(t) \/ (Reading' = Reading /\ Writing' = Writing)
    BY Zenon, <2>0, <2>6 DEF ExUnlock, SL!StopWriting, Goto, Reading, Writing, WpTypeOK
  <2>7. ASSUME NEW t \in Process, Call(t) \/ ExLockTurn(t) \/ ExLockNested(t)
        PROVE  Reading' = Reading /\ Writing' = Writing
    BY SMTT(60), <2>0, <2>7 DEF Call, ExLockTurn, ExLockNested, Goto, Reading, Writing, WpTypeOK
  <2>8. ASSUME NEW t \in Process, GetMutex(t) \/ Return(t) \/ WaitInLoop(t)
        PROVE  Reading' = Reading /\ Writing' = Writing
    BY Zenon, <2>8 DEF GetMutex, Return, WaitInLoop, Reading, Writing
  <2>. QED
    BY <2>1, <2>2, <2>3, <2>4, <2>5, <2>6, <2>7, <2>8 DEF WpNext, WpStep, SL!Next
<1>. QED
  BY <1>1, <1>2, WpInvariance, PTL DEF WpSpec, ReadersXorWriter, SL!Spec

-----------------------------------------------------------------------------
(* The writer that waits for the readers stays the first in the queue, and *)
(* the last reader takes it off, as long as no signal interrupts it.       *)
LEMMA NextWriterStep ==
  ASSUME WpInv, NextWriterInv, [WpNext]_wpVars
  PROVE  NextWriterInv'
<1> SUFFICES ASSUME NEW d \in Process \ Interruptible, pc'[d] = "drain"
             PROVE  IF InList(waitQ', d) THEN waitQ'[1] = d /\ r' > 0
                    ELSE r' > 0 => inside' = {d} /\ waitQ' = <<>>
  BY Zenon DEF NextWriterInv
<1>0. /\ WpTypeOK /\ QueueInv /\ ClaimInv /\ r = Cardinality(Reading)
      /\ pc[d] = "drain" => IF InList(waitQ, d) THEN waitQ[1] = d /\ r > 0
                            ELSE r > 0 => inside = {d} /\ waitQ = <<>>
  BY Zenon DEF WpInv, NextWriterInv
<1>1. CASE UNCHANGED wpVars
  BY Zenon, <1>0, <1>1 DEF wpVars
<1>2. ASSUME NEW t \in Process, Call(t)
      PROVE  pc[d] = "drain" /\ UNCHANGED <<inside, waitQ, r>>
  BY SMTT(60), <1>0, <1>2 DEF Call, Goto, WpTypeOK, lockVars
<1>3. ASSUME NEW t \in Process, GetMutex(t) \/ Return(t)
      PROVE  /\ pc[d] = "drain" /\ UNCHANGED <<waitQ, r>>
             /\ inside # {d}
  BY <1>0, <1>3 DEF GetMutex, Return, Enter, Leave, lockVars, InCall
<1>4. ASSUME NEW t \in Process, WaitInLoop(t)
      PROVE  IF InList(waitQ', d) THEN waitQ'[1] = d /\ r' > 0
             ELSE r' > 0 => inside' = {d} /\ waitQ' = <<>>
  <2>1. /\ pc[d] = "drain" /\ inside = {t} /\ waitQ' = Append(waitQ, t) /\ r' = r
        /\ r \in Nat /\ waitQ \in Seq(Process) /\ Distinct(waitQ) /\ ~InList(waitQ, t)
    BY <1>0, <1>4 DEF WaitInLoop, Wait, lockVars, WpTypeOK, QueueInv
  <2>2. CASE t = d
    <3>1. r > 0
      BY SMTT(60), <1>4, <2>1, <2>2 DEF WaitInLoop
    <3>2. waitQ = <<>>
      BY SMTT(60), <1>0, <2>1, <2>2, <3>1
    <3>3. waitQ' = <<d>>
      BY <2>1, <2>2, <3>2
    <3>4. InList(waitQ', d) /\ waitQ'[1] = d
      BY SMTT(60), <3>3 DEF InList
    <3>. QED
      BY <2>1, <3>1, <3>4
  <2>3. CASE t # d /\ InList(waitQ, d)
    <3>1. waitQ # <<>> /\ waitQ[1] = d /\ r > 0
      BY SMTT(60), <1>0, <2>1, <2>3 DEF InList
    <3>2. Append(waitQ, t)[1] = waitQ[1]
      BY <2>1, <3>1
    <3>3. InList(waitQ', d)
      BY SMTT(60), <2>1, <2>3, AppendLemma
    <3>. QED
      BY SMTT(60), <2>1, <3>1, <3>2, <3>3
  <2>4. CASE t # d /\ ~InList(waitQ, d)
    <3>1. ~InList(waitQ', d)
      BY SMTT(60), <2>1, <2>4, AppendLemma
    <3>2. ~(r > 0)
      BY SMTT(60), <1>0, <2>1, <2>4
    <3>. QED
      BY SMTT(60), <2>1, <3>1, <3>2
  <2>. QED
    BY SMTT(60), <2>2, <2>3, <2>4
<1>5. ASSUME NEW t \in Process, ShLock(t) PROVE FALSE
  <2>1. pc[d] = "drain" /\ ~w
    BY <1>0, <1>5 DEF ShLock, Goto, WpTypeOK
  <2>. QED
    BY SMTT(60), <1>0, <2>1 DEF ClaimInv, Claims
<1>6. ASSUME NEW t \in Process, ShUnlock(t)
      PROVE  IF InList(waitQ', d) THEN waitQ'[1] = d /\ r' > 0
             ELSE r' > 0 => inside' = {d} /\ waitQ' = <<>>
  <2>1. /\ pc[d] = "drain" /\ t # d /\ inside = {t} /\ r' = r - 1 /\ t \in Reading
        /\ IF r = 1 THEN SignalOne ELSE waitQ' = waitQ
    BY SMTT(60), <1>0, <1>6 DEF ShUnlock, Goto, WpTypeOK, Reading
  <2>2. r \in Nat /\ r > 0
    BY SMTT(60), <1>0, <2>1, ReadersFinite DEF WpTypeOK
  <2>3. InList(waitQ, d) /\ waitQ[1] = d
    BY Zenon, <1>0, <2>1, <2>2
  <2>4. CASE r = 1
    <3>1. /\ waitQ # <<>> /\ Head(waitQ) = d /\ waitQ' = Tail(waitQ)
          /\ waitQ \in Seq(Process) /\ Distinct(waitQ)
      BY <1>0, <2>1, <2>3, <2>4 DEF SignalOne, InList, WpTypeOK, QueueInv
    <3>2. ~InList(waitQ', d)
      BY Zenon, <3>1, TailLemma
    <3>. QED
      BY SMTT(60), <2>1, <2>4, <3>2
  <2>5. CASE r # 1
    BY <2>1, <2>2, <2>3, <2>5
  <2>. QED
    BY SMTT(60), <2>4, <2>5
<1>7. ASSUME NEW t \in Process, ExLockTurn(t)
      PROVE  ~InList(waitQ', d) /\ inside' = {d} /\ waitQ' = <<>>
  <2>1. waitQ = <<>> /\ ~w /\ UNCHANGED <<inside, waitQ>> /\ inside = {t}
    BY Zenon, <1>0, <1>7 DEF ExLockTurn, QueueInv
  <2>2. d = t
    <3>1. pc[d] # "drain"
      BY Zenon, <1>0, <2>1 DEF ClaimInv, Claims
    <3>. QED
      BY SMTT(60), <1>0, <1>7, <3>1 DEF ExLockTurn, Goto, WpTypeOK
  <2>. QED
    BY SMTT(60), <2>1, <2>2 DEF InList
<1>8. ASSUME NEW t \in Process, ExLock(t) \/ ExLockNested(t) \/ ExUnlock(t) PROVE FALSE
  <2>1. Claims(t) /\ pc'[t] # "drain"
    BY SMTT(60), <1>0, <1>8 DEF ExLock, ExLockNested, ExUnlock, Goto, WpTypeOK, Claims, Writing
  <2>2. t # d /\ pc[d] = "drain"
    BY SMTT(60), <1>0, <1>8, <2>1 DEF ExLock, ExLockNested, ExUnlock, Goto, WpTypeOK
  <2>. QED
    BY SMTT(60), <1>0, <2>1, <2>2 DEF ClaimInv, Claims
<1>9. ASSUME NEW t \in Process, WpStep(t)
      PROVE  IF InList(waitQ', d) THEN waitQ'[1] = d /\ r' > 0
             ELSE r' > 0 => inside' = {d} /\ waitQ' = <<>>
  <2>1. CASE Call(t)
    BY SMTT(60), <1>0, <1>2, <2>1
  <2>2. CASE GetMutex(t) \/ Return(t)
    BY SMTT(60), <1>0, <1>3, <2>2
  <2>. QED
    BY SMTT(60), <1>4, <1>5, <1>6, <1>7, <1>8, <1>9, <2>1, <2>2 DEF WpStep
<1>10. ASSUME NEW t \in Interruptible, Signalled(t)
       PROVE  IF InList(waitQ', d) THEN waitQ'[1] = d /\ r' > 0
              ELSE r' > 0 => inside' = {d} /\ waitQ' = <<>>
  <2>1. /\ pc[d] = "drain" /\ t # d /\ UNCHANGED <<inside, r>> /\ r \in Nat
        /\ InList(waitQ, t) /\ waitQ' = Unlink(waitQ, t)
        /\ waitQ \in Seq(Process) /\ Distinct(waitQ)
    BY SMTT(60), <1>0, <1>10 DEF Signalled, Interrupt, lockVars, WpTypeOK, QueueInv
  <2>2. InList(waitQ', d) <=> InList(waitQ, d)
    BY SMTT(60), <2>1, UnlinkLemma
  <2>3. waitQ # <<>>
    BY SMTT(60), <2>1 DEF InList
  <2>4. CASE InList(waitQ, d)
    <3>1. waitQ[1] = d /\ r > 0
      BY SMTT(60), <1>0, <2>1, <2>4
    <3>2. waitQ'[1] = d
      BY SMTT(60), <2>1, <2>3, <3>1, UnlinkHeadLemma
    <3>. QED
      BY SMTT(60), <2>1, <2>2, <2>4, <3>1, <3>2
  <2>5. CASE ~InList(waitQ, d)
    <3>1. ~(r > 0)
      BY <1>0, <2>1, <2>3, <2>5
    <3>. QED
      BY SMTT(60), <2>1, <2>2, <2>5, <3>1
  <2>. QED
    BY SMTT(60), <2>4, <2>5
<1>. QED
  BY SMTT(60), <1>1, <1>9, <1>10 DEF WpNext

(* The last reader wakes up the writer that waits for the readers, if that *)
(* task is not sent signals, whatever signals the others are sent (the     *)
(* comment in rwlock_wp_shunlock; the run rwlock_wp_signals shows what     *)
(* signals do to the writer).                                              *)
THEOREM WpNextWriterWoken == WpSpec => []QuietWriterIsWoken
<1>1. WpInit => NextWriterInv
  BY Zenon DEF WpInit, NextWriterInv
<1>2. WpInv /\ NextWriterInv /\ [WpNext]_wpVars => NextWriterInv'
  BY Zenon, NextWriterStep
<1>3. NextWriterInv => QuietWriterIsWoken
  BY Zenon DEF NextWriterInv, QuietWriterIsWoken
<1>. QED
  BY <1>1, <1>2, <1>3, WpInvariance, PTL DEF WpSpec

-----------------------------------------------------------------------------
(* rwlock_rp. *)

(* The lock as rwlock_rp_init leaves it satisfies the invariant. *)
LEMMA RpInitInv == RpInit => RpInv
<1> SUFFICES ASSUME RpInit PROVE RpInv
  OBVIOUS
<1> USE RpAssumption DEF RpInit
<1>1. RpTypeOK
  BY Zenon DEF RpTypeOK, RpLocation
<1>2. Counted = {} /\ Shares = {}
  BY Zenon DEF Counted, Shares
<1>3. readers = Cardinality(Counted)
  BY <1>2, FS_EmptySet
<1>. QED
  BY <1>1, <1>2, <1>3 DEF RpInv, HolderInv, UnitInv, Units

(* What becomes of the readers' number when one comes or goes. *)
LEMMA CountedStep ==
  ASSUME NEW S, IsFiniteSet(S), NEW t
  PROVE  /\ Cardinality(S) \in Nat
         /\ t \notin S => Cardinality(S \cup {t}) = Cardinality(S) + 1
         /\ t \in S => Cardinality(S \ {t}) = Cardinality(S) - 1
         /\ Cardinality(S) = 0 <=> S = {}
BY ZenonT(60), FS_CardinalityType, FS_AddElement, FS_RemoveElement, FS_EmptySet

(* Every step keeps the invariant. *)
LEMMA RpStepInv ==
  ASSUME RpInv, NEW t \in Task, RpStep(t)
  PROVE  RpInv'
<1> USE RpAssumption
<1>0. /\ RpTypeOK /\ HolderInv /\ UnitInv /\ readers = Cardinality(Counted)
      /\ \A u \in Task : owner = u <=> at[u] \in {"wr", "exunlock"}
  BY Zenon DEF RpInv
<1>1. IsFiniteSet(Counted) /\ Counted \subseteq Task
  BY Zenon, FS_Subset DEF Counted
<1>2. CASE RpCall(t) \/ RpGetMutex(t) \/ RpReturn(t)
  <2>1. Counted' = Counted /\ Shares' = Shares /\ \A u \in Task : Units(u)' <=> Units(u)
    BY SMTT(60), <1>0, <1>2 DEF RpCall, RpGetMutex, RpReturn, Moves, Counted, Shares, Units, RpTypeOK
  <2>2. RpTypeOK'
    BY SMTT(60), <1>0, <1>2 DEF RpCall, RpGetMutex, RpReturn, Moves, RpTypeOK, RpLocation, Mutex!Enter, Mutex!Leave
  <2>3. HolderInv'
    BY SMTT(60), <1>0, <1>2, <2>1 DEF RpCall, RpGetMutex, RpReturn, Moves, HolderInv, RpTypeOK, Mutex!Enter, Mutex!Leave
  <2>4. UnitInv'
    BY SMTT(60), <1>0, <1>2, <2>1 DEF RpCall, RpGetMutex, RpReturn, UnitInv
  <2>5. \A u \in Task : owner' = u <=> at'[u] \in {"wr", "exunlock"}
    BY SMTT(60), <1>0, <1>2 DEF RpCall, RpGetMutex, RpReturn, Moves, RpTypeOK, UnitInv, Units
  <2>6. readers' = readers
    BY Zenon, <1>2 DEF RpCall, RpGetMutex, RpReturn
  <2>. QED
    BY SMTT(60), <1>0, <2>1, <2>2, <2>3, <2>4, <2>5, <2>6 DEF RpInv
<1>3. CASE RpOwn(t) \/ RpExUnlock(t)
  <2>1. Counted' = Counted /\ Shares' = Shares /\ \A u \in Task : Units(u)' <=> Units(u)
    BY SMTT(60), <1>0, <1>3 DEF RpOwn, RpExUnlock, Moves, Counted, Shares, Units, RpTypeOK
  <2>2. RpTypeOK'
    BY SMTT(60), <1>0, <1>3 DEF RpOwn, RpExUnlock, Moves, RpTypeOK, RpLocation, Mutex!Enter, Mutex!Leave
  <2>3. HolderInv'
    BY SMTT(60), <1>0, <1>3, <2>1 DEF RpOwn, RpExUnlock, Moves, HolderInv, RpTypeOK, Mutex!Enter, Mutex!Leave
  <2>4. UnitInv'
    BY SMTT(60), <1>0, <1>3, <2>1 DEF RpOwn, RpExUnlock, UnitInv
  <2>5. \A u \in Task : owner' = u <=> at'[u] \in {"wr", "exunlock"}
    BY <1>0, <1>3 DEF RpOwn, RpExUnlock, Moves, RpTypeOK, UnitInv, Units
  <2>6. readers' = readers
    BY Zenon, <1>3 DEF RpOwn, RpExUnlock
  <2>. QED
    BY Zenon, <1>0, <2>1, <2>2, <2>3, <2>4, <2>5, <2>6 DEF RpInv
<1>4. CASE RpExLock(t) \/ RpRelease(t)
  <2>1. Counted' = Counted /\ Shares' = Shares
    BY SMTT(60), <1>0, <1>4 DEF RpExLock, RpRelease, Moves, Counted, Shares, RpTypeOK
  <2>2. RpTypeOK'
    BY SMTT(60), <1>0, <1>4 DEF RpExLock, RpRelease, SemSignal, Moves, RpTypeOK, RpLocation
  <2>3. HolderInv'
    BY <1>0, <1>4, <2>1 DEF RpExLock, RpRelease, Moves, HolderInv, RpTypeOK
  <2>4. UnitInv'
    <3>1. CASE RpExLock(t)
      BY SMTT(60), <1>0, <2>1, <3>1 DEF RpExLock, Moves, UnitInv, Units, RpTypeOK
    <3>2. CASE RpRelease(t)
      BY SMTT(60), <1>0, <2>1, <3>2 DEF RpRelease, SemSignal, Moves, UnitInv, Units, RpTypeOK
    <3>. QED
      BY SMTT(60), <1>4, <3>1, <3>2
  <2>5. \A u \in Task : owner' = u <=> at'[u] \in {"wr", "exunlock"}
    BY <1>0, <1>4 DEF RpExLock, RpRelease, Moves, RpTypeOK
  <2>6. readers' = readers
    BY SMTT(60), <1>4 DEF RpExLock, RpRelease
  <2>. QED
    BY SMTT(60), <1>0, <2>1, <2>2, <2>3, <2>4, <2>5, <2>6 DEF RpInv
<1>5. CASE RpFirst(t)
  <2>1. Counted' = Counted /\ Shares' = Shares \cup {t}
    BY SMTT(60), <1>0, <1>5 DEF RpFirst, Moves, Counted, Shares, RpTypeOK
  <2>2. RpTypeOK'
    BY SMTT(60), <1>0, <1>5 DEF RpFirst, Moves, RpTypeOK, RpLocation
  <2>3. HolderInv'
    BY SMTT(60), <1>0, <1>5, <2>1 DEF RpFirst, Moves, HolderInv, RpTypeOK
  <2>4. UnitInv'
    BY SMTT(60), <1>0, <1>5, <2>1 DEF RpFirst, Moves, UnitInv, Units, RpTypeOK
  <2>5. \A u \in Task : owner' = u <=> at'[u] \in {"wr", "exunlock"}
    BY <1>0, <1>5 DEF RpFirst, Moves, RpTypeOK
  <2>6. readers' = readers
    BY Zenon, <1>5 DEF RpFirst
  <2>. QED
    BY SMTT(60), <1>0, <2>1, <2>2, <2>3, <2>4, <2>5, <2>6 DEF RpInv
<1>6. CASE RpShLock(t)
  <2>1. Counted' = Counted \cup {t} /\ t \notin Counted
    BY Zenon, <1>0, <1>6 DEF RpShLock, Moves, Counted, RpTypeOK
  <2>2. readers' = Cardinality(Counted')
    BY Zenon, <1>0, <1>1, <1>6, <2>1, CountedStep DEF RpShLock
  <2>3. RpTypeOK'
    BY SMTT(60), <1>0, <1>6 DEF RpShLock, Moves, RpTypeOK, RpLocation
  <2>4. \A u \in Task : at[u] # "first"
    BY Zenon, <1>0, <1>6 DEF RpShLock, Moves, HolderInv
  <2>5. readers' = 1 <=> Counted = {}
    <3>1. readers = 0 <=> Counted = {}
      BY Zenon, <1>0, <1>1, FS_EmptySet
    <3>2. readers \in Nat /\ readers' = readers + 1
      BY Zenon, <1>0, <1>6 DEF RpShLock, RpTypeOK
    <3>. QED
      BY <3>1, <3>2
  <2>6. HolderInv'
    BY Zenon, <1>0, <1>6, <2>1, <2>4, <2>5 DEF RpShLock, Moves, HolderInv, RpTypeOK
  <2>7. UnitInv'
    <3>1. CASE Counted = {}
      <4>1. Shares' = Shares /\ \A u \in Task : Units(u)' <=> Units(u)
        BY Zenon, <1>0, <1>6, <2>5, <3>1 DEF RpShLock, Moves, Shares, Units, RpTypeOK
      <4>. QED
        BY Zenon, <1>0, <1>6, <4>1 DEF RpShLock, UnitInv
    <3>2. CASE Counted # {}
      <4>1. Shares # {}
        BY Zenon, <2>4, <3>2 DEF Counted, Shares
      <4>2. Shares' = Shares \cup {t} /\ \A u \in Task : Units(u)' <=> Units(u)
        BY Zenon, <1>0, <1>6, <2>5, <3>2 DEF RpShLock, Moves, Shares, Units, RpTypeOK
      <4>. QED
        BY Zenon, <1>0, <1>6, <4>1, <4>2 DEF RpShLock, UnitInv
    <3>. QED
      BY Zenon, <3>1, <3>2
  <2>8. \A u \in Task : owner' = u <=> at'[u] \in {"wr", "exunlock"}
    BY Zenon, <1>0, <1>6 DEF RpShLock, Moves, RpTypeOK
  <2>. QED
    BY Zenon, <2>2, <2>3, <2>6, <2>7, <2>8 DEF RpInv
<1>7. CASE RpShUnlock(t)
  <2>1. /\ Counted' = Counted \ {t} /\ t \in Counted
        /\ Shares' = Shares \ {t} /\ t \in Shares
        /\ \A u \in Task : Units(u)' <=> Units(u)
    BY Zenon, <1>0, <1>7 DEF RpShUnlock, Moves, Counted, Shares, Units, RpTypeOK
  <2>2. readers' = Cardinality(Counted') /\ readers' \in Nat
    <3>1. IsFiniteSet(Counted \ {t}) /\ Cardinality(Counted \ {t}) = Cardinality(Counted) - 1
      BY Zenon, <1>1, <2>1, FS_RemoveElement
    <3>2. Cardinality(Counted \ {t}) \in Nat
      BY Zenon, <3>1, FS_CardinalityType
    <3>. QED
      BY Zenon, <1>0, <1>7, <2>1, <3>1, <3>2 DEF RpShUnlock
  <2>3. RpTypeOK'
    BY SMTT(60), <1>0, <1>7, <2>2 DEF RpShUnlock, SemSignal, Moves, RpTypeOK, RpLocation
  <2>4. \A u \in Task : at'[u] # "first"
    BY Zenon, <1>0, <1>7 DEF RpShUnlock, Moves, HolderInv, RpTypeOK
  <2>5. readers' = 0 <=> Counted' = {}
    BY ZenonT(60), <1>1, <2>1, <2>2, FS_RemoveElement, FS_EmptySet
  <2>6. HolderInv'
    BY Zenon, <1>0, <1>7, <2>4 DEF RpShUnlock, Moves, HolderInv, RpTypeOK
  <2>7. Counted' = {} <=> Shares' = {}
    BY Zenon, <2>4 DEF Counted, Shares
  <2>8. UnitInv'
    BY SMTT(60), <1>0, <1>7, <2>1, <2>5, <2>7 DEF RpShUnlock, SemSignal, UnitInv, RpTypeOK
  <2>9. \A u \in Task : owner' = u <=> at'[u] \in {"wr", "exunlock"}
    BY Zenon, <1>0, <1>7 DEF RpShUnlock, Moves, RpTypeOK
  <2>. QED
    BY Zenon, <2>2, <2>3, <2>6, <2>8, <2>9 DEF RpInv
<1>. QED
  BY <1>2, <1>3, <1>4, <1>5, <1>6, <1>7 DEF RpStep

(* RpInv is an invariant of rwlock_rp: the semaphore's unit is never       *)
(* doubled or lost, and the ASSERTs about ex_owner hold.                   *)
THEOREM RpInvariance == RpSpec => []RpInv
<1>1. RpInv /\ UNCHANGED rpVars => RpInv'
  BY DEF RpInv, rpVars, RpTypeOK, HolderInv, UnitInv, Units, Counted, Shares
<1>2. RpInv /\ [RpNext]_rpVars => RpInv'
  BY Zenon, <1>1, RpStepInv DEF RpNext
<1>. QED
  BY <1>2, RpInitInv, PTL DEF RpSpec

(* rwlock_rp implements the reader-writer lock of SharedLock. *)
THEOREM RpRefinement == RpSpec => RpReadersXorWriter
<1>1. RpInit => RSL!Init
  BY Zenon DEF RpInit, RSL!Init, Shares, Excludes
<1>2. RpInv /\ [RpNext]_rpVars => [RSL!Next]_<<Shares, Excludes>>
  <2> SUFFICES ASSUME RpInv, [RpNext]_rpVars
               PROVE  RSL!Next \/ (Shares' = Shares /\ Excludes' = Excludes)
    OBVIOUS
  <2>1. CASE UNCHANGED rpVars
    BY Zenon, <2>1 DEF rpVars, Shares, Excludes
  <2>2. ASSUME NEW t \in Task, RpStep(t)
        PROVE  RSL!Next \/ (Shares' = Shares /\ Excludes' = Excludes)
    <3>0. RpTypeOK /\ HolderInv /\ UnitInv
      BY Zenon DEF RpInv
    <3>1. CASE RpCall(t) \/ RpGetMutex(t) \/ RpReturn(t) \/ RpOwn(t) \/ RpRelease(t)
      BY Zenon, <3>0, <3>1 DEF RpCall, RpGetMutex, RpReturn, RpOwn, RpRelease, Moves, Shares, Excludes, RpTypeOK
    <3>2. CASE RpFirst(t) \/ RpShLock(t)
      <4>1. Excludes' = Excludes /\ (Shares' = Shares \/ Shares' = Shares \cup {t})
        BY Zenon, <3>0, <3>2 DEF RpFirst, RpShLock, Moves, Shares, Excludes, RpTypeOK
      <4>2. CASE Shares' = Shares
        BY Zenon, <4>1, <4>2
      <4>3. CASE Shares' # Shares
        <5>1. UnitInv' /\ Shares' # {}
          BY Zenon, <2>2, <4>1, <4>3, RpStepInv DEF RpInv
        <5>2. Excludes' = {}
          BY Zenon, <5>1 DEF UnitInv, Excludes, Units
        <5>3. RSL!StartReading(t)
          BY Zenon, <4>1, <4>3, <5>2 DEF RSL!StartReading
        <5>. QED
          BY Zenon, <5>3 DEF RSL!Next
      <4>. QED
        BY Zenon, <4>2, <4>3
    <3>3. CASE RpShUnlock(t)
      <4>1. RSL!StopReading(t)
        BY Zenon, <3>0, <3>3 DEF RpShUnlock, Moves, Shares, Excludes, RpTypeOK, RSL!StopReading
      <4>. QED
        BY Zenon, <4>1 DEF RSL!Next
    <3>4. CASE RpExLock(t)
      <4>1. Shares = {} /\ \A u \in Task : ~Units(u)
        BY SMTT(60), <3>0, <3>4 DEF RpExLock, UnitInv, RpTypeOK
      <4>2. Shares' = Shares /\ Excludes = {} /\ Excludes' = {t}
        BY Zenon, <3>0, <3>4, <4>1 DEF RpExLock, Moves, Shares, Excludes, Units, RpTypeOK
      <4>3. RSL!StartWriting(t)
        BY Zenon, <4>1, <4>2 DEF RSL!StartWriting
      <4>. QED
        BY Zenon, <4>3 DEF RSL!Next
    <3>5. CASE RpExUnlock(t)
      <4>1. RSL!StopWriting(t)
        BY Zenon, <3>0, <3>5 DEF RpExUnlock, Moves, Shares, Excludes, RpTypeOK, RSL!StopWriting
      <4>. QED
        BY Zenon, <4>1 DEF RSL!Next
    <3>. QED
      BY Zenon, <2>2, <3>1, <3>2, <3>3, <3>4, <3>5 DEF RpStep
  <2>. QED
    BY Zenon, <2>1, <2>2 DEF RpNext
<1>. QED
  BY <1>1, <1>2, RpInvariance, PTL DEF RpSpec, RpReadersXorWriter, RSL!Spec

-----------------------------------------------------------------------------
(* The locks use the mutex, the condition and the semaphore as these are   *)
(* proved to work.                                                         *)

(* Each step of rwlock_wp is a step of the condition variable, or none of  *)
(* its business.                                                           *)
LEMMA WpStepMonitor ==
  ASSUME WpInv, [WpNext]_wpVars
  PROVE  [MonitorNext]_monitorVars
<1> USE DEF monitorVars
<1>1. ASSUME NEW t \in Process, WpStep(t) PROVE [MonitorNext]_monitorVars
  <2>1. CASE GetMutex(t) \/ Return(t) \/ WaitInLoop(t)
    BY Zenon, <2>1 DEF GetMutex, Return, WaitInLoop, MonitorNext
  <2>2. CASE Call(t) \/ ShLock(t) \/ ExLockTurn(t) \/ ExLock(t) \/ ExLockNested(t)
    BY Zenon, <2>2 DEF Call, ShLock, ExLockTurn, ExLock, ExLockNested
  <2>3. CASE ShUnlock(t) \/ ExUnlock(t)
    BY Zenon, <2>3 DEF ShUnlock, ExUnlock, MonitorNext
  <2>. QED
    BY Zenon, <1>1, <2>1, <2>2, <2>3 DEF WpStep
<1>2. ASSUME NEW t \in Interruptible, Signalled(t) PROVE MonitorNext
  <2>1. InList(waitQ, t) /\ Interrupt(t)
    BY Zenon, <1>2 DEF Signalled, Interrupt
  <2>2. t \in Process
    BY SMT, <2>1 DEF WpInv, WpTypeOK, InList
  <2>. QED
    BY Zenon, <2>1, <2>2 DEF MonitorNext
<1>. QED
  BY Zenon, <1>1, <1>2 DEF WpNext, wpVars

(* rwlock_wp uses its mutex and its condition within the rules of Monitor, *)
(* which KcondProofs shows kmutex.c and kcond.c to implement: a task waits *)
(* with the mutex held, only the owner releases it, and a task that was    *)
(* woken up or interrupted has it again before it looks at the lock.       *)
THEOREM WpUsesMonitor == WpSpec => MonitorSpec
<1>1. WpInit => MonitorInit
  BY Zenon DEF WpInit
<1>. QED
  BY <1>1, WpStepMonitor, WpInvariance, PTL DEF WpSpec, MonitorSpec

(* rwlock_rp uses its mutex within the rules of Exclusion, which           *)
(* KcondProofs shows kmutex.c to implement.                                *)
THEOREM RpUsesMutex == RpSpec => Mutex!Spec
<1>1. RpInit => Mutex!Init
  BY Zenon DEF RpInit, Mutex!Init
<1>2. ASSUME NEW t \in Task, RpStep(t) PROVE [Mutex!Next]_holder
  <2>1. CASE RpGetMutex(t) \/ RpReturn(t)
    BY Zenon, <2>1 DEF RpGetMutex, RpReturn, Mutex!Next
  <2>2. CASE UNCHANGED holder
    BY Zenon, <2>2
  <2>. QED
    BY Zenon, <1>2, <2>1, <2>2 DEF RpStep, RpCall, RpShLock, RpFirst, RpShUnlock, RpExLock, RpOwn,
                                   RpExUnlock, RpRelease
<1>3. [RpNext]_rpVars => [Mutex!Next]_holder
  BY Zenon, <1>2 DEF RpNext, rpVars
<1>. QED
  BY <1>1, <1>3, PTL DEF RpSpec, Mutex!Spec

(* Each step of rwlock_rp is a step of the semaphore, or none of its       *)
(* business.                                                               *)
LEMMA RpStepSemaphore ==
  ASSUME RpInv, NEW t \in Task, RpStep(t)
  PROVE  [RSem!Next]_<<sem, SemAsked>>
<1>1. at \in [Task -> RpLocation] /\ sem \in {0, 1} /\ \A u \in Task : SemAsked[u] \in {0, 1}
  BY DEF RpInv, RpTypeOK, SemAsked
<1>2. ASSUME sem' = sem,
             NEW from, NEW to, Moves(t, from, to), from \notin {"first", "exlock"}
      PROVE  [RSem!Next]_<<sem, SemAsked>>
  <2>1. CASE to \in {"first", "exlock"}
    <3>1. at[t] \notin {"first", "exlock"} /\ at'[t] \in {"first", "exlock"}
      BY Zenon, <1>1, <1>2, <2>1 DEF Moves
    <3>2. \A u \in Task : u # t => at'[u] = at[u]
      BY Zenon, <1>1, <1>2 DEF Moves
    <3>3. SemAsked[t] = 0 /\ SemAsked' = [SemAsked EXCEPT ![t] = 1]
      BY ZenonT(60), <3>1, <3>2 DEF SemAsked
    <3>4. 1 <= 1
      OBVIOUS
    <3>. QED
      BY Zenon, <1>2, <3>3, <3>4 DEF RSem!Ask, RSem!Next, SemAsked
  <2>2. CASE to \notin {"first", "exlock"}
    <3>1. SemAsked' = SemAsked
      BY <1>1, <1>2, <2>2 DEF SemAsked, Moves
    <3>. QED
      BY Zenon, <1>2, <3>1
  <2>. QED
    BY Zenon, <2>1, <2>2
<1>3. ASSUME sem > 0, sem' = sem - 1, NEW from \in {"first", "exlock"}, NEW to,
             to \notin {"first", "exlock"}, Moves(t, from, to)
      PROVE  [RSem!Next]_<<sem, SemAsked>>
  <2>1. at[t] \in {"first", "exlock"} /\ at'[t] \notin {"first", "exlock"}
    BY Zenon, <1>1, <1>3 DEF Moves
  <2>2. \A u \in Task : u # t => at'[u] = at[u]
    BY Zenon, <1>1, <1>3 DEF Moves
  <2>3. SemAsked[t] = 1 /\ SemAsked' = [SemAsked EXCEPT ![t] = 0]
    BY ZenonT(60), <2>1, <2>2 DEF SemAsked
  <2>4. SemAsked[t] # 0 /\ SemAsked[t] <= sem
    BY <1>1, <1>3, <2>3
  <2>. QED
    BY Zenon, <1>3, <2>3, <2>4 DEF RSem!Get, RSem!Next, SemAsked
<1>4. ASSUME SemSignal, NEW from, NEW to, Moves(t, from, to),
             from \notin {"first", "exlock"}, to \notin {"first", "exlock"}
      PROVE  [RSem!Next]_<<sem, SemAsked>>
  <2>1. SemAsked' = SemAsked /\ SemAsked[t] = 0
    BY <1>1, <1>4 DEF SemAsked, Moves
  <2>2. (sem' = sem + 1 /\ sem + 1 <= 1) \/ sem' = sem
    BY <1>1, <1>4 DEF SemSignal
  <2>. QED
    BY Zenon, <2>1, <2>2 DEF RSem!Give, RSem!Next, SemAsked
<1>5. CASE RpGetMutex(t)
  BY Zenon, <1>5 DEF RpGetMutex, SemAsked
<1>6. CASE RpCall(t)
  BY Zenon, <1>2, <1>6 DEF RpCall
<1>7. CASE RpShLock(t)
  BY Zenon, <1>2, <1>7 DEF RpShLock
<1>8. CASE RpReturn(t)
  BY Zenon, <1>2, <1>8 DEF RpReturn
<1>9. CASE RpOwn(t) \/ RpExUnlock(t)
  BY Zenon, <1>2, <1>9 DEF RpOwn, RpExUnlock
<1>10. CASE RpFirst(t) \/ RpExLock(t)
  BY Zenon, <1>3, <1>10 DEF RpFirst, RpExLock
<1>11. CASE RpRelease(t)
  BY Zenon, <1>4, <1>11 DEF RpRelease
<1>12. CASE RpShUnlock(t)
  BY Zenon, <1>2, <1>4, <1>12 DEF RpShUnlock
<1>. QED
  BY Zenon, <1>5, <1>6, <1>7, <1>8, <1>9, <1>10, <1>11, <1>12 DEF RpStep

(* rwlock_rp uses its semaphore within the rules of Semaphore, which       *)
(* KsemProofs shows ksem.c to implement: each task waits for one unit at a *)
(* time, and the unit that one task took may be given back by another.     *)
THEOREM RpUsesSemaphore == RpSpec => RSem!Spec
<1>1. RpInit => RSem!Init
  <2> SUFFICES ASSUME RpInit PROVE RSem!Init
    OBVIOUS
  <2>1. \A t \in Task : at[t] = "out"
    BY Zenon DEF RpInit
  <2>2. SemAsked = [t \in Task |-> 0]
    BY SMT, <2>1 DEF SemAsked
  <2>. QED
    BY Zenon, <2>2 DEF RpInit, RSem!Init
<1>2. RpInv /\ [RpNext]_rpVars => [RSem!Next]_<<sem, SemAsked>>
  <2>1. CASE UNCHANGED rpVars
    BY Zenon, <2>1 DEF rpVars, SemAsked
  <2>. QED
    BY Zenon, <2>1, RpStepSemaphore DEF RpNext
<1>. QED
  BY <1>1, <1>2, RpInvariance, PTL DEF RpSpec, RSem!Spec, SemAsked

=============================================================================
