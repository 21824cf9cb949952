------------------------------ MODULE WthProofs ------------------------------
(***************************************************************************)
(* The worker thread uses its ring as safe_ringbuf.h asks for, forgets no  *)
(* job, and wth_wait_for_completion tells the truth.                       *)
(***************************************************************************)
EXTENDS Wth, RingsProofs

(* The context that the CPU executes. *)
LEMMA AtLemma ==
  ASSUME PlacesInv, NEW c, NEW l, At(c, l)
  PROVE  /\ pc[c] = l
         /\ c \in Irq => stack # <<>> /\ c = stack[Len(stack)]
         /\ c \notin Irq => stack = <<>> /\ c = cur
<1>1. stack \in Seq(Irq)
  BY Zenon DEF PlacesInv
<1>2. CASE stack = <<>>
  <2>1. c = cur /\ cur \in Task
    BY Zenon, <1>2 DEF At, PlacesInv
  <2>2. c \notin Irq
    BY Zenon, <2>1, WthAssumption DEF Task
  <2>. QED
    BY Zenon, <1>2, <2>1, <2>2 DEF At
<1>3. CASE stack # <<>>
  <2>1. c = stack[Len(stack)]
    BY Zenon, <1>3 DEF At
  <2>2. c = stack[Len(stack)] /\ stack[Len(stack)] \in Irq
    BY SMTT(60), <1>1, <1>3, <2>1
  <2>. QED
    BY Zenon, <1>3, <2>2 DEF At
<1>. QED
  BY Zenon, <1>2, <1>3

(* When a task runs, no IRQ handler is in progress and no other task is    *)
(* enqueueing a job.                                                       *)
LEMMA TaskRunsLemma ==
  ASSUME PlacesInv, stack = <<>>, NEW p \in Irq \cup Client, pc[p] \in Enqueueing
  PROVE  p = cur
<1>1. p \notin Irq
  <2>1. SUFFICES ASSUME p \in Irq PROVE FALSE
    OBVIOUS
  <2>2. InList(stack, p)
    BY Zenon, <2>1 DEF PlacesInv, Enqueueing
  <2>. QED
    BY SMTT(60), <2>2 DEF InList
<1>. QED
  BY Zenon, <1>1 DEF PlacesInv

(* do_schedule: a task that sleeps goes on sleeping, and is not picked. *)
LEMMA ScheduleLemma ==
  ASSUME PlacesInv, NEW st \in [Task -> {"RUNNABLE", "RUNNING", "SLEEPING"}], DoSchedule(st)
  PROVE  /\ cur' \in Task /\ state' \in [Task -> {"RUNNABLE", "RUNNING", "SLEEPING"}]
         /\ st[Worker] = "SLEEPING" <=> state'[Worker] = "SLEEPING"
         /\ cur' = Worker => state'[Worker] # "SLEEPING"
<1>0. cur \in Task /\ Worker \in Task /\ Idle \in Task /\ Worker # Idle /\ Client \subseteq Task
      /\ Worker \notin Client
  BY Zenon, WthAssumption DEF PlacesInv, Task
<1>1. PICK t \in Selectable(st) :
        /\ cur' = t
        /\ state' = IF t = cur THEN st
                    ELSE [u \in Task |-> IF u = t THEN "RUNNING"
                                         ELSE IF u = cur /\ st[u] = "RUNNING" THEN "RUNNABLE"
                                         ELSE st[u]]
  BY Zenon DEF DoSchedule
<1>2. t \in Task
  BY Zenon, <1>0, <1>1 DEF Selectable
<1>3. st[Worker] = "SLEEPING" => t # Worker
  BY Zenon, <1>0, <1>1 DEF Selectable
<1>. QED
  BY Zenon, <1>0, <1>1, <1>2, <1>3

(* The end of an IRQ: a task that has disabled preemption stays. *)
LEMMA IrqExitLemma ==
  ASSUME PlacesInv, NEW st \in [Task -> {"RUNNABLE", "RUNNING", "SLEEPING"}], NEW below,
         NEW r, IrqExit(below, st, r)
  PROVE  /\ cur' \in Task /\ state' \in [Task -> {"RUNNABLE", "RUNNING", "SLEEPING"}]
         /\ st[Worker] = "SLEEPING" <=> state'[Worker] = "SLEEPING"
         /\ cur' = Worker /\ state'[Worker] = "SLEEPING" => cur = Worker
         /\ pc[cur] \in Enqueueing => cur' = cur
BY Zenon, ScheduleLemma DEF IrqExit, PlacesInv

(* The last writer to begin is the one that the CPU executes. *)
LEMMA LastWriterLemma ==
  ASSUME SafeInv, PlacesInv, NestInv, NEW c \in Producer, At(c, "write")
  PROVE  writers # <<>> /\ writers[Len(writers)] = c
<1>1. writers \in Seq(Producer) /\ stack \in Seq(Irq)
  BY Zenon DEF SafeInv, SafeTypeOK, PlacesInv
<1>2. PICK i \in 1..Len(writers) : writers[i] = c
  BY Zenon DEF At, NestInv, IsWriting
<1>3. Len(writers) \in Nat /\ Len(stack) \in Nat /\ Len(writers) \in 1..Len(writers)
  BY SMTT(60), <1>1, <1>2
<1>4. ASSUME i < Len(writers) PROVE FALSE
  <2>1. PICK k \in 1..Len(stack) : \A l \in k..Len(stack) : stack[l] # c
    BY ZenonT(60), <1>2, <1>3, <1>4 DEF NestInv, WritesNest
  <2>2. Len(stack) \in k..Len(stack) /\ stack # <<>>
    BY <1>1, <1>3, <2>1
  <2>3. c = stack[Len(stack)]
    BY Zenon, <2>2, AtLemma
  <2>. QED
    BY Zenon, <2>1, <2>2, <2>3
<1>. QED
  BY SMTT(60), <1>1, <1>2, <1>3, <1>4

(* Nobody writes when a task runs that is not writing. *)
LEMMA NoWriterLemma ==
  ASSUME SafeInv, PlacesInv, NestInv, stack = <<>>, pc[cur] # "write"
  PROVE  writers = <<>>
<1>1. writers \in Seq(Producer)
  BY Zenon DEF SafeInv, SafeTypeOK
<1>2. ASSUME writers # <<>> PROVE FALSE
  <2>1. writers[1] \in Producer /\ IsWriting(writers[1])
    BY SMTT(60), <1>1, <1>2 DEF IsWriting
  <2>2. pc[writers[1]] = "write" /\ writers[1] \in Irq \cup Client
    BY Zenon, <2>1, WthAssumption DEF NestInv
  <2>. QED
    BY Zenon, <2>2, TaskRunsLemma DEF Enqueueing
<1>. QED
  BY Zenon, <1>2

(* Every step of the worker thread, the tasks and the handlers is one that *)
(* the ring allows, or leaves it alone.                                    *)
LEMMA RingStepLemma ==
  ASSUME SafeInv, PlacesInv, NestInv, [WthNext]_wthVars
  PROVE  [SafeNext]_safeVars
<1>0. \A p \in Irq \cup Client : p \in Producer /\ p \in Job
  BY Zenon, WthAssumption
<1>1. ASSUME NEW i \in Irq, Interrupt(i) PROVE SafeNext
  BY Zenon, <1>0, <1>1 DEF Interrupt, SafeNext
<1>2. ASSUME NEW c \in Client, CallEnqueue(c) PROVE SafeNext
  BY Zenon, <1>0, <1>2 DEF CallEnqueue, SafeNext
<1>3. ASSUME NEW c \in Irq \cup Client, RingWrite(c) PROVE SafeNext
  BY Zenon, <1>0, <1>3, LastWriterLemma DEF RingWrite, SafeNext
<1>4. ASSUME RingRead PROVE SafeNext
  <2>1. stack = <<>> /\ cur = Worker /\ pc[Worker] = "read"
    BY Zenon, <1>4, AtLemma, WthAssumption DEF RingRead
  <2>2. writers = <<>>
    BY Zenon, <2>1, NoWriterLemma
  <2>. QED
    BY Zenon, <1>4, <2>2 DEF RingRead, SafeNext
<1>5. ASSUME NEW c \in Irq \cup Client, Enqueue(c) PROVE [SafeNext]_safeVars
  BY Zenon, <1>3, <1>5 DEF Enqueue, CheckWaiting, WthWakeup, WthWakeupCas, EnqueueEnd
<1>6. ASSUME WthRun \/ JobSleeps \/ JobIsWoken PROVE [SafeNext]_safeVars
  BY Zenon, <1>4, <1>6 DEF WthRun, WthStart, JobEnds, WthEmpty, WthLook, WthSignal, WthSchedule,
     JobSleeps, JobIsWoken
<1>7. ASSUME NEW c \in Client, CallWait(c) \/ WaitForCompletion(c) PROVE [SafeNext]_safeVars
  BY Zenon, <1>7 DEF CallWait, WaitForCompletion, TestWaiting, KcondWait, KcondWoken
<1>8. ASSUME NEW timeout \in BOOLEAN, NEW S \in SUBSET Client, TimerIrq(timeout, S)
      PROVE  [SafeNext]_safeVars
  BY Zenon, <1>8 DEF TimerIrq
<1>9. CASE UNCHANGED wthVars
  BY Zenon, <1>9 DEF wthVars
<1>. QED
  BY Zenon, <1>1, <1>2, <1>5, <1>6, <1>7, <1>8, <1>9 DEF WthNext

(* An interrupt: a handler that is not in progress goes on top. *)
LEMMA PushedLemma ==
  ASSUME NEW q \in Seq(Irq), NEW i \in Irq, ~InList(q, i), Distinct(q)
  PROVE  /\ Append(q, i) \in Seq(Irq)
         /\ Distinct(Append(q, i))
         /\ \A y : InList(Append(q, i), y) <=> y = i \/ InList(q, y)
BY DEF InList, Distinct

(* A context goes from one place to another. *)
LEMMA MoveLemma ==
  ASSUME PlacesInv, NEW c \in Irq \cup Client \cup {Worker},
         NEW l \in {"out"} \cup Enqueueing \cup Running \cup Waiting, pc' = [pc EXCEPT ![c] = l],
         stack' = stack, cur' \in Task,
         state' \in [Task -> {"RUNNABLE", "RUNNING", "SLEEPING"}],
         cur' = cur \/ pc[cur] \notin Enqueueing,
         c = Worker => l \in Running,
         c \in Irq => pc[c] # "out" /\ l \in Enqueueing,
         c \in Client => /\ l \in {"out"} \cup Enqueueing \cup Waiting
                         /\ l \in Enqueueing => c = cur'
  PROVE  PlacesInv'
<1>0. c \in Irq \cup Task /\ Idle \in Irq \cup Task /\ Worker \in Irq \cup Task
      /\ Client \subseteq Irq \cup Task
  BY Zenon DEF Task
<1>1. pc' \in [Irq \cup Task -> {"out"} \cup Enqueueing \cup Running \cup Waiting]
  BY Zenon, <1>0 DEF PlacesInv
<1>2. pc'[c] = l /\ \A d \in Irq \cup Task : d # c => pc'[d] = pc[d]
  BY Zenon, <1>0 DEF PlacesInv
<1>3. c # Idle /\ (c = Worker => c \notin Irq \cup Client) /\ Irq \cap Client = {}
  BY Zenon, WthAssumption
<1>4. pc'[Worker] \in Running /\ pc'[Idle] = "out"
  BY Zenon, <1>0, <1>2, <1>3 DEF PlacesInv
<1>5. \A i \in Irq : pc'[i] \in {"out"} \cup Enqueueing /\ (pc'[i] # "out" <=> InList(stack, i))
  BY Zenon, <1>2, <1>3 DEF PlacesInv, Enqueueing
<1>6. \A d \in Client :
        pc'[d] \in {"out"} \cup Enqueueing \cup Waiting /\ (pc'[d] \in Enqueueing => d = cur')
  BY Zenon, <1>0, <1>2, <1>3 DEF PlacesInv
<1>. QED
  BY Zenon, <1>1, <1>4, <1>5, <1>6 DEF PlacesInv

(* The IRQ handlers in progress change. *)
LEMMA StackLemma ==
  ASSUME PlacesInv, NEW c \in Irq,
         NEW l \in {"out"} \cup Enqueueing, pc' = [pc EXCEPT ![c] = l],
         stack' \in Seq(Irq), Distinct(stack'),
         \A i \in Irq \ {c} : InList(stack', i) <=> InList(stack, i),
         InList(stack', c) <=> l # "out",
         cur' \in Task, state' \in [Task -> {"RUNNABLE", "RUNNING", "SLEEPING"}],
         cur' = cur \/ pc[cur] \notin Enqueueing
  PROVE  PlacesInv'
<1>0. c \in Irq \cup Task /\ Idle \in Irq \cup Task /\ Worker \in Irq \cup Task
      /\ Client \subseteq Irq \cup Task
  BY Zenon DEF Task
<1>1. pc' \in [Irq \cup Task -> {"out"} \cup Enqueueing \cup Running \cup Waiting]
  BY Zenon, <1>0 DEF PlacesInv
<1>2. pc'[c] = l /\ \A d \in Irq \cup Task : d # c => pc'[d] = pc[d]
  BY Zenon, <1>0 DEF PlacesInv
<1>3. c # Idle /\ c # Worker /\ Irq \cap Client = {}
  BY Zenon, WthAssumption
<1>4. pc'[Worker] \in Running /\ pc'[Idle] = "out"
  BY Zenon, <1>0, <1>2, <1>3 DEF PlacesInv
<1>5. \A i \in Irq : pc'[i] \in {"out"} \cup Enqueueing /\ (pc'[i] # "out" <=> InList(stack', i))
  BY Zenon, <1>2, <1>3 DEF PlacesInv, Enqueueing
<1>6. \A d \in Client :
        pc'[d] \in {"out"} \cup Enqueueing \cup Waiting /\ (pc'[d] \in Enqueueing => d = cur')
  BY SMTT(60), <1>0, <1>2, <1>3 DEF PlacesInv
<1>7. (Distinct(stack))' /\ \A i : InList(stack, i)' <=> InList(stack', i)
  BY Zenon DEF Distinct, InList
<1>. QED
  BY Zenon, <1>1, <1>4, <1>5, <1>6, <1>7 DEF PlacesInv

(* The first n elements. *)
LEMMA FirstElements ==
  ASSUME NEW S, NEW q, NEW n \in Nat, \A i \in 1..n : q[i] \in S
  PROVE  /\ SubSeq(q, 1, n) \in Seq(S) /\ Len(SubSeq(q, 1, n)) = n
         /\ \A i \in 1..n : SubSeq(q, 1, n)[i] = q[i]
BY SMT

(* The handler on top ends. *)
LEMMA PoppedLemma ==
  ASSUME NEW S, NEW q \in Seq(S), q # <<>>, Distinct(q)
  PROVE  /\ Popped(q) \in Seq(S) /\ Len(Popped(q)) = Len(q) - 1
         /\ \A i \in 1..(Len(q) - 1) : Popped(q)[i] = q[i]
         /\ Distinct(Popped(q))
         /\ \A x : InList(Popped(q), x) <=> InList(q, x) /\ x # q[Len(q)]
<1>1. Len(q) \in Nat /\ Len(q) > 0
  BY SMTT(60)
<1>2. /\ Popped(q) \in Seq(S) /\ Len(Popped(q)) = Len(q) - 1
      /\ \A i \in 1..(Len(q) - 1) : Popped(q)[i] = q[i]
  <2> DEFINE n == Len(q) - 1
  <2>1. n = Len(q) - 1 /\ Popped(q) = SubSeq(q, 1, n)
    BY Zenon DEF Popped
  <2>2. n \in Nat /\ \A i \in 1..n : q[i] \in S
    BY SMT, <1>1
  <2> HIDE DEF n
  <2>3. /\ SubSeq(q, 1, n) \in Seq(S) /\ Len(SubSeq(q, 1, n)) = n
        /\ \A i \in 1..n : SubSeq(q, 1, n)[i] = q[i]
    BY SMT, <2>2, FirstElements
  <2>. QED
    BY Zenon, <2>1, <2>3
<1>3. Distinct(Popped(q))
  BY SMTT(60), <1>1, <1>2 DEF Distinct
<1>4. ASSUME NEW x PROVE InList(Popped(q), x) <=> InList(q, x) /\ x # q[Len(q)]
  BY SMTT(60), <1>1, <1>2 DEF InList, Distinct
<1>. QED
  BY Zenon, <1>2, <1>3, <1>4

(* Every step keeps the contexts in their places. *)
LEMMA PlacesStep ==
  ASSUME PlacesInv, [WthNext]_wthVars
  PROVE  PlacesInv'
<1> DEFINE St == {"RUNNABLE", "RUNNING", "SLEEPING"}
<1>0. /\ cur \in Task /\ state \in [Task -> St] /\ Worker \in Task /\ Client \subseteq Task
      /\ stack \in Seq(Irq) /\ Distinct(stack)
  BY Zenon DEF PlacesInv, Task
<1>1. ASSUME NEW c \in Irq \cup Client, NEW l \in Enqueueing, pc[c] # "out",
             c = (IF stack = <<>> THEN cur ELSE stack[Len(stack)]),
             pc' = [pc EXCEPT ![c] = l], stack' = stack, cur' = cur, state' \in [Task -> St]
      PROVE  PlacesInv'
  <2>1. c \in Client => c = cur
    BY Zenon, <1>1, AtLemma, WthAssumption DEF At
  <2>2. c # Worker
    BY Zenon, WthAssumption
  <2>. QED
    BY ZenonT(60), <1>0, <1>1, <2>1, <2>2, MoveLemma
<1>2. ASSUME NEW i \in Irq, Interrupt(i) PROVE PlacesInv'
  <2>1. /\ ~InList(stack, i) /\ stack' = Append(stack, i) /\ pc' = [pc EXCEPT ![i] = "write"]
        /\ cur' = cur /\ state' = state
    BY Zenon, <1>2 DEF Interrupt, Goto
  <2>2. /\ Append(stack, i) \in Seq(Irq) /\ Distinct(Append(stack, i))
        /\ \A y : InList(Append(stack, i), y) <=> y = i \/ InList(stack, y)
    BY Zenon, <1>0, <2>1, PushedLemma
  <2>3. "write" \in Enqueueing
    BY Zenon DEF Enqueueing
  <2>. QED
    BY ZenonT(60), <1>0, <2>1, <2>2, <2>3, StackLemma
<1>3. ASSUME NEW c \in Client, CallEnqueue(c) PROVE PlacesInv'
  <2>1. c = cur /\ pc' = [pc EXCEPT ![c] = "write"] /\ stack' = stack /\ cur' = cur /\ state' = state
    BY Zenon, <1>3, AtLemma, WthAssumption DEF CallEnqueue, Goto, cpuVars
  <2>2. "write" \in Enqueueing /\ c # Worker /\ c \notin Irq
    BY Zenon, WthAssumption DEF Enqueueing
  <2>. QED
    BY ZenonT(60), <1>0, <2>1, <2>2, MoveLemma
<1>4. ASSUME NEW c \in Irq \cup Client, RingWrite(c) PROVE PlacesInv'
  <2>1. PICK l \in {"write", "check", "end"} : pc' = [pc EXCEPT ![c] = l]
    BY ZenonT(60), <1>4 DEF RingWrite, Goto
  <2>2. l \in Enqueueing
    BY Zenon DEF Enqueueing
  <2>. QED
    BY ZenonT(60), <1>0, <1>1, <1>4, <2>1, <2>2 DEF RingWrite, At, cpuVars
<1>5. ASSUME NEW c \in Irq \cup Client, CheckWaiting(c) PROVE PlacesInv'
  <2>1. PICK l \in {"wakeup", "end"} : pc' = [pc EXCEPT ![c] = l]
    BY ZenonT(60), <1>5 DEF CheckWaiting, Goto
  <2>2. l \in Enqueueing
    BY Zenon DEF Enqueueing
  <2>. QED
    BY ZenonT(60), <1>0, <1>1, <1>5, <2>1, <2>2 DEF CheckWaiting, At, cpuVars
<1>6. ASSUME NEW c \in Irq \cup Client, WthWakeup(c) \/ WthWakeupCas(c) PROVE PlacesInv'
  <2>1. "end" \in Enqueueing /\ "cas" \in Enqueueing
    BY Zenon DEF Enqueueing
  <2>2. CASE WthWakeup(c)
    BY ZenonT(60), <1>0, <1>1, <2>1, <2>2 DEF WthWakeup, At, Goto, cpuVars
  <2>3. CASE WthWakeupCas(c)
    <3>1. state' \in [Task -> St]
      BY Zenon, <1>0, <2>3 DEF WthWakeupCas
    <3>. QED
      BY ZenonT(60), <1>0, <1>1, <2>1, <2>3, <3>1 DEF WthWakeupCas, At, Goto
  <2>. QED
    BY Zenon, <1>6, <2>2, <2>3
<1>7. ASSUME NEW c \in Irq, EnqueueEnd(c) PROVE PlacesInv'
  <2>1. /\ stack # <<>> /\ c = stack[Len(stack)] /\ pc' = [pc EXCEPT ![c] = "out"]
        /\ stack' = Popped(stack) /\ IrqExit(stack', state, needResched)
    BY Zenon, <1>7, AtLemma DEF EnqueueEnd, Goto
  <2>2. /\ Popped(stack) \in Seq(Irq) /\ Distinct(Popped(stack))
        /\ \A x : InList(Popped(stack), x) <=> InList(stack, x) /\ x # c
    BY Zenon, <1>0, <2>1, PoppedLemma
  <2>3. /\ cur' \in Task /\ state' \in [Task -> St]
        /\ pc[cur] \in Enqueueing => cur' = cur
    BY Zenon, <1>0, <2>1, IrqExitLemma
  <2>. QED
    BY ZenonT(60), <2>1, <2>2, <2>3, StackLemma
<1>8. ASSUME NEW c \in Client, EnqueueEnd(c) PROVE PlacesInv'
  <2>1. c \notin Irq /\ c # Worker
    BY Zenon, WthAssumption
  <2>2. pc' = [pc EXCEPT ![c] = "out"] /\ stack' = stack /\ cur' = cur /\ state' = state
    BY Zenon, <1>8, <2>1 DEF EnqueueEnd, Goto, cpuVars
  <2>3. "out" \notin Enqueueing
    BY Zenon DEF Enqueueing
  <2>. QED
    BY ZenonT(60), <1>0, <2>1, <2>2, <2>3, MoveLemma
<1>9. ASSUME NEW l \in Running, pc' = [pc EXCEPT ![Worker] = l], stack' = stack, cur' \in Task,
             state' \in [Task -> St], cur' = cur \/ cur = Worker
      PROVE  PlacesInv'
  <2>1. Worker \notin Irq \cup Client
    BY Zenon, WthAssumption
  <2>2. pc[Worker] \notin Enqueueing
    BY Zenon DEF PlacesInv, Running, Enqueueing
  <2>. QED
    BY ZenonT(60), <1>9, <2>1, <2>2, MoveLemma
<1>10. CASE WthStart \/ RingRead \/ JobEnds \/ WthLook
  <2>1. /\ \E l \in {"read", "job", "empty", "signal", "start"} : pc' = [pc EXCEPT ![Worker] = l]
        /\ stack' = stack /\ cur' = cur /\ state' = state
    BY Zenon, <1>10 DEF WthStart, RingRead, JobEnds, WthLook, Goto, cpuVars
  <2>. QED
    BY ZenonT(60), <1>0, <1>9, <2>1 DEF Running
<1>11. CASE WthEmpty \/ WthSignal \/ JobIsWoken
  <2>1. /\ \E l \in {"look", "schedule", "job"} : pc' = [pc EXCEPT ![Worker] = l]
        /\ stack' = stack /\ cur' = cur
    BY Zenon, <1>11 DEF WthEmpty, WthSignal, JobIsWoken, Goto
  <2>2. state' \in [Task -> St]
    BY Zenon, <1>0, <1>11 DEF WthEmpty, WthSignal, JobIsWoken
  <2>. QED
    BY ZenonT(60), <1>0, <1>9, <2>1, <2>2 DEF Running
<1>12. CASE WthSchedule \/ JobSleeps
  <2>1. /\ \E l \in {"start", "blocked"} : pc' = [pc EXCEPT ![Worker] = l]
        /\ stack' = stack /\ \E l : At(Worker, l)
    BY Zenon, <1>12 DEF WthSchedule, JobSleeps, Goto
  <2>2. cur = Worker
    BY Zenon, <2>1, AtLemma, WthAssumption
  <2>3. \E st \in [Task -> St] : DoSchedule(st)
    BY ZenonT(60), <1>0, <1>12 DEF WthSchedule, JobSleeps
  <2>4. cur' \in Task /\ state' \in [Task -> St]
    BY Zenon, <2>3, ScheduleLemma
  <2>. QED
    BY ZenonT(60), <1>9, <2>1, <2>2, <2>4 DEF Running
<1>13. ASSUME NEW c \in Client, CallWait(c) \/ TestWaiting(c) \/ KcondWoken(c) PROVE PlacesInv'
  <2>1. PICK l \in {"test", "out", "wait"} : pc' = [pc EXCEPT ![c] = l]
    BY Zenon, <1>13 DEF CallWait, TestWaiting, KcondWoken, Goto
  <2>2. stack' = stack /\ cur' = cur /\ state' = state
    BY Zenon, <1>13 DEF CallWait, TestWaiting, KcondWoken, cpuVars
  <2>3. l \in {"out"} \cup Waiting /\ l \notin Enqueueing
    BY Zenon DEF Waiting, Enqueueing
  <2>4. c \notin Irq /\ c # Worker
    BY Zenon, WthAssumption
  <2>. QED
    BY ZenonT(60), <1>0, <2>1, <2>2, <2>3, <2>4, MoveLemma
<1>14. ASSUME NEW c \in Client, KcondWait(c) PROVE PlacesInv'
  <2>1. pc' = [pc EXCEPT ![c] = "woken"] /\ stack' = stack
        /\ DoSchedule([state EXCEPT ![c] = "SLEEPING"])
    BY Zenon, <1>14 DEF KcondWait, Goto
  <2>2. [state EXCEPT ![c] = "SLEEPING"] \in [Task -> St]
    BY Zenon, <1>0
  <2>3. cur' \in Task /\ state' \in [Task -> St]
    BY ZenonT(60), <2>1, <2>2, ScheduleLemma
  <2>4. c \notin Irq /\ c # Worker
    BY Zenon, WthAssumption
  <2>5. cur = c /\ pc[cur] = "wait"
    BY Zenon, <1>14, <2>4, AtLemma DEF KcondWait
  <2>6. "woken" \in Waiting /\ "woken" \notin Enqueueing /\ "wait" \notin Enqueueing
    BY Zenon DEF Waiting, Enqueueing
  <2>. QED
    BY ZenonT(60), <2>1, <2>3, <2>4, <2>5, <2>6, MoveLemma
<1>15. ASSUME NEW timeout \in BOOLEAN, NEW S \in SUBSET Client, TimerIrq(timeout, S)
       PROVE  PlacesInv'
  <2> DEFINE st == [t \in Task |-> IF t \in S THEN "RUNNABLE" ELSE state[t]]
             r == needResched \/ state[cur] # "RUNNING" \/ (timeout /\ cur # Worker) \/ S # {}
  <2>1. IrqExit(stack, st, r) /\ stack' = stack /\ pc' = pc
    BY Zenon, <1>15 DEF TimerIrq
  <2>2. st \in [Task -> St]
    BY Zenon, <1>0
  <2> HIDE DEF st, r
  <2>3. cur' \in Task /\ state' \in [Task -> St] /\ (pc[cur] \in Enqueueing => cur' = cur)
    BY Zenon, <2>1, <2>2, IrqExitLemma
  <2>. QED
    BY Zenon, <2>1, <2>3 DEF PlacesInv
<1>16. CASE UNCHANGED wthVars
  BY Zenon, <1>16 DEF wthVars, cpuVars, PlacesInv
<1>. QED
  BY Zenon, <1>2, <1>3, <1>4, <1>5, <1>6, <1>7, <1>8, <1>10, <1>11, <1>12, <1>13, <1>14, <1>15, <1>16
     DEF WthNext, Enqueue, WthRun, WaitForCompletion

(* What a step of a write changes. *)
LEMMA WriteLemma ==
  ASSUME SafeInv, NEW c \in Producer, writers # <<>>, writers[Len(writers)] = c, Write(c)
  PROVE  /\ \A d \in Producer \ {c} : w'[d] = w[d]
         /\ \/ w'[c].pc # "out" /\ writers' = writers
            \/ w'[c].pc = "out" /\ writers' = SubSeq(writers, 1, Len(writers) - 1)
         /\ \/ stat' = stat
            \/ /\ stat = w[c].cs /\ w[c].pc = "cas"
               /\ w'[c].pc = "store" /\ w'[c].cs = w[c].cs
         /\ w[c].pc = "store" => w'[c].pc = "out"
<1>1. w \in [Producer -> Writer]
  BY Zenon DEF SafeInv, SafeTypeOK
<1>2. w[c] \in Writer /\ DOMAIN w = Producer
  BY Zenon, <1>1
<1>3. CASE SafeWriteLoad(c)
  BY Zenon, <1>2, <1>3 DEF SafeWriteLoad, Writer
<1>4. CASE SafeWriteFull(c)
  BY Zenon, <1>2, <1>4 DEF SafeWriteFull, SafeWriteEnd, NotWriting
<1>5. CASE SafeWriteReload(c)
  BY Zenon, <1>2, <1>5 DEF SafeWriteReload, Writer
<1>6. CASE SafeWriteCas(c)
  <2>1. CASE stat = w[c].cs
    BY <1>2, <1>6, <2>1 DEF SafeWriteCas, Writer
  <2>2. CASE stat # w[c].cs
    BY <1>2, <1>6, <2>2 DEF SafeWriteCas, Writer
  <2>. QED
    BY Zenon, <2>1, <2>2
<1>7. CASE SafeWriteStore(c)
  BY Zenon, <1>2, <1>7 DEF SafeWriteStore, SafeWriteEnd, NotWriting
<1>. QED
  BY Zenon, <1>3, <1>4, <1>5, <1>6, <1>7 DEF Write

(* Nothing that nests changes. *)
LEMMA NestFrame ==
  ASSUME NestInv, writers' = writers, stack' = stack,
         \A p \in Producer : pc'[p] = "write" <=> pc[p] = "write"
  PROVE  NestInv'
<1>1. WritesNest'
  BY SMTT(60) DEF NestInv, WritesNest
<1>2. \A p \in Producer : (pc[p] = "write")' <=> IsWriting(p)'
  BY Zenon DEF NestInv, IsWriting
<1>. QED
  BY Zenon, <1>1, <1>2 DEF NestInv

(* A handler on top of the others begins to write. *)
LEMMA NestInterrupt ==
  ASSUME SafeInv, PlacesInv, NestInv, NEW i \in Irq, Interrupt(i)
  PROVE  NestInv'
<1>1. /\ writers \in Seq(Producer) /\ stack \in Seq(Irq) /\ i \in Producer
  BY Zenon, WthAssumption DEF SafeInv, SafeTypeOK, PlacesInv
<1>2. /\ writers' = Append(writers, i) /\ stack' = Append(stack, i)
      /\ pc' = [pc EXCEPT ![i] = "write"] /\ ~InList(stack, i)
  BY Zenon DEF Interrupt, SafeWriteBegin, Goto
<1>3. pc'[i] = "write" /\ \A d \in Producer \ {i} : pc'[d] = pc[d]
  BY Zenon, <1>2, WthAssumption DEF PlacesInv, Task
<1>4. ~IsWriting(i)
  <2>1. pc[i] = "out"
    BY Zenon, <1>2 DEF PlacesInv
  <2>. QED
    BY Zenon, <1>1, <2>1 DEF NestInv
<1> DEFINE n == Len(writers)
           m == Len(stack)
<1>5. n \in Nat /\ m \in Nat
  BY SMTT(60), <1>1
<1>6. /\ Len(writers') = n + 1 /\ writers'[n + 1] = i
      /\ \A k \in 1..n : writers'[k] = writers[k]
      /\ Len(stack') = m + 1 /\ stack'[m + 1] = i
      /\ \A k \in 1..m : stack'[k] = stack[k]
  BY SMTT(60), <1>1, <1>2
<1>7. \A k \in 1..n : writers[k] # i
  BY Zenon, <1>4 DEF IsWriting
<1>8. \A p \in Producer : IsWriting(p)' <=> p = i \/ IsWriting(p)
  BY SMTT(60), <1>5, <1>6 DEF IsWriting
<1>9. \A p \in Producer : (pc[p] = "write")' <=> IsWriting(p)'
  BY Zenon, <1>1, <1>3, <1>8 DEF NestInv
<1>10. ASSUME NEW a \in 1..(n + 1), NEW b \in 1..(n + 1), a < b
       PROVE  \E k \in 1..(m + 1) :
                stack'[k] = writers'[b] /\ \A l \in k..(m + 1) : stack'[l] # writers'[a]
  <2>1. a \in 1..n
    BY SMTT(60), <1>5, <1>10
  <2>2. CASE b = n + 1
    BY <1>5, <1>6, <1>7, <2>1, <2>2
  <2>3. CASE b \in 1..n
    <3>1. PICK k \in 1..m : stack[k] = writers[b] /\ \A l \in k..m : stack[l] # writers[a]
      BY Zenon, <1>10, <2>1, <2>3 DEF NestInv, WritesNest
    <3>2. k \in 1..(m + 1) /\ stack'[k] = writers'[b]
      BY <1>5, <1>6, <2>3, <3>1
    <3>3. \A l \in k..(m + 1) : stack'[l] # writers'[a]
      BY <1>5, <1>6, <1>7, <2>1, <3>1
    <3>. QED
      BY Zenon, <3>2, <3>3
  <2>. QED
    BY SMTT(60), <1>5, <2>2, <2>3
<1> HIDE DEF n, m
<1>11. WritesNest'
  BY SMTT(60), <1>6, <1>10 DEF WritesNest
<1>. QED
  BY Zenon, <1>9, <1>11 DEF NestInv

(* A task begins to write: there is no other writer. *)
LEMMA NestCall ==
  ASSUME SafeInv, PlacesInv, NestInv, NEW c \in Client, CallEnqueue(c)
  PROVE  NestInv'
<1>1. c \in Producer /\ c \notin Irq
  BY Zenon, WthAssumption
<1>2. stack = <<>> /\ cur = c /\ pc[c] = "out"
  BY Zenon, <1>1, AtLemma DEF CallEnqueue
<1>3. writers = <<>>
  BY Zenon, <1>2, NoWriterLemma
<1>4. writers' = <<c>> /\ stack' = <<>> /\ pc' = [pc EXCEPT ![c] = "write"]
  BY SMTT(60), <1>2, <1>3 DEF CallEnqueue, SafeWriteBegin, Goto, cpuVars
<1>5. pc'[c] = "write" /\ \A d \in Producer \ {c} : pc'[d] = pc[d]
  BY Zenon, <1>1, <1>4, WthAssumption DEF PlacesInv, Task
<1>6. \A p \in Producer : IsWriting(p) <=> FALSE
  BY SMTT(60), <1>3 DEF IsWriting
<1>7. Len(writers') = 1 /\ writers'[1] = c
  BY Zenon, <1>4
<1>8. \A p \in Producer : IsWriting(p)' <=> p = c
  BY SMTT(60), <1>7 DEF IsWriting
<1>9. \A p \in Producer : (pc[p] = "write")' <=> IsWriting(p)'
  BY Zenon, <1>5, <1>6, <1>8 DEF NestInv
<1>10. ~\E a, b \in 1..Len(writers') : a < b
  BY SMTT(60), <1>7
<1>. QED
  BY Zenon, <1>9, <1>10 DEF NestInv, WritesNest

(* A step of a write, the last one included. *)
LEMMA NestWrite ==
  ASSUME SafeInv, PlacesInv, NestInv, NEW c \in Producer, RingWrite(c)
  PROVE  NestInv'
<1>0. /\ writers \in Seq(Producer) /\ stack \in Seq(Irq) /\ WritersDiffer
  BY Zenon DEF SafeInv, SafeTypeOK, PlacesInv
<1>1. At(c, "write") /\ Write(c) /\ stack' = stack
  BY Zenon DEF RingWrite, cpuVars
<1>2. writers # <<>> /\ writers[Len(writers)] = c
  BY Zenon, <1>1, LastWriterLemma
<1>3. \/ w'[c].pc # "out" /\ writers' = writers
      \/ w'[c].pc = "out" /\ writers' = SubSeq(writers, 1, Len(writers) - 1)
  BY Zenon, <1>1, <1>2, WriteLemma
<1>4. \A d \in Producer \ {c} : pc'[d] = pc[d]
  BY Zenon, WthAssumption DEF PlacesInv, Task, RingWrite, Goto
<1>5. pc[c] = "write" /\ (pc'[c] = "write" <=> w'[c].pc # "out")
  BY Zenon, <1>1, WthAssumption DEF PlacesInv, Task, RingWrite, Goto, At
<1>6. CASE w'[c].pc # "out"
  BY <1>1, <1>3, <1>4, <1>5, <1>6, NestFrame
<1>7. CASE w'[c].pc = "out"
  <2> DEFINE n == Len(writers)
  <2>1. n \in Nat /\ n > 0
    BY SMTT(60), <1>0, <1>2
  <2>2. /\ Len(writers') = n - 1 /\ \A k \in 1..(n - 1) : writers'[k] = writers[k]
    BY <1>0, <1>3, <1>7, <2>1
  <2>3. \A k \in 1..(n - 1) : writers[k] # c
    BY SMTT(60), <1>0, <1>2, <2>1 DEF WritersDiffer
  <2>4. \A p \in Producer : IsWriting(p)' <=> p # c /\ IsWriting(p)
    BY <1>2, <2>1, <2>2, <2>3 DEF IsWriting
  <2>5. \A p \in Producer : (pc[p] = "write")' <=> IsWriting(p)'
    BY Zenon, <1>4, <1>5, <1>7, <2>4 DEF NestInv
  <2>6. ASSUME NEW a \in 1..(n - 1), NEW b \in 1..(n - 1), a < b
        PROVE  \E k \in 1..Len(stack') :
                 stack'[k] = writers'[b] /\ \A l \in k..Len(stack') : stack'[l] # writers'[a]
    <3>1. a \in 1..n /\ b \in 1..n
      BY SMTT(60), <2>1
    <3>2. PICK k \in 1..Len(stack) :
            stack[k] = writers[b] /\ \A l \in k..Len(stack) : stack[l] # writers[a]
      BY ZenonT(60), <2>6, <3>1 DEF NestInv, WritesNest
    <3>. QED
      BY Zenon, <1>1, <2>2, <3>2
  <2> HIDE DEF n
  <2>7. WritesNest'
    BY Zenon, <2>2, <2>6 DEF WritesNest
  <2>. QED
    BY Zenon, <2>5, <2>7 DEF NestInv
<1>. QED
  BY Zenon, <1>6, <1>7

(* The handler on top, which does not write any more, returns. *)
LEMMA NestReturn ==
  ASSUME SafeInv, PlacesInv, NestInv, NEW c \in Irq, EnqueueEnd(c)
  PROVE  NestInv'
<1>0. /\ writers \in Seq(Producer) /\ stack \in Seq(Irq) /\ c \in Producer /\ Distinct(stack)
  BY Zenon, WthAssumption DEF SafeInv, SafeTypeOK, PlacesInv
<1>1. /\ stack # <<>> /\ c = stack[Len(stack)] /\ pc[c] = "end"
  BY Zenon, AtLemma DEF EnqueueEnd
<1>2. stack' = Popped(stack) /\ writers' = writers /\ pc' = [pc EXCEPT ![c] = "out"]
  BY Zenon DEF EnqueueEnd, Goto, safeVars
<1>3. pc'[c] = "out" /\ \A d \in Producer \ {c} : pc'[d] = pc[d]
  BY Zenon, <1>2, WthAssumption DEF PlacesInv, Task
<1>4. \A p \in Producer : (pc[p] = "write")' <=> IsWriting(p)'
  BY SMTT(60), <1>1, <1>2, <1>3 DEF NestInv, IsWriting
<1>5. \A i \in 1..Len(writers) : writers[i] # c
  BY Zenon, <1>0, <1>1 DEF NestInv, IsWriting
<1> DEFINE m == Len(stack)
<1>6. /\ m \in Nat /\ m > 0 /\ Len(stack') = m - 1
      /\ \A k \in 1..(m - 1) : stack'[k] = stack[k]
  BY <1>0, <1>1, <1>2, PoppedLemma
<1>7. ASSUME NEW a \in 1..Len(writers), NEW b \in 1..Len(writers), a < b
      PROVE  \E k \in 1..(m - 1) :
               stack'[k] = writers[b] /\ \A l \in k..(m - 1) : stack'[l] # writers[a]
  <2>1. PICK k \in 1..m : stack[k] = writers[b] /\ \A l \in k..m : stack[l] # writers[a]
    BY Zenon, <1>7 DEF NestInv, WritesNest
  <2>2. k # m
    BY Zenon, <1>1, <1>5, <2>1
  <2>3. k \in 1..(m - 1)
    BY SMTT(60), <1>6, <2>1, <2>2
  <2>. QED
    BY SMTT(60), <1>6, <2>1, <2>3
<1> HIDE DEF m
<1>8. WritesNest'
  BY SMTT(60), <1>2, <1>6, <1>7 DEF WritesNest
<1>. QED
  BY Zenon, <1>4, <1>8 DEF NestInv

(* Every step keeps the writes nested. *)
LEMMA NestStep ==
  ASSUME SafeInv, PlacesInv, NestInv, [WthNext]_wthVars
  PROVE  NestInv'
<1>0. /\ Irq \cup Client = Producer /\ Worker \notin Producer
      /\ pc \in [Irq \cup Task -> {"out"} \cup Enqueueing \cup Running \cup Waiting]
  BY Zenon, WthAssumption DEF PlacesInv
<1>1. ASSUME NEW c, NEW l, c \in Producer => pc[c] # "write" /\ l # "write",
             pc' = [pc EXCEPT ![c] = l], writers' = writers, stack' = stack
      PROVE  NestInv'
  <2>1. \A p \in Producer : pc'[p] = "write" <=> pc[p] = "write"
    BY Zenon, <1>0, <1>1 DEF Task
  <2>. QED
    BY Zenon, <1>1, <2>1, NestFrame
<1>2. ASSUME NEW c \in Producer, CheckWaiting(c) \/ WthWakeup(c) \/ WthWakeupCas(c)
      PROVE  NestInv'
  <2>1. PICK l \in {"wakeup", "cas", "end"} : pc' = [pc EXCEPT ![c] = l]
    BY Zenon, <1>2 DEF CheckWaiting, WthWakeup, WthWakeupCas, Goto
  <2>2. writers' = writers /\ stack' = stack /\ pc[c] # "write"
    BY Zenon, <1>2 DEF CheckWaiting, WthWakeup, WthWakeupCas, safeVars, cpuVars, At
  <2>. QED
    BY ZenonT(60), <1>1, <2>1, <2>2
<1>3. ASSUME NEW c \in Client, EnqueueEnd(c) PROVE NestInv'
  <2>1. c \notin Irq
    BY Zenon, WthAssumption
  <2>. QED
    BY ZenonT(60), <1>1, <1>3, <2>1 DEF EnqueueEnd, Goto, safeVars, cpuVars, At
<1>4. ASSUME WthRun \/ JobSleeps \/ JobIsWoken PROVE NestInv'
  <2>1. \E l : pc' = [pc EXCEPT ![Worker] = l]
    BY Zenon, <1>4 DEF WthRun, WthStart, RingRead, JobEnds, WthEmpty, WthLook, WthSignal, WthSchedule,
       JobSleeps, JobIsWoken, Goto
  <2>2. stack' = stack
    BY Zenon, <1>4 DEF WthRun, WthStart, RingRead, JobEnds, WthEmpty, WthLook, WthSignal, WthSchedule,
       JobSleeps, JobIsWoken, cpuVars
  <2>3. writers' = writers
    <3>1. CASE RingRead
      BY Zenon, <3>1 DEF RingRead, Read, SafeReadBegin, SafeReadLoad, SafeReadEmpty, SafeReadReload,
         SafeReadCopy, SafeReadCas
    <3>. QED
      BY Zenon, <1>4, <3>1 DEF WthRun, WthStart, JobEnds, WthEmpty, WthLook, WthSignal, WthSchedule,
         JobSleeps, JobIsWoken, safeVars
  <2>. QED
    BY ZenonT(60), <1>0, <1>1, <2>1, <2>2, <2>3
<1>5. ASSUME NEW c \in Client, CallWait(c) \/ WaitForCompletion(c) PROVE NestInv'
  <2>1. PICK l \in {"test", "out", "wait", "woken"} : pc' = [pc EXCEPT ![c] = l]
    BY Zenon, <1>5 DEF CallWait, WaitForCompletion, TestWaiting, KcondWait, KcondWoken, Goto
  <2>2. writers' = writers /\ stack' = stack /\ pc[c] # "write"
    BY Zenon, <1>5 DEF CallWait, WaitForCompletion, TestWaiting, KcondWait, KcondWoken, At, safeVars,
       cpuVars
  <2>. QED
    BY ZenonT(60), <1>1, <2>1, <2>2
<1>6. ASSUME NEW timeout \in BOOLEAN, NEW S \in SUBSET Client, TimerIrq(timeout, S)
      PROVE  NestInv'
  BY ZenonT(60), <1>6, NestFrame DEF TimerIrq, safeVars
<1>7. CASE UNCHANGED wthVars
  BY Zenon, <1>7, NestFrame DEF wthVars, safeVars, cpuVars
<1>. QED
  BY Zenon, <1>0, <1>2, <1>3, <1>4, <1>5, <1>6, <1>7, NestInterrupt, NestCall, NestWrite, NestReturn
     DEF WthNext, Enqueue

(* A handler or a task that has put no job into the empty ring moves on. *)
LEMMA WakeFrame ==
  ASSUME PlacesInv, WakeInv, NEW c \in Irq \cup Client, NEW l, pc' = [pc EXCEPT ![c] = l],
         l \notin {"wakeup", "cas"}, pc[c] \notin {"write", "check", "wakeup"},
         stat' = stat, waiting' = waiting, \A d \in Producer \ {c} : w'[d] = w[d],
         state[Worker] = "SLEEPING" /\ pc[Worker] = "blocked" => state'[Worker] = "SLEEPING"
  PROVE  WakeInv'
<1>1. /\ c # Worker /\ Worker \in Irq \cup Task /\ Irq \cup Client \subseteq Irq \cup Task
      /\ Irq \cup Client = Producer
  BY Zenon, WthAssumption DEF Task
<1>2. pc'[c] = l /\ \A d \in Irq \cup Task : d # c => pc'[d] = pc[d]
  BY Zenon, <1>1 DEF PlacesInv
<1>3. pc'[Worker] = pc[Worker]
  BY Zenon, <1>1, <1>2
<1>4. waiting' \in BOOLEAN /\ (pc'[Worker] = "blocked" => state'[Worker] = "SLEEPING")
  BY Zenon, <1>3 DEF WakeInv
<1>5. waiting' \/ (\E d \in Irq \cup Client : pc'[d] \in {"wakeup", "cas"}) =>
        pc'[Worker] \in {"start", "look", "signal", "schedule"}
  BY Zenon, <1>1, <1>2, <1>3 DEF WakeInv
<1>6. ASSUME waiting', ~IsEmpty(stat)
      PROVE  \E d \in Irq \cup Client :
               \/ pc'[d] = "write" /\ w'[d].pc = "store" /\ IsEmpty(w'[d].cs)
               \/ pc'[d] \in {"check", "wakeup"}
  <2>1. PICK d \in Irq \cup Client :
               \/ pc[d] = "write" /\ w[d].pc = "store" /\ IsEmpty(w[d].cs)
               \/ pc[d] \in {"check", "wakeup"}
    BY Zenon, <1>6 DEF WakeInv, Storing
  <2>2. d # c
    BY Zenon, <2>1
  <2>3. pc'[d] = pc[d] /\ w'[d] = w[d]
    BY Zenon, <1>1, <1>2, <2>2
  <2>. QED
    BY Zenon, <2>1, <2>3
<1>. QED
  BY Zenon, <1>4, <1>5, <1>6 DEF WakeInv, IsEmpty, Storing

(* The worker moves on: no handler is in progress, no task enqueues. *)
LEMMA WakeWorker ==
  ASSUME PlacesInv, NEW l, At(Worker, l), NEW k, pc' = [pc EXCEPT ![Worker] = k],
         waiting' \in BOOLEAN,
         waiting' => IsEmpty(stat) /\ stat' = stat /\ k \in {"start", "look", "signal", "schedule"},
         k = "blocked" => state'[Worker] = "SLEEPING"
  PROVE  WakeInv'
<1>1. /\ Worker \notin Irq \cup Client /\ Worker \in Irq \cup Task
      /\ Irq \cup Client \subseteq Irq \cup Task
  BY Zenon, WthAssumption DEF Task
<1>2. pc'[Worker] = k /\ \A d \in Irq \cup Client : pc'[d] = pc[d]
  BY Zenon, <1>1 DEF PlacesInv
<1>3. stack = <<>> /\ cur = Worker
  BY Zenon, <1>1, AtLemma
<1>4. \A d \in Irq \cup Client : pc[d] \notin {"wakeup", "cas"}
  BY Zenon, <1>1, <1>3, TaskRunsLemma DEF Enqueueing
<1>5. waiting' => ~(~IsEmpty(stat))'
  BY Zenon DEF IsEmpty
<1>. QED
  BY Zenon, <1>2, <1>4, <1>5 DEF WakeInv

(* While the worker is busy, the flag is not set. *)
LEMMA BusyLemma ==
  ASSUME PlacesInv, WakeInv, stack = <<>>, cur = Worker
  PROVE  /\ waiting \in BOOLEAN
         /\ waiting => IsEmpty(stat)
         /\ waiting => pc[Worker] \in {"start", "look", "signal", "schedule"}
<1>1. \A d \in Irq \cup Client : pc[d] \notin Enqueueing
  BY Zenon, TaskRunsLemma, WthAssumption
<1>. QED
  BY Zenon, <1>1 DEF WakeInv, Enqueueing

(* A job that is put into the empty ring will be seen by the one that puts *)
(* it there.                                                               *)
LEMMA WakeWrite ==
  ASSUME SafeInv, PlacesInv, NestInv, WakeInv, NEW c \in Irq \cup Client, RingWrite(c)
  PROVE  WakeInv'
<1>1. /\ c # Worker /\ c \in Producer /\ Worker \in Irq \cup Task
      /\ Irq \cup Client \subseteq Irq \cup Task /\ Irq \cup Client = Producer
  BY Zenon, WthAssumption DEF Task
<1>2. At(c, "write") /\ Write(c) /\ waiting' = waiting /\ state' = state
  BY Zenon DEF RingWrite, cpuVars
<1>3. writers # <<>> /\ writers[Len(writers)] = c
  BY Zenon, <1>1, <1>2, LastWriterLemma
<1>4. /\ \A d \in Producer \ {c} : w'[d] = w[d]
      /\ \/ stat' = stat
         \/ stat = w[c].cs /\ w[c].pc = "cas" /\ w'[c].pc = "store" /\ w'[c].cs = w[c].cs
      /\ w[c].pc = "store" => w'[c].pc = "out"
  BY Zenon, <1>1, <1>2, <1>3, WriteLemma
<1>5. \A d \in Irq \cup Task : d # c => pc'[d] = pc[d]
  BY Zenon DEF PlacesInv, RingWrite, Goto
<1>6. /\ pc'[c] \in {"write", "check", "end"}
      /\ w'[c].pc # "out" => pc'[c] = "write"
      /\ w'[c].pc = "out" /\ w[c].pc = "store" /\ IsEmpty(w[c].cs) => pc'[c] = "check"
  BY Zenon, <1>1 DEF PlacesInv, RingWrite, Goto
<1>7. pc'[Worker] = pc[Worker]
  BY Zenon, <1>1, <1>5
<1>8. waiting' \in BOOLEAN /\ (pc'[Worker] = "blocked" => state'[Worker] = "SLEEPING")
  BY Zenon, <1>2, <1>7 DEF WakeInv
<1>9. waiting' \/ (\E d \in Irq \cup Client : pc'[d] \in {"wakeup", "cas"}) =>
        pc'[Worker] \in {"start", "look", "signal", "schedule"}
  BY Zenon, <1>1, <1>2, <1>5, <1>6, <1>7 DEF WakeInv
<1>10. ASSUME waiting', ~IsEmpty(stat')
       PROVE  \E d \in Irq \cup Client :
                \/ pc'[d] = "write" /\ w'[d].pc = "store" /\ IsEmpty(w'[d].cs)
                \/ pc'[d] \in {"check", "wakeup"}
  <2>1. CASE IsEmpty(stat)
    <3>1. stat' # stat
      BY Zenon, <1>10, <2>1
    <3>2. w'[c].pc = "store" /\ IsEmpty(w'[c].cs)
      BY Zenon, <1>4, <2>1, <3>1
    <3>. QED
      BY Zenon, <1>6, <3>2
  <2>2. CASE ~IsEmpty(stat)
    <3>1. PICK d \in Irq \cup Client :
                 \/ pc[d] = "write" /\ w[d].pc = "store" /\ IsEmpty(w[d].cs)
                 \/ pc[d] \in {"check", "wakeup"}
      BY Zenon, <1>2, <1>10, <2>2 DEF WakeInv, Storing
    <3>2. CASE d # c
      BY Zenon, <1>1, <1>4, <1>5, <3>1, <3>2
    <3>3. CASE d = c
      <4>1. w[c].pc = "store" /\ IsEmpty(w[c].cs)
        BY Zenon, <1>2, <3>1, <3>3 DEF At
      <4>. QED
        BY Zenon, <1>4, <1>6, <4>1
    <3>. QED
      BY Zenon, <3>2, <3>3
  <2>. QED
    BY Zenon, <2>1, <2>2
<1>. QED
  BY Zenon, <1>8, <1>9, <1>10 DEF WakeInv, IsEmpty, Storing

(* The flag is looked at, and the worker woken up. *)
LEMMA WakeCheck ==
  ASSUME PlacesInv, WakeInv, NEW c \in Irq \cup Client, CheckWaiting(c)
  PROVE  WakeInv'
<1>1. /\ c # Worker /\ Worker \in Irq \cup Task /\ Irq \cup Client \subseteq Irq \cup Task
  BY Zenon, WthAssumption DEF Task
<1>2. /\ waiting' = waiting /\ stat' = stat /\ w' = w /\ state' = state
      /\ pc' = [pc EXCEPT ![c] = IF waiting THEN "wakeup" ELSE "end"]
  BY Zenon DEF CheckWaiting, Goto, safeVars, cpuVars
<1>3. /\ pc'[c] = (IF waiting THEN "wakeup" ELSE "end")
      /\ \A d \in Irq \cup Task : d # c => pc'[d] = pc[d]
  BY Zenon, <1>1, <1>2 DEF PlacesInv
<1>4. pc'[Worker] = pc[Worker]
  BY Zenon, <1>1, <1>3
<1>5. waiting' \in BOOLEAN /\ (pc'[Worker] = "blocked" => state'[Worker] = "SLEEPING")
  BY Zenon, <1>2, <1>4 DEF WakeInv
<1>6. waiting' \/ (\E d \in Irq \cup Client : pc'[d] \in {"wakeup", "cas"}) =>
        pc'[Worker] \in {"start", "look", "signal", "schedule"}
  BY <1>1, <1>2, <1>3, <1>4 DEF WakeInv
<1>7. waiting' => pc'[c] \in {"check", "wakeup"}
  BY Zenon, <1>2, <1>3
<1>. QED
  BY Zenon, <1>5, <1>6, <1>7 DEF WakeInv

(* wth_wakeup: the flag is reset, and the worker stays where it is. *)
LEMMA WakeWakeup ==
  ASSUME PlacesInv, WakeInv, NEW c \in Irq \cup Client, WthWakeup(c)
  PROVE  WakeInv'
<1>1. /\ c # Worker /\ Worker \in Irq \cup Task /\ Irq \cup Client \subseteq Irq \cup Task
  BY Zenon, WthAssumption DEF Task
<1>2. /\ waiting' = FALSE /\ pc' = [pc EXCEPT ![c] = "cas"] /\ pc[c] = "wakeup"
  BY Zenon DEF WthWakeup, Goto, At
<1>3. pc'[c] = "cas" /\ \A d \in Irq \cup Task : d # c => pc'[d] = pc[d]
  BY Zenon, <1>1, <1>2 DEF PlacesInv
<1>4. pc'[Worker] = pc[Worker] /\ pc[Worker] \in {"start", "look", "signal", "schedule"}
  BY Zenon, <1>1, <1>2, <1>3 DEF WakeInv
<1>. QED
  BY ZenonT(60), <1>2, <1>4 DEF WakeInv

(* The worker that is woken up waits for jobs, and for nothing else. *)
LEMMA WakeCas ==
  ASSUME PlacesInv, WakeInv, NEW c \in Irq \cup Client, WthWakeupCas(c)
  PROVE  WakeInv'
<1>1. /\ pc' = [pc EXCEPT ![c] = "end"] /\ pc[c] = "cas"
      /\ stat' = stat /\ waiting' = waiting /\ w' = w
  BY Zenon DEF WthWakeupCas, Goto, At, safeVars
<1>2. pc[Worker] # "blocked"
  BY Zenon, <1>1 DEF WakeInv
<1>. QED
  BY ZenonT(60), <1>1, <1>2, WakeFrame

(* Every step keeps the worker from missing a job. *)
LEMMA WakeStep ==
  ASSUME SafeInv, PlacesInv, NestInv, WakeInv, [WthNext]_wthVars
  PROVE  WakeInv'
<1> DEFINE St == {"RUNNABLE", "RUNNING", "SLEEPING"}
<1>0. /\ Irq \cup Client = Producer /\ Worker \notin Producer /\ Worker \in Task
      /\ Client \subseteq Task /\ state \in [Task -> St] /\ w \in [Producer -> Writer]
      /\ waiting \in BOOLEAN
  BY Zenon, WthAssumption DEF PlacesInv, Task, SafeInv, SafeTypeOK, WakeInv
<1>1. ASSUME NEW c \in Irq \cup Client, Interrupt(c) \/ CallEnqueue(c), pc[c] = "out"
      PROVE  WakeInv'
  <2>1. /\ \E j : SafeWriteBegin(c, j) /\ pc' = [pc EXCEPT ![c] = "write"]
        /\ waiting' = waiting /\ state' = state
    BY Zenon, <1>1 DEF Interrupt, CallEnqueue, Goto, cpuVars
  <2>2. stat' = stat /\ \A d \in Producer \ {c} : w'[d] = w[d]
    BY Zenon, <1>0, <2>1 DEF SafeWriteBegin
  <2>. QED
    BY ZenonT(60), <1>1, <2>1, <2>2, WakeFrame
<1>2. ASSUME NEW i \in Irq, Interrupt(i) PROVE WakeInv'
  <2>1. pc[i] = "out"
    BY Zenon, <1>2 DEF PlacesInv, Interrupt
  <2>. QED
    BY Zenon, <1>1, <1>2, <2>1
<1>3. ASSUME NEW c \in Client, CallEnqueue(c) PROVE WakeInv'
  BY Zenon, <1>1, <1>3 DEF CallEnqueue, At
<1>4. ASSUME NEW c \in Irq \cup Client, EnqueueEnd(c) PROVE WakeInv'
  <2>1. /\ pc' = [pc EXCEPT ![c] = "out"] /\ pc[c] = "end"
        /\ stat' = stat /\ waiting' = waiting /\ w' = w
    BY Zenon, <1>4 DEF EnqueueEnd, Goto, At, safeVars
  <2>2. state[Worker] = "SLEEPING" => state'[Worker] = "SLEEPING"
    BY Zenon, <1>0, <1>4, IrqExitLemma DEF EnqueueEnd, cpuVars
  <2>. QED
    BY ZenonT(60), <2>1, <2>2, WakeFrame
<1>5. ASSUME NEW c \in Client, CallWait(c) \/ WaitForCompletion(c) PROVE WakeInv'
  <2>1. PICK l \in {"test", "out", "wait", "woken"} : pc' = [pc EXCEPT ![c] = l]
    BY Zenon, <1>5 DEF CallWait, WaitForCompletion, TestWaiting, KcondWait, KcondWoken, Goto
  <2>2. /\ stat' = stat /\ waiting' = waiting /\ w' = w
        /\ pc[c] \in {"test", "out", "wait", "woken"}
    BY Zenon, <1>5 DEF CallWait, WaitForCompletion, TestWaiting, KcondWait, KcondWoken, At, safeVars
  <2>3. state[Worker] = "SLEEPING" => state'[Worker] = "SLEEPING"
    <3>1. CASE KcondWait(c)
      <4>1. [state EXCEPT ![c] = "SLEEPING"] \in [Task -> St]
        BY Zenon, <1>0
      <4>2. [state EXCEPT ![c] = "SLEEPING"][Worker] = state[Worker]
        BY Zenon, <1>0
      <4>3. DoSchedule([state EXCEPT ![c] = "SLEEPING"])
        BY Zenon, <3>1 DEF KcondWait
      <4>. QED
        BY ZenonT(60), <4>1, <4>2, <4>3, ScheduleLemma
    <3>. QED
      BY Zenon, <1>5, <3>1 DEF CallWait, WaitForCompletion, TestWaiting, KcondWoken, cpuVars
  <2>. QED
    BY ZenonT(60), <2>1, <2>2, <2>3, WakeFrame
<1>6. ASSUME NEW timeout \in BOOLEAN, NEW S \in SUBSET Client, TimerIrq(timeout, S)
      PROVE  WakeInv'
  <2> DEFINE st == [t \in Task |-> IF t \in S THEN "RUNNABLE" ELSE state[t]]
             r == needResched \/ state[cur] # "RUNNING" \/ (timeout /\ cur # Worker) \/ S # {}
  <2>1. IrqExit(stack, st, r) /\ pc' = pc /\ waiting' = waiting /\ stat' = stat /\ w' = w
    BY Zenon, <1>6 DEF TimerIrq, safeVars
  <2>2. st \in [Task -> St] /\ st[Worker] = state[Worker]
    BY Zenon, <1>0
  <2> HIDE DEF st, r
  <2>3. state[Worker] = "SLEEPING" => state'[Worker] = "SLEEPING"
    BY Zenon, <2>1, <2>2, IrqExitLemma
  <2>. QED
    BY Zenon, <2>1, <2>3 DEF WakeInv, IsEmpty, Storing
<1>7. ASSUME NEW l, At(Worker, l) PROVE stack = <<>> /\ cur = Worker /\ pc[Worker] = l
  BY Zenon, <1>0, <1>7, AtLemma
<1>8. ASSUME NEW l, At(Worker, l) PROVE
        /\ waiting => IsEmpty(stat) /\ l \in {"start", "look", "signal", "schedule"}
  BY Zenon, <1>7, <1>8, BusyLemma
<1>9. CASE WthStart
  BY ZenonT(60), <1>9, WakeWorker DEF WthStart, Goto
<1>10. CASE RingRead \/ JobEnds
  <2>1. PICK l \in {"read", "job"}, k \in {"read", "job", "empty"} :
          At(Worker, l) /\ pc' = [pc EXCEPT ![Worker] = k]
    BY Zenon, <1>10 DEF RingRead, JobEnds, Goto
  <2>2. waiting' = waiting /\ ~waiting
    BY Zenon, <1>8, <1>10, <2>1 DEF RingRead, JobEnds
  <2>. QED
    BY ZenonT(60), <1>0, <2>1, <2>2, WakeWorker
<1>11. CASE WthEmpty
  <2>1. At(Worker, "empty") /\ pc' = [pc EXCEPT ![Worker] = "look"] /\ stat' = stat
    BY Zenon, <1>11 DEF WthEmpty, Goto, safeVars
  <2>2. waiting' \in BOOLEAN /\ (waiting' => IsEmpty(stat))
    BY ZenonT(60), <1>0, <1>8, <1>11, <2>1 DEF WthEmpty
  <2>. QED
    BY ZenonT(60), <2>1, <2>2, WakeWorker
<1>12. CASE WthLook \/ WthSignal \/ WthSchedule
  <2>1. PICK l, k \in {"start", "look", "signal", "schedule"} :
          At(Worker, l) /\ pc' = [pc EXCEPT ![Worker] = k]
    BY Zenon, <1>12 DEF WthLook, WthSignal, WthSchedule, Goto
  <2>2. waiting' = waiting /\ stat' = stat
    BY Zenon, <1>12 DEF WthLook, WthSignal, WthSchedule, safeVars
  <2>3. waiting => IsEmpty(stat)
    BY Zenon, <1>8, <2>1
  <2>. QED
    BY ZenonT(60), <1>0, <2>1, <2>2, <2>3, WakeWorker
<1>13. CASE JobSleeps
  <2>1. At(Worker, "job") /\ pc' = [pc EXCEPT ![Worker] = "blocked"] /\ waiting' = waiting
    BY Zenon, <1>13 DEF JobSleeps, Goto
  <2>2. ~waiting
    BY SMTT(60), <1>8, <2>1
  <2> DEFINE st == [state EXCEPT ![Worker] = "SLEEPING"]
  <2>3. st \in [Task -> St] /\ st[Worker] = "SLEEPING"
    BY Zenon, <1>0
  <2>4. DoSchedule(st)
    BY Zenon, <1>13 DEF JobSleeps
  <2> HIDE DEF st
  <2>5. state'[Worker] = "SLEEPING"
    BY Zenon, <2>3, <2>4, ScheduleLemma
  <2>. QED
    BY ZenonT(60), <1>0, <2>1, <2>2, <2>5, WakeWorker
<1>14. CASE JobIsWoken
  <2>1. pc[Worker] = "blocked" /\ pc' = [pc EXCEPT ![Worker] = "job"] /\ waiting' = waiting
    BY Zenon, <1>14 DEF JobIsWoken, Goto
  <2>2. ~waiting /\ \A d \in Irq \cup Client : pc[d] \notin {"wakeup", "cas"}
    BY Zenon, <2>1 DEF WakeInv
  <2>3. pc'[Worker] = "job" /\ \A d \in Irq \cup Client : pc'[d] = pc[d]
    BY Zenon, <1>0, <2>1 DEF PlacesInv, Task
  <2>. QED
    BY Zenon, <1>0, <2>1, <2>2, <2>3 DEF WakeInv
<1>15. CASE UNCHANGED wthVars
  BY Zenon, <1>15 DEF wthVars, safeVars, cpuVars, WakeInv, IsEmpty, Storing
<1>. QED
  BY SMTT(60), <1>2, <1>3, <1>4, <1>5, <1>6, <1>9, <1>10, <1>11, <1>12, <1>13, <1>14, <1>15,
     WakeWrite, WakeCheck, WakeWakeup, WakeCas DEF WthNext, Enqueue, WthRun

(* A handler or a task that is not about to wake the worker up moves on. *)
LEMMA AsleepFrame ==
  ASSUME PlacesInv, AsleepInv, NEW c \in Irq \cup Client, NEW l, pc' = [pc EXCEPT ![c] = l],
         pc[c] # "cas", waiting' = waiting,
         state'[Worker] = "SLEEPING" => state[Worker] = "SLEEPING",
         cur' = Worker /\ state'[Worker] = "SLEEPING" => cur = Worker
  PROVE  AsleepInv'
<1>1. /\ c # Worker /\ Worker \in Irq \cup Task /\ Irq \cup Client \subseteq Irq \cup Task
  BY Zenon, WthAssumption DEF Task
<1>2. \A d \in Irq \cup Task : d # c => pc'[d] = pc[d]
  BY Zenon, <1>1 DEF PlacesInv
<1>3. pc'[Worker] = pc[Worker]
  BY Zenon, <1>1, <1>2
<1>4. \A d \in Irq \cup Client : pc[d] = "cas" => pc'[d] = "cas"
  BY Zenon, <1>1, <1>2
<1>. QED
  BY Zenon, <1>3, <1>4 DEF AsleepInv, Asleep

(* The worker moves on: when it is to sleep, it has set the flag. *)
LEMMA AsleepWorker ==
  ASSUME PlacesInv, NEW k, pc' = [pc EXCEPT ![Worker] = k],
         state'[Worker] = "SLEEPING" => waiting' \/ k = "blocked",
         cur' = Worker /\ k = "start" => state'[Worker] # "SLEEPING"
  PROVE  AsleepInv'
<1>1. pc'[Worker] = k
  BY Zenon, WthAssumption DEF PlacesInv, Task
<1>. QED
  BY Zenon, <1>1 DEF AsleepInv, Asleep

(* While the worker runs, nobody is about to wake it up. *)
LEMMA AwakeLemma ==
  ASSUME PlacesInv, WakeInv, AsleepInv, NEW l, At(Worker, l), l # "blocked"
  PROVE  /\ state[Worker] = "SLEEPING" => waiting
         /\ l \in {"start", "read", "job", "empty"} => state[Worker] # "SLEEPING"
<1>1. stack = <<>> /\ cur = Worker /\ pc[Worker] = l
  BY Zenon, AtLemma, WthAssumption DEF Task
<1>2. \A d \in Irq \cup Client : pc[d] # "cas"
  BY Zenon, <1>1, TaskRunsLemma, WthAssumption DEF Enqueueing
<1>3. state[Worker] = "SLEEPING" => waiting
  BY Zenon, <1>1, <1>2 DEF AsleepInv, Asleep
<1>4. waiting => l \in {"start", "look", "signal", "schedule"}
  BY Zenon, <1>1 DEF WakeInv
<1>5. l = "start" => state[Worker] # "SLEEPING"
  BY Zenon, <1>1 DEF AsleepInv
<1>. QED
  BY Zenon, <1>3, <1>4, <1>5

(* Every step keeps a sleeping worker waiting for jobs, or somebody at the *)
(* point of waking it up.                                                  *)
LEMMA AsleepStep ==
  ASSUME PlacesInv, WakeInv, AsleepInv, [WthNext]_wthVars
  PROVE  AsleepInv'
<1> DEFINE St == {"RUNNABLE", "RUNNING", "SLEEPING"}
<1>0. /\ Worker \notin Irq \cup Client /\ Worker \in Task /\ Client \subseteq Task
      /\ Irq \cup Client \subseteq Irq \cup Task /\ state \in [Task -> St]
  BY Zenon, WthAssumption DEF PlacesInv, Task
<1>1. ASSUME NEW c \in Irq \cup Client, pc[c] # "cas",
             Interrupt(c) \/ CallEnqueue(c) \/ RingWrite(c) \/ CheckWaiting(c)
      PROVE  AsleepInv'
  <2>1. PICK l : pc' = [pc EXCEPT ![c] = l]
    BY Zenon, <1>1 DEF Interrupt, CallEnqueue, RingWrite, CheckWaiting, Goto
  <2>2. waiting' = waiting /\ state' = state /\ cur' = cur
    BY Zenon, <1>1 DEF Interrupt, CallEnqueue, RingWrite, CheckWaiting, cpuVars
  <2>. QED
    BY ZenonT(60), <1>1, <2>1, <2>2, AsleepFrame
<1>2. ASSUME NEW i \in Irq, Interrupt(i) PROVE AsleepInv'
  <2>1. pc[i] = "out"
    BY Zenon, <1>2 DEF PlacesInv, Interrupt
  <2>. QED
    BY Zenon, <1>1, <1>2, <2>1
<1>3. ASSUME NEW c \in Irq \cup Client, CallEnqueue(c) \/ RingWrite(c) \/ CheckWaiting(c)
      PROVE  AsleepInv'
  <2>1. pc[c] # "cas"
    BY Zenon, <1>3 DEF CallEnqueue, RingWrite, CheckWaiting, At
  <2>. QED
    BY Zenon, <1>1, <1>3, <2>1
<1>4. ASSUME NEW c \in Irq \cup Client, WthWakeup(c) PROVE AsleepInv'
  <2>1. pc' = [pc EXCEPT ![c] = "cas"] /\ state' = state /\ cur' = cur
    BY Zenon, <1>4 DEF WthWakeup, Goto, cpuVars
  <2>2. pc'[c] = "cas" /\ pc'[Worker] = pc[Worker]
    BY Zenon, <1>0, <2>1 DEF PlacesInv
  <2>. QED
    BY Zenon, <2>1, <2>2 DEF AsleepInv
<1>5. ASSUME NEW c \in Irq \cup Client, WthWakeupCas(c) PROVE AsleepInv'
  <2>1. state'[Worker] # "SLEEPING"
    BY Zenon, <1>0, <1>5 DEF WthWakeupCas
  <2>. QED
    BY Zenon, <2>1 DEF AsleepInv, Asleep
<1>6. ASSUME NEW c \in Irq \cup Client, EnqueueEnd(c) PROVE AsleepInv'
  <2>1. pc' = [pc EXCEPT ![c] = "out"] /\ pc[c] = "end" /\ waiting' = waiting
    BY Zenon, <1>6 DEF EnqueueEnd, Goto, At
  <2>2. /\ state'[Worker] = "SLEEPING" => state[Worker] = "SLEEPING"
        /\ cur' = Worker /\ state'[Worker] = "SLEEPING" => cur = Worker
    BY Zenon, <1>0, <1>6, IrqExitLemma DEF EnqueueEnd, cpuVars
  <2>. QED
    BY ZenonT(60), <2>1, <2>2, AsleepFrame
<1>7. ASSUME NEW c \in Client, CallWait(c) \/ WaitForCompletion(c) PROVE AsleepInv'
  <2>1. PICK l : pc' = [pc EXCEPT ![c] = l]
    BY Zenon, <1>7 DEF CallWait, WaitForCompletion, TestWaiting, KcondWait, KcondWoken, Goto
  <2>2. waiting' = waiting /\ pc[c] # "cas"
    BY Zenon, <1>7 DEF CallWait, WaitForCompletion, TestWaiting, KcondWait, KcondWoken, At
  <2>3. /\ state'[Worker] = "SLEEPING" => state[Worker] = "SLEEPING"
        /\ cur' = Worker /\ state'[Worker] = "SLEEPING" => cur = Worker
    <3>1. CASE KcondWait(c)
      <4> DEFINE st == [state EXCEPT ![c] = "SLEEPING"]
      <4>1. st \in [Task -> St] /\ st[Worker] = state[Worker]
        BY Zenon, <1>0
      <4>2. DoSchedule(st)
        BY Zenon, <3>1 DEF KcondWait
      <4> HIDE DEF st
      <4>. QED
        BY ZenonT(60), <4>1, <4>2, ScheduleLemma
    <3>. QED
      BY Zenon, <1>7, <3>1 DEF CallWait, WaitForCompletion, TestWaiting, KcondWoken, cpuVars
  <2>. QED
    BY ZenonT(60), <2>1, <2>2, <2>3, AsleepFrame
<1>8. ASSUME NEW timeout \in BOOLEAN, NEW S \in SUBSET Client, TimerIrq(timeout, S)
      PROVE  AsleepInv'
  <2> DEFINE st == [t \in Task |-> IF t \in S THEN "RUNNABLE" ELSE state[t]]
             r == needResched \/ state[cur] # "RUNNING" \/ (timeout /\ cur # Worker) \/ S # {}
  <2>1. IrqExit(stack, st, r) /\ pc' = pc /\ waiting' = waiting
    BY Zenon, <1>8 DEF TimerIrq
  <2>2. st \in [Task -> St] /\ st[Worker] = state[Worker]
    BY Zenon, <1>0
  <2> HIDE DEF st, r
  <2>3. /\ state'[Worker] = "SLEEPING" => state[Worker] = "SLEEPING"
        /\ cur' = Worker /\ state'[Worker] = "SLEEPING" => cur = Worker
    BY Zenon, <2>1, <2>2, IrqExitLemma
  <2>. QED
    BY Zenon, <2>1, <2>3 DEF AsleepInv, Asleep
<1>9. CASE WthStart \/ RingRead \/ JobEnds
  <2>1. PICK l \in {"start", "read", "job"} : At(Worker, l)
    BY Zenon, <1>9 DEF WthStart, RingRead, JobEnds
  <2>2. PICK k : pc' = [pc EXCEPT ![Worker] = k]
    BY Zenon, <1>9 DEF WthStart, RingRead, JobEnds, Goto
  <2>3. state' = state
    BY Zenon, <1>9 DEF WthStart, RingRead, JobEnds, cpuVars
  <2>4. state[Worker] # "SLEEPING"
    BY ZenonT(60), <2>1, AwakeLemma
  <2>. QED
    BY ZenonT(60), <2>2, <2>3, <2>4, AsleepWorker
<1>10. CASE WthEmpty
  <2>1. At(Worker, "empty") /\ pc' = [pc EXCEPT ![Worker] = "look"]
    BY Zenon, <1>10 DEF WthEmpty, Goto
  <2>2. state[Worker] # "SLEEPING"
    BY ZenonT(60), <2>1, AwakeLemma
  <2>3. state' = state \/ waiting'
    BY Zenon, <1>10 DEF WthEmpty
  <2>. QED
    BY ZenonT(60), <2>1, <2>2, <2>3, AsleepWorker
<1>11. CASE WthLook
  <2>1. At(Worker, "look") /\ pc' = [pc EXCEPT ![Worker] = IF waiting THEN "signal" ELSE "start"]
    BY Zenon, <1>11 DEF WthLook, Goto
  <2>2. state[Worker] = "SLEEPING" => waiting
    BY ZenonT(60), <2>1, AwakeLemma
  <2>3. state' = state /\ waiting' = waiting
    BY Zenon, <1>11 DEF WthLook, cpuVars
  <2>. QED
    BY ZenonT(60), <2>1, <2>2, <2>3, AsleepWorker
<1>12. CASE WthSignal
  <2>1. At(Worker, "signal") /\ pc' = [pc EXCEPT ![Worker] = "schedule"] /\ waiting' = waiting
    BY Zenon, <1>12 DEF WthSignal, Goto
  <2>2. state[Worker] = "SLEEPING" => waiting
    BY ZenonT(60), <2>1, AwakeLemma
  <2>3. state'[Worker] = "SLEEPING" => state[Worker] = "SLEEPING"
    BY Zenon, <1>0, <1>12 DEF WthSignal
  <2>. QED
    BY ZenonT(60), <2>1, <2>2, <2>3, AsleepWorker
<1>13. CASE WthSchedule
  <2>1. At(Worker, "schedule") /\ pc' = [pc EXCEPT ![Worker] = "start"] /\ waiting' = waiting
    BY Zenon, <1>13 DEF WthSchedule, Goto
  <2>2. state[Worker] = "SLEEPING" => waiting
    BY ZenonT(60), <2>1, AwakeLemma
  <2>3. /\ state'[Worker] = "SLEEPING" => state[Worker] = "SLEEPING"
        /\ cur' = Worker => state'[Worker] # "SLEEPING"
    BY Zenon, <1>0, <1>13, ScheduleLemma DEF WthSchedule
  <2>. QED
    BY ZenonT(60), <2>1, <2>2, <2>3, AsleepWorker
<1>14. CASE JobSleeps
  BY ZenonT(60), <1>14, AsleepWorker DEF JobSleeps, Goto
<1>15. CASE JobIsWoken
  <2>1. pc' = [pc EXCEPT ![Worker] = "job"] /\ state'[Worker] = "RUNNABLE"
    BY Zenon, <1>0, <1>15 DEF JobIsWoken, Goto
  <2>. QED
    BY ZenonT(60), <2>1, AsleepWorker
<1>16. CASE UNCHANGED wthVars
  BY Zenon, <1>16 DEF wthVars, cpuVars, AsleepInv, Asleep
<1>. QED
  BY SMTT(60), <1>2, <1>3, <1>4, <1>5, <1>6, <1>7, <1>8, <1>9, <1>10, <1>11, <1>12, <1>13, <1>14,
     <1>15, <1>16 DEF WthNext, Enqueue, WthRun

(* A step of one context leaves the place of the others alone. *)
LEMMA OthersStay ==
  ASSUME PlacesInv, [WthNext]_wthVars, NEW c \in Client, pc[c] = "test", pc'[c] = "out"
  PROVE  stack = <<>> /\ cur = c /\ waiting
<1>0. /\ c # Worker /\ c \notin Irq /\ c \in Irq \cup Task
      /\ pc \in [Irq \cup Task -> {"out"} \cup Enqueueing \cup Running \cup Waiting]
  BY Zenon, WthAssumption DEF PlacesInv, Task
<1>1. ASSUME NEW d, NEW l, pc' = [pc EXCEPT ![d] = l] PROVE d = c /\ l = "out"
  BY Zenon, <1>0, <1>1
<1>2. ASSUME NEW d \in Irq \cup Client, Interrupt(d) \/ CallEnqueue(d) \/ CallWait(d) PROVE FALSE
  BY ZenonT(60), <1>1, <1>2 DEF Interrupt, CallEnqueue, CallWait, Goto
<1>3. ASSUME NEW d \in Irq \cup Client, Enqueue(d) PROVE FALSE
  <2>1. d = c
    BY SMTT(60), <1>1, <1>3 DEF Enqueue, RingWrite, CheckWaiting, WthWakeup, WthWakeupCas, EnqueueEnd, Goto
  <2>. QED
    BY ZenonT(60), <1>3, <2>1 DEF Enqueue, RingWrite, CheckWaiting, WthWakeup, WthWakeupCas, EnqueueEnd, At
<1>4. ~(WthRun \/ JobSleeps \/ JobIsWoken)
  BY Zenon, <1>0, <1>1 DEF WthRun, WthStart, RingRead, JobEnds, WthEmpty, WthLook, WthSignal, WthSchedule,
     JobSleeps, JobIsWoken, Goto
<1>5. ASSUME NEW d \in Client, WaitForCompletion(d) PROVE stack = <<>> /\ cur = c /\ waiting
  <2>1. d = c
    BY ZenonT(60), <1>1, <1>5 DEF WaitForCompletion, TestWaiting, KcondWait, KcondWoken, Goto
  <2>2. TestWaiting(c)
    BY ZenonT(60), <1>5, <2>1 DEF WaitForCompletion, KcondWait, KcondWoken, At
  <2>3. waiting
    BY SMTT(60), <1>1, <2>2 DEF TestWaiting, Goto
  <2>4. stack = <<>> /\ cur = c
    BY Zenon, <1>0, <2>2, AtLemma DEF TestWaiting
  <2>. QED
    BY Zenon, <2>3, <2>4
<1>6. ASSUME NEW timeout \in BOOLEAN, NEW S \in SUBSET Client, TimerIrq(timeout, S) PROVE FALSE
  BY Zenon, <1>6 DEF TimerIrq
<1>7. ~UNCHANGED wthVars
  BY Zenon DEF wthVars
<1>. QED
  BY Zenon, <1>2, <1>3, <1>4, <1>5, <1>6, <1>7 DEF WthNext

(* The worker thread starts with nothing to do. *)
LEMMA WthInitInv == WthInit => WthInv
<1> SUFFICES ASSUME WthInit PROVE WthInv
  BY Zenon
<1>1. SafeInv
  BY Zenon, SafeInitInv DEF WthInit
<1>2. \A x : pc[x] # "write" \/ x \notin Irq \cup Task
  BY Zenon DEF WthInit
<1>3. writers = <<>> /\ stack = <<>> /\ waiting = FALSE
  BY Zenon DEF WthInit, SafeInit
<1>4. PlacesInv
  <2>1. stack \in Seq(Irq) /\ Distinct(stack) /\ \A i : ~InList(stack, i)
    BY SMTT(60), <1>3 DEF Distinct, InList
  <2>2. pc \in [Irq \cup Task -> {"out"} \cup Enqueueing \cup Running \cup Waiting]
    BY Zenon DEF WthInit, Running
  <2>3. pc[Worker] = "start" /\ pc[Idle] = "out" /\ \A c \in Irq \cup Client : pc[c] = "out"
    BY Zenon, WthAssumption DEF WthInit, Task
  <2>4. cur \in Task /\ state \in [Task -> {"RUNNABLE", "RUNNING", "SLEEPING"}]
    BY Zenon DEF WthInit, Task
  <2>. QED
    BY Zenon, <2>1, <2>2, <2>3, <2>4 DEF PlacesInv, Enqueueing, Running
<1>5. NestInv
  <2>1. Len(writers) = 0
    BY Zenon, <1>3
  <2>2. \A p \in Producer : pc[p] # "write"
    BY Zenon, <1>2, WthAssumption DEF Task
  <2>. QED
    BY SMTT(60), <2>1, <2>2 DEF NestInv, WritesNest, IsWriting
<1>6. WakeInv
  <2>1. pc[Worker] = "start" /\ \A c \in Irq \cup Client : pc[c] = "out"
    BY Zenon, WthAssumption DEF WthInit, Task
  <2>. QED
    BY ZenonT(60), <1>3, <2>1 DEF WakeInv
<1>7. AsleepInv
  <2>1. state[Worker] = "RUNNABLE"
    BY Zenon, WthAssumption DEF WthInit, Task
  <2>. QED
    BY Zenon, <2>1 DEF AsleepInv, Asleep
<1>. QED
  BY Zenon, <1>1, <1>4, <1>5, <1>6, <1>7 DEF WthInv

(* The invariant is inductive. *)
LEMMA WthStep == WthInv /\ [WthNext]_wthVars => WthInv'
<1> SUFFICES ASSUME WthInv, [WthNext]_wthVars PROVE WthInv'
  BY Zenon
<1>0. SafeInv /\ PlacesInv /\ NestInv /\ WakeInv /\ AsleepInv
  BY Zenon DEF WthInv
<1>1. [SafeNext]_safeVars
  BY Zenon, <1>0, RingStepLemma
<1>2. SafeInv'
  BY Zenon, <1>0, <1>1, SafeStep
<1>. QED
  BY Zenon, <1>0, <1>2, PlacesStep, NestStep, WakeStep, AsleepStep DEF WthInv

(* The ring is empty when its word says so. *)
LEMMA EmptyRingLemma ==
  ASSUME SafeInv
  PROVE  Jobs = <<>> <=> IsEmpty(stat)
<1>1. stat \in Stat /\ Good(stat) /\ MaxJobs \in Nat /\ MaxJobs > 0
  BY SMTT(60), SafeRingAssumption DEF SafeInv, SafeTypeOK
<1>2. stat.rd \in 0..(MaxJobs - 1) /\ stat.wr \in 0..(MaxJobs - 1) /\ stat.full \in BOOLEAN
  BY Zenon, <1>1 DEF Stat, RingIndex
<1>3. Count(stat) = 0 <=> IsEmpty(stat)
  BY SMTT(60), <1>1, <1>2 DEF Count, IsEmpty, Good
<1>4. Jobs \in Seq(Job \cup {NoJob}) /\ Len(Jobs) = Count(stat)
  BY Zenon, JobsLemma DEF JobsFacts
<1>. QED
  BY SMTT(60), <1>3, <1>4

(* The invariant holds throughout. *)
THEOREM WthInvariance == WthSpec => []WthInv
BY WthInitInv, WthStep, PTL DEF WthSpec

(***************************************************************************)
(* Any number of IRQ handlers and tasks that enqueue jobs, interrupt each  *)
(* other and the worker, use the ring as safe_ringbuf.h asks for: a write  *)
(* is continued by the one that began last, and nobody reads while a write *)
(* is interrupted.  What is proved of the ring holds in the worker thread. *)
(***************************************************************************)
THEOREM WthUsesRing == WthSpec => RingIsUsedAsDocumented
<1>1. WthInit => SafeInit
  BY Zenon DEF WthInit
<1>2. WthInv /\ [WthNext]_wthVars => [SafeNext]_safeVars
  BY Zenon, RingStepLemma DEF WthInv
<1>. QED
  BY <1>1, <1>2, WthInvariance, PTL DEF WthSpec, RingIsUsedAsDocumented, SafeSpec

(* The jobs that are given to the worker form a queue. *)
THEOREM WthJobsAreQueued == WthSpec => JobsAreQueued
BY WthUsesRing, SafeRingIsQueue, PTL DEF RingIsUsedAsDocumented

(***************************************************************************)
(* While a job is in the ring of a worker that sleeps, a producer is still *)
(* there that will wake the worker up: the wakeup is not lost between the  *)
(* look at the ring and the sleep, whoever interrupts whom.                *)
(***************************************************************************)
THEOREM WthNoJobForgotten == WthSpec => []NoJobForgotten
<1>1. WthInv => NoJobForgotten
  <2> SUFFICES ASSUME WthInv, Jobs # <<>>, Asleep
               PROVE  \E c \in Irq \cup Client : pc[c] \in {"write", "check", "wakeup", "cas"}
    BY Zenon DEF NoJobForgotten
  <2>1. ~IsEmpty(stat)
    BY Zenon, EmptyRingLemma DEF WthInv
  <2>2. waiting \/ \E c \in Irq \cup Client : pc[c] = "cas"
    BY Zenon DEF WthInv, AsleepInv
  <2>. QED
    BY Zenon, <2>1, <2>2 DEF WthInv, WakeInv
<1>. QED
  BY <1>1, WthInvariance, PTL

(***************************************************************************)
(* When wth_wait_for_completion returns, the ring is empty and no job is   *)
(* running, although it reads waiting_for_jobs without a lock.             *)
(***************************************************************************)
THEOREM WthCompletionIsReal == WthSpec => CompletionIsReal
<1>1. ASSUME WthInv, [WthNext]_wthVars, NEW c \in Client, pc[c] = "test", pc'[c] = "out"
      PROVE  Jobs = <<>> /\ pc[Worker] \notin {"job", "blocked"}
  <2>0. SafeInv /\ PlacesInv /\ WakeInv
    BY Zenon, <1>1 DEF WthInv
  <2>1. stack = <<>> /\ cur = c /\ waiting
    BY Zenon, <1>1, <2>0, OthersStay
  <2>2. pc[Worker] \notin {"job", "blocked"}
    BY Zenon, <2>0, <2>1 DEF WakeInv
  <2>3. \A d \in Irq \cup Client : pc[d] \notin Enqueueing
    <3>1. "test" \notin Enqueueing
      BY Zenon DEF Enqueueing
    <3>. QED
      BY Zenon, <1>1, <2>0, <2>1, <3>1, TaskRunsLemma
  <2>4. IsEmpty(stat)
    BY Zenon, <2>0, <2>1, <2>3 DEF WakeInv, Enqueueing
  <2>. QED
    BY Zenon, <2>0, <2>2, <2>4, EmptyRingLemma
<1> DEFINE A == \A c \in Client :
                  pc[c] = "test" /\ pc'[c] = "out" =>
                    Jobs = <<>> /\ pc[Worker] \notin {"job", "blocked"}
<1>2. WthInv /\ [WthNext]_wthVars => [A]_wthVars
  BY Zenon, <1>1
<1> HIDE DEF A
<1>3. WthSpec => [][A]_wthVars
  BY <1>2, WthInvariance, PTL DEF WthSpec
<1>. QED
  BY Zenon, <1>3 DEF CompletionIsReal, A

(***************************************************************************)
(* A job that sleeps for a reason of its own is not woken up by the        *)
(* arrival of another job: wth_wakeup is called only while the worker      *)
(* itself waits for jobs, also when the call is delayed by other handlers. *)
(***************************************************************************)
THEOREM WthJobSleepsUndisturbed == WthSpec => JobSleepsUndisturbed
<1> DEFINE A == pc[Worker] = "blocked" /\ pc'[Worker] = "blocked" => state'[Worker] = "SLEEPING"
<1>1. WthInv' => A
  BY Zenon DEF WthInv, WakeInv
<1>2. WthInv /\ [WthNext]_wthVars => [A]_wthVars
  BY Zenon, <1>1, WthStep
<1> HIDE DEF A
<1>3. WthSpec => [][A]_wthVars
  BY <1>2, WthInvariance, PTL DEF WthSpec
<1>. QED
  BY Zenon, <1>3 DEF JobSleepsUndisturbed, A
=============================================================================
