---------------------------- MODULE RingsProofs ----------------------------
(***************************************************************************)
(* Proofs about the two ring buffers, for any size.  The lock-free one is  *)
(* a queue of jobs, for any number of producers that interrupt each other  *)
(* and the consumer; the plain one holds a queue of bytes.                 *)
(***************************************************************************)
EXTENDS RingBuf, SafeRingBuf, Integers, TLAPS

(* Two sequences with the same elements in the same places. *)
LEMMA SameElements ==
  ASSUME NEW S, NEW q \in Seq(S), NEW r \in Seq(S), Len(q) = Len(r),
         \A k \in 1..Len(q) : q[k] = r[k]
  PROVE  q = r
OBVIOUS

-----------------------------------------------------------------------------
(* safe_ringbuf. *)

(* The next position. *)
LEMMA SuccLemma ==
  ASSUME NEW i \in RingIndex
  PROVE  Succ(i) = WrapJob(i + 1) /\ Succ(i) \in RingIndex
<1>1. CASE i + 1 < MaxJobs
  BY <1>1, SafeRingAssumption DEF Succ, WrapJob, RingIndex
<1>2. CASE i + 1 = MaxJobs
  <2>1. MaxJobs % MaxJobs = 0
    BY SafeRingAssumption
  <2>. QED
    BY <1>2, <2>1, SafeRingAssumption DEF Succ, WrapJob, RingIndex
<1>. QED
  BY <1>1, <1>2, SafeRingAssumption DEF RingIndex

(* Positions at different distances from r are different. *)
LEMMA WrapJobLemma ==
  ASSUME NEW r \in RingIndex, NEW a \in 0..(MaxJobs - 1), NEW b \in 0..(MaxJobs - 1)
  PROVE  /\ WrapJob(r + a) \in RingIndex
         /\ WrapJob(r + a) = WrapJob(r + b) => a = b
         /\ a + 1 < MaxJobs => WrapJob(WrapJob(r + 1) + a) = WrapJob(r + (a + 1))
BY SafeRingAssumption DEF WrapJob, RingIndex

(* The i-th position after the next of r is the one after the i-th. *)
LEMMA ShiftLemma ==
  ASSUME NEW r \in RingIndex, NEW i \in 1..(MaxJobs - 1)
  PROVE  /\ WrapJob(r + (i + 1) - 1) \in RingIndex
         /\ WrapJob(WrapJob(r + 1) + i - 1) = WrapJob(r + (i + 1) - 1)
BY SafeRingAssumption DEF WrapJob, RingIndex

(* The number of jobs tells the words with the same read position apart. *)
LEMMA CountLemma ==
  ASSUME NEW s \in Stat, Good(s)
  PROVE  /\ Count(s) \in 0..MaxJobs
         /\ s.full <=> Count(s) = MaxJobs
         /\ IsEmpty(s) <=> Count(s) = 0
         /\ s.wr = WrapJob(s.rd + Count(s))
<1>1. s.rd \in RingIndex /\ s.wr \in RingIndex /\ s.full \in BOOLEAN
  BY Zenon DEF Stat
<1>2. CASE s.full
  BY <1>1, <1>2, SafeRingAssumption DEF Good, Count, IsEmpty, WrapJob, RingIndex
<1>3. CASE ~s.full
  BY <1>1, <1>3, SafeRingAssumption DEF Good, Count, IsEmpty, WrapJob, RingIndex
<1>. QED
  BY Zenon, <1>2, <1>3

(* Words with the same read position and the same count are the same. *)
LEMMA SameCountLemma ==
  ASSUME NEW s \in Stat, NEW t \in Stat, Good(s), Good(t), s.rd = t.rd, Count(s) = Count(t)
  PROVE  s = t
<1>1. s.wr = t.wr
  BY Zenon, CountLemma
<1>2. s.full = t.full
  BY Zenon, CountLemma DEF Stat
<1>. QED
  BY <1>1, <1>2 DEF Stat

(* A write adds one job. *)
LEMMA WrittenLemma ==
  ASSUME NEW s \in Stat, ~s.full
  PROVE  /\ Written(s) \in Stat /\ Good(Written(s))
         /\ Written(s).rd = s.rd /\ Count(Written(s)) = Count(s) + 1
<1>1. s.rd \in RingIndex /\ s.wr \in RingIndex /\ s.full = FALSE
  BY Zenon DEF Stat
<1>2. Succ(s.wr) = WrapJob(s.wr + 1) /\ Succ(s.wr) \in RingIndex
  BY Zenon, <1>1, SuccLemma
<1>3. /\ Written(s).rd = s.rd /\ Written(s).wr = Succ(s.wr)
      /\ Succ(s.wr) = s.rd => Written(s).full = TRUE
      /\ Succ(s.wr) # s.rd => Written(s).full = FALSE
  BY Zenon, <1>1 DEF Written, Stat
<1>4. Written(s) \in Stat
  BY ZenonT(60), <1>1, <1>2 DEF Written, Stat
<1>5. CASE Succ(s.wr) = s.rd
  <2>1. Count(s) = MaxJobs - 1
    BY <1>1, <1>2, <1>5, SafeRingAssumption DEF Count, WrapJob, RingIndex
  <2>2. Count(Written(s)) = MaxJobs /\ Good(Written(s))
    BY Zenon, <1>3, <1>5 DEF Good, Count
  <2>. QED
    BY <1>3, <1>4, <2>1, <2>2, SafeRingAssumption
<1>6. CASE Succ(s.wr) # s.rd
  BY <1>1, <1>2, <1>3, <1>4, <1>6, SafeRingAssumption DEF Good, Count, WrapJob, RingIndex
<1>. QED
  BY Zenon, <1>5, <1>6

(* A read takes one away. *)
LEMMA TakenLemma ==
  ASSUME NEW s \in Stat, Good(s), ~IsEmpty(s)
  PROVE  /\ Taken(s) \in Stat /\ Good(Taken(s))
         /\ Taken(s).rd = WrapJob(s.rd + 1) /\ Count(Taken(s)) = Count(s) - 1
<1>1. s.rd \in RingIndex /\ s.wr \in RingIndex /\ s.full \in BOOLEAN
  BY Zenon DEF Stat
<1>2. Succ(s.rd) = WrapJob(s.rd + 1) /\ Succ(s.rd) \in RingIndex
  BY Zenon, <1>1, SuccLemma
<1>3. Taken(s).rd = Succ(s.rd) /\ Taken(s).wr = s.wr /\ Taken(s).full = FALSE
  BY Zenon, <1>1 DEF Taken, Stat
<1>4. Taken(s) \in Stat
  BY ZenonT(60), <1>1, <1>2 DEF Taken, Stat
<1>5. CASE s.full
  BY SMTT(60), <1>1, <1>2, <1>3, <1>4, <1>5, SafeRingAssumption DEF Good, IsEmpty, Count, WrapJob, RingIndex
<1>6. CASE ~s.full
  BY <1>1, <1>2, <1>3, <1>4, <1>6, SafeRingAssumption DEF Good, IsEmpty, Count, WrapJob, RingIndex
<1>. QED
  BY Zenon, <1>5, <1>6

-----------------------------------------------------------------------------
(* The word of a record that is neither written nor read any more. *)
LEMMA ZeroLemma == Zero \in Stat /\ Good(Zero)
BY SafeRingAssumption DEF Zero, Stat, Good, RingIndex

(* Initially nobody is in the ring, which is empty. *)
LEMMA SafeInitInv == SafeInit => SafeInv
<1>1. ASSUME SafeInit
      PROVE  SafeInv
  <2>1. SafeTypeOK
    <3>1. NotWriting \in Writer
      BY Zenon, ZeroLemma DEF NotWriting, Writer
    <3>2. writers \in Seq(Producer) /\ stat \in Stat
      BY <1>1, ZeroLemma DEF SafeInit
    <3>. QED
      BY Zenon, <1>1, <3>1, <3>2, ZeroLemma DEF SafeInit, SafeTypeOK, Reader
  <2>2. \A p \in Producer : w[p].pc = "out"
    BY Zenon, <1>1 DEF SafeInit, NotWriting
  <2>3. Len(writers) = 0 /\ rd.pc = "out" /\ Good(stat)
    BY Zenon, <1>1, ZeroLemma DEF SafeInit
  <2>. QED
    BY <2>1, <2>2, <2>3 DEF SafeInv, WriterInv, ReaderInv, Storing, IsWriting, WritersDiffer
<1>. QED
  BY Zenon, <1>1

(* What a writer has seen, it has seen before: an instance of the          *)
(* invariant for one producer.                                             *)
LEMMA SeenLemma ==
  ASSUME SafeInv, NEW p \in Producer
  PROVE  /\ stat \in Stat /\ Good(stat) /\ stat.rd \in RingIndex /\ Count(stat) \in 0..MaxJobs
         /\ w[p].cs \in Stat /\ w[p].cs.wr \in RingIndex /\ w[p].job \in Job \cup {NoJob}
         /\ Storing(p) => /\ Count(w[p].cs) \in 0..(MaxJobs - 1)
                          /\ w[p].cs.wr = WrapJob(stat.rd + Count(w[p].cs))
<1>1. /\ stat \in Stat /\ Good(stat) /\ stat.rd \in RingIndex
      /\ w[p].cs \in Stat /\ w[p].cs.wr \in RingIndex /\ w[p].job \in Job \cup {NoJob}
  BY Zenon DEF SafeInv, SafeTypeOK, Stat, Writer
<1>2. Count(stat) \in 0..MaxJobs
  BY Zenon, <1>1, CountLemma
<1>3. ASSUME Storing(p)
      PROVE  /\ Count(w[p].cs) \in 0..(MaxJobs - 1)
             /\ w[p].cs.wr = WrapJob(stat.rd + Count(w[p].cs))
  <2>1. Good(w[p].cs) /\ w[p].cs.rd = stat.rd /\ Count(w[p].cs) < Count(stat)
    BY Zenon, <1>3 DEF SafeInv, WriterInv
  <2>2. Count(w[p].cs) \in 0..MaxJobs /\ w[p].cs.wr = WrapJob(w[p].cs.rd + Count(w[p].cs))
    BY Zenon, <1>1, <2>1, CountLemma
  <2>. QED
    BY SMTT(60), <1>2, <2>1, <2>2, SafeRingAssumption
<1>. QED
  BY Zenon, <1>1, <1>2, <1>3

(* Two writers never store into the same slot. *)
LEMMA SlotsDifferLemma ==
  ASSUME SafeInv, NEW p \in Producer, NEW q \in Producer, Storing(p), Storing(q),
         w[p].cs.wr = w[q].cs.wr
  PROVE  p = q
<1>1. Count(w[p].cs) = Count(w[q].cs)
  BY SMTT(60), SeenLemma, WrapJobLemma
<1>. QED
  BY Zenon, <1>1 DEF SafeInv

(* What a slot holds, or will hold. *)
SlotFacts ==
  /\ \A p \in Producer : Storing(p) => Slot(w[p].cs.wr) = w[p].job
  /\ \A i \in RingIndex :
       (\A p \in Producer : Storing(p) => w[p].cs.wr # i) => Slot(i) = ring[i]

(* In each state that satisfies the invariant ... *)
LEMMA SlotLemma == SafeInv => SlotFacts
<1>1. ASSUME SafeInv, NEW p \in Producer, Storing(p)
      PROVE  Slot(w[p].cs.wr) = w[p].job
  <2> DEFINE q == CHOOSE q \in Producer : w[q].pc = "store" /\ w[q].cs.wr = w[p].cs.wr
  <2>1. q \in Producer /\ w[q].pc = "store" /\ w[q].cs.wr = w[p].cs.wr
    BY Zenon, <1>1 DEF Storing
  <2> HIDE DEF q
  <2>2. Storing(q)
    BY Zenon, <2>1 DEF Storing
  <2>3. q = p
    BY ZenonT(60), <1>1, <2>1, <2>2, SlotsDifferLemma
  <2>. QED
    BY ZenonT(60), <1>1, <2>3 DEF Slot, Storing, q
<1>2. ASSUME NEW i \in RingIndex, \A p \in Producer : Storing(p) => w[p].cs.wr # i
      PROVE  Slot(i) = ring[i]
  BY Zenon, <1>2 DEF Slot, Storing
<1>. QED
  BY Zenon, <1>1, <1>2 DEF SlotFacts

(* ... and so after a step that preserves it. *)
LEMMA NextSlotLemma == SafeInv' => SlotFacts'
BY SlotLemma, PTL

(* The queue does not change when no slot does. *)
LEMMA JobsKeptLemma ==
  ASSUME SafeInv, stat' = stat, \A i \in RingIndex : Slot(i)' = Slot(i)
  PROVE  Jobs' = Jobs
<1>1. stat.rd \in RingIndex /\ Count(stat) \in 0..MaxJobs
  BY Zenon, CountLemma DEF SafeInv, SafeTypeOK, Stat
<1>2. \A i \in 1..Count(stat) : WrapJob(stat.rd + i - 1) \in RingIndex
  BY <1>1, SafeRingAssumption DEF WrapJob, RingIndex
<1>. QED
  BY Zenon, <1>2 DEF Jobs

(* The queue that the ring stands for, as a sequence. *)
JobsFacts ==
  /\ Jobs \in Seq(Job \cup {NoJob}) /\ Len(Jobs) = Count(stat)
  /\ \A i \in 1..Count(stat) : Jobs[i] = Slot(WrapJob(stat.rd + i - 1))

(* In each state that satisfies the invariant ... *)
LEMMA JobsLemma == SafeInv => JobsFacts
<1>1. SUFFICES ASSUME SafeInv
               PROVE  JobsFacts
  OBVIOUS
<1>2. stat.rd \in RingIndex /\ Count(stat) \in 0..MaxJobs /\ Count(stat) \in Nat
  BY <1>1, CountLemma, SafeRingAssumption DEF SafeInv, SafeTypeOK, Stat
<1>3. ASSUME NEW i \in RingIndex
      PROVE  Slot(i) \in Job \cup {NoJob}
  <2>1. CASE \E p \in Producer : Storing(p) /\ w[p].cs.wr = i
    BY Zenon, <1>1, <2>1, SlotLemma, SeenLemma DEF SlotFacts
  <2>2. CASE ~\E p \in Producer : Storing(p) /\ w[p].cs.wr = i
    BY Zenon, <1>1, <2>2, SlotLemma DEF SlotFacts, SafeInv, SafeTypeOK
  <2>. QED
    BY Zenon, <2>1, <2>2
<1>4. \A i \in 1..Count(stat) : WrapJob(stat.rd + i - 1) \in RingIndex
  BY <1>2, SafeRingAssumption DEF WrapJob, RingIndex
<1>5. Jobs \in [1..Count(stat) -> Job \cup {NoJob}]
  BY Zenon, <1>3, <1>4 DEF Jobs
<1>. QED
  BY <1>2, <1>5 DEF Jobs, JobsFacts

(* ... and so after a step that preserves it. *)
LEMMA NextJobsLemma == SafeInv' => JobsFacts'
BY JobsLemma, PTL

(* A word with one job more, and that job in the first free slot. *)
LEMMA AddedLemma ==
  ASSUME SafeInv, SafeInv', stat'.rd = stat.rd, Count(stat') = Count(stat) + 1,
         NEW j, \A k \in RingIndex : k = stat.wr => Slot(k)' = j,
         \A k \in RingIndex : k # stat.wr => Slot(k)' = Slot(k)
  PROVE  Jobs' = Append(Jobs, j)
<1>1. stat.rd \in RingIndex /\ Count(stat) \in 0..MaxJobs /\ Count(stat') \in 0..MaxJobs
      /\ stat.wr = WrapJob(stat.rd + Count(stat))
  BY Zenon, CountLemma DEF SafeInv, SafeTypeOK, Stat
<1>2. Count(stat) \in 0..(MaxJobs - 1)
  BY <1>1, SafeRingAssumption
<1>3. ASSUME NEW i \in 1..Count(stat)
      PROVE  Jobs'[i] = Jobs[i]
  <2>1. PICK k \in RingIndex : k = WrapJob(stat.rd + i - 1) /\ k # stat.wr
    BY <1>1, <1>2, SafeRingAssumption DEF WrapJob, RingIndex
  <2>2. i \in 1..Count(stat')
    BY <1>2
  <2>3. Jobs[i] = Slot(k)
    BY Zenon, <2>1, JobsLemma DEF JobsFacts
  <2>4. Jobs'[i] = Slot(k)'
    BY Zenon, <2>1, <2>2, NextJobsLemma DEF JobsFacts
  <2>. QED
    BY Zenon, <2>1, <2>3, <2>4
<1>4. Jobs'[Count(stat) + 1] = j
  <2>1. PICK k \in RingIndex : k = WrapJob(stat.rd + (Count(stat) + 1) - 1) /\ k = stat.wr
    BY <1>1, <1>2, SafeRingAssumption DEF WrapJob, RingIndex
  <2>2. Count(stat) + 1 \in 1..Count(stat')
    BY <1>2
  <2>3. Jobs'[Count(stat) + 1] = Slot(k)'
    BY Zenon, <2>1, <2>2, NextJobsLemma DEF JobsFacts
  <2>. QED
    BY Zenon, <2>1, <2>3
<1>5. /\ Jobs' \in Seq(Job \cup {NoJob}) /\ Len(Jobs') = Len(Jobs) + 1
      /\ Jobs \in Seq(Job \cup {NoJob}) /\ Len(Jobs) = Count(stat) /\ Len(Jobs) \in Nat
  BY <1>2, JobsLemma, NextJobsLemma DEF JobsFacts
<1>6. j \in Job \cup {NoJob}
  BY <1>4, <1>5
<1>7. /\ Append(Jobs, j) \in Seq(Job \cup {NoJob}) /\ Len(Append(Jobs, j)) = Len(Jobs) + 1
      /\ \A i \in 1..Len(Jobs) : Append(Jobs, j)[i] = Jobs[i]
      /\ Append(Jobs, j)[Len(Jobs) + 1] = j
  BY <1>5, <1>6
<1>8. \A i \in 1..(Len(Jobs) + 1) : Jobs'[i] = Append(Jobs, j)[i]
  BY SMTT(60), <1>3, <1>4, <1>5, <1>7
<1>. QED
  BY Zenon, <1>5, <1>7, <1>8, SameElements

(* A step of a writer that does not change the word.  It may leave the     *)
(* ring with its job stored, or have got a new copy of the word.           *)
LEMMA QuietWriterLemma ==
  ASSUME SafeInv, NEW p \in Producer, NEW r \in Writer, w' = [w EXCEPT ![p] = r],
         UNCHANGED <<stat, rd>>, ring' \in [RingIndex -> Job \cup {NoJob}],
         writers' \in Seq(Producer), WritersDiffer',
         \A q \in Producer : IsWriting(q)' <=> w'[q].pc # "out",
         r.pc # "store",
         r.pc \in {"reload", "cas"} => Earlier(r.cs),
         r.pc = "cas" => ~r.cs.full /\ (stat = r.cs => r.ns = Written(stat)),
         rd.pc = "cas" => ring'[stat.rd] = ring[stat.rd]
  PROVE  SafeInv'
<1>1. w'[p] = r /\ \A q \in Producer : q # p => w'[q] = w[q]
  BY Zenon DEF SafeInv, SafeTypeOK
<1>2. SafeTypeOK' /\ Good(stat)'
  BY Zenon DEF SafeInv, SafeTypeOK
<1>3. \A q \in Producer : Storing(q)' => Storing(q) /\ q # p /\ w'[q] = w[q]
  BY Zenon, <1>1 DEF Storing
<1>4. ASSUME NEW q \in Producer
      PROVE  WriterInv(q)'
  <2>1. CASE q = p
    BY Zenon, <1>1, <2>1 DEF WriterInv, Storing, Earlier
  <2>2. CASE q # p
    <3>1. WriterInv(q) /\ w'[q] = w[q] /\ stat' = stat
      BY Zenon, <1>1, <2>2 DEF SafeInv
    <3>. QED
      BY Zenon, <3>1 DEF WriterInv, Storing, Earlier
  <2>. QED
    BY Zenon, <2>1, <2>2
<1>5. \A a, b \in Producer :
        Storing(a)' /\ Storing(b)' /\ Count(w'[a].cs) = Count(w'[b].cs) => a = b
  BY SMTT(60), <1>3 DEF SafeInv
<1>6. ReaderInv'
  <2>1. ReaderInv /\ rd' = rd /\ stat' = stat
    BY Zenon DEF SafeInv
  <2>. QED
    BY Zenon, <1>3, <2>1 DEF ReaderInv, Earlier
<1>. QED
  BY Zenon, <1>2, <1>4, <1>5, <1>6 DEF SafeInv

(* Nor does such a step change the queue, if the writer was not storing. *)
LEMMA QuietSlotsLemma ==
  ASSUME SafeInv, SafeInv', NEW p \in Producer, NEW r \in Writer, w' = [w EXCEPT ![p] = r],
         UNCHANGED <<stat, ring>>, r.pc # "store", ~Storing(p)
  PROVE  Jobs' = Jobs
<1>1. w'[p] = r /\ \A q \in Producer : q # p => w'[q] = w[q]
  BY Zenon DEF SafeInv, SafeTypeOK
<1>2. \A q \in Producer : (Storing(q)' <=> Storing(q)) /\ (Storing(q) => w'[q] = w[q])
  BY Zenon, <1>1 DEF Storing
<1>3. ASSUME NEW i \in RingIndex
      PROVE  Slot(i)' = Slot(i)
  <2>1. CASE \E q \in Producer : Storing(q) /\ w[q].cs.wr = i
    BY SMTT(60), <1>2, <2>1, SlotLemma, NextSlotLemma DEF SlotFacts
  <2>2. CASE ~\E q \in Producer : Storing(q) /\ w[q].cs.wr = i
    BY SMTT(60), <1>2, <2>2, SlotLemma, NextSlotLemma DEF SlotFacts
  <2>. QED
    BY Zenon, <2>1, <2>2
<1>. QED
  BY Zenon, <1>3, JobsKeptLemma

(* When the last writer returns, the others are still writing. *)
LEMMA WriteEndLemma ==
  ASSUME SafeInv, writers # <<>>, NEW p \in Producer, p = writers[Len(writers)], SafeWriteEnd(p)
  PROVE  /\ w' = [w EXCEPT ![p] = NotWriting] /\ NotWriting \in Writer
         /\ writers' \in Seq(Producer) /\ WritersDiffer'
         /\ \A q \in Producer : IsWriting(q)' <=> w'[q].pc # "out"
<1>1. writers \in Seq(Producer) /\ Len(writers) \in Nat \ {0}
  BY DEF SafeInv, SafeTypeOK
<1>2. /\ writers' \in Seq(Producer) /\ Len(writers') = Len(writers) - 1
      /\ \A i \in 1..(Len(writers) - 1) : writers'[i] = writers[i]
  <2> DEFINE n == Len(writers) - 1
  <2>1. n \in Nat /\ \A i \in 1..n : writers[i] \in Producer
    BY <1>1
  <2>2. writers' = SubSeq(writers, 1, n)
    BY Zenon DEF SafeWriteEnd
  <2>. HIDE DEF n
  <2>3. /\ SubSeq(writers, 1, n) \in Seq(Producer) /\ Len(SubSeq(writers, 1, n)) = n
        /\ \A i \in 1..n : SubSeq(writers, 1, n)[i] = writers[i]
    BY <1>1, <2>1
  <2>. QED
    BY Zenon, <2>2, <2>3 DEF n
<1>3. WritersDiffer'
  BY SMTT(60), <1>1, <1>2 DEF SafeInv, WritersDiffer
<1>4. w' = [w EXCEPT ![p] = NotWriting] /\ NotWriting \in Writer
  BY Zenon, ZeroLemma DEF SafeWriteEnd, NotWriting, Writer
<1>5. w'[p].pc = "out" /\ \A q \in Producer : q # p => w'[q] = w[q]
  BY Zenon, <1>4 DEF SafeInv, SafeTypeOK, NotWriting
<1>6. ~IsWriting(p)'
  BY <1>1, <1>2 DEF SafeInv, WritersDiffer, IsWriting
<1>7. \A q \in Producer : q # p => (IsWriting(q)' <=> IsWriting(q))
  BY SMTT(60), <1>1, <1>2 DEF IsWriting
<1>. QED
  BY Zenon, <1>2, <1>3, <1>4, <1>5, <1>6, <1>7 DEF SafeInv, WriterInv

(* A write begins: it may interrupt another one, or a read. *)
LEMMA WriteBeginStep ==
  ASSUME SafeInv, NEW p \in Producer, NEW j \in Job, SafeWriteBegin(p, j)
  PROVE  SafeInv' /\ Jobs' = Jobs
<1> DEFINE r == [pc |-> "reload", cs |-> stat, ns |-> Zero, job |-> j]
<1>1. stat \in Stat /\ Good(stat) /\ Count(stat) \in 0..MaxJobs
  BY Zenon, CountLemma DEF SafeInv, SafeTypeOK
<1>2. r \in Writer /\ r.pc = "reload" /\ r.cs = stat
  BY Zenon, <1>1, ZeroLemma DEF Writer
<1>3. w' = [w EXCEPT ![p] = r] /\ UNCHANGED <<stat, ring, rd>> /\ w[p].pc = "out"
  BY Zenon DEF SafeWriteBegin
<1>4. writers \in Seq(Producer) /\ writers' = Append(writers, p)
  BY Zenon DEF SafeInv, SafeTypeOK, SafeWriteBegin
<1>5. /\ writers' \in Seq(Producer) /\ Len(writers') = Len(writers) + 1 /\ Len(writers) \in Nat
      /\ \A i \in 1..Len(writers) : writers'[i] = writers[i]
      /\ writers'[Len(writers) + 1] = p
  BY <1>4
<1>6. ~IsWriting(p) /\ w'[p].pc # "out" /\ \A q \in Producer : q # p => w'[q] = w[q]
  <2>1. WriterInv(p) /\ w \in [Producer -> Writer]
    BY ZenonT(60) DEF SafeInv, SafeTypeOK
  <2>2. ~IsWriting(p)
    BY ZenonT(60), <1>3, <2>1 DEF WriterInv
  <2>3. w'[p] = r /\ \A q \in Producer : q # p => w'[q] = w[q]
    BY Zenon, <1>3, <2>1
  <2>. QED
    BY Zenon, <1>2, <2>2, <2>3
<1>7. WritersDiffer'
  BY <1>5, <1>6 DEF SafeInv, WritersDiffer, IsWriting
<1>8. IsWriting(p)' /\ \A q \in Producer : q # p => (IsWriting(q)' <=> IsWriting(q))
  BY SMTT(60), <1>5 DEF IsWriting
<1>9. \A q \in Producer : IsWriting(q)' <=> w'[q].pc # "out"
  BY Zenon, <1>6, <1>8 DEF SafeInv, WriterInv
<1>10. Earlier(r.cs)
  BY SMTT(60), <1>1 DEF Earlier
<1>11. ring' \in [RingIndex -> Job \cup {NoJob}]
  BY Zenon, <1>3 DEF SafeInv, SafeTypeOK
<1>12. SafeInv'
  BY ZenonT(60), <1>2, <1>3, <1>5, <1>7, <1>9, <1>10, <1>11, QuietWriterLemma
<1>. QED
  BY ZenonT(60), <1>2, <1>3, <1>12, QuietSlotsLemma DEF Storing

(* The steps of a write that leave the writer where it was in the nest, and *)
(* the word as it was.                                                     *)
LEMMA WriteLookStep ==
  ASSUME SafeInv, NEW p \in Producer,
         SafeWriteLoad(p) \/ SafeWriteReload(p) \/ (SafeWriteCas(p) /\ stat # w[p].cs)
  PROVE  SafeInv' /\ Jobs' = Jobs
<1>1. stat \in Stat /\ Good(stat) /\ Count(stat) \in 0..MaxJobs
  BY Zenon, CountLemma DEF SafeInv, SafeTypeOK
<1>2. w[p] \in Writer /\ WriterInv(p)
  BY Zenon DEF SafeInv, SafeTypeOK
<1>3. PICK r \in Writer :
        /\ w' = [w EXCEPT ![p] = r] /\ w[p].pc # "out" /\ r.pc \in {"load", "reload", "cas"}
        /\ r.pc \in {"reload", "cas"} => Earlier(r.cs)
        /\ r.pc = "cas" => ~r.cs.full /\ (stat = r.cs => r.ns = Written(stat))
        /\ w[p].pc # "store"
  <2>1. CASE SafeWriteLoad(p)
    <3> DEFINE r == [w[p] EXCEPT !.pc = "reload", !.cs = stat]
    <3>1. r \in Writer /\ r.pc = "reload" /\ r.cs = stat
      BY ZenonT(60), <1>1, <1>2 DEF Writer
    <3>2. w' = [w EXCEPT ![p] = r] /\ w[p].pc = "load"
      BY ZenonT(60), <2>1 DEF SafeWriteLoad
    <3>3. Earlier(r.cs)
      BY <1>1, <3>1 DEF Earlier
    <3>. QED
      BY ZenonT(60), <3>1, <3>2, <3>3
  <2>2. CASE SafeWriteReload(p)
    <3> DEFINE r == [w[p] EXCEPT !.pc = "cas", !.ns = Written(stat)]
    <3>1. w' = [w EXCEPT ![p] = r] /\ w[p].pc = "reload" /\ ~w[p].cs.full
      BY ZenonT(60), <2>2 DEF SafeWriteReload
    <3>2. Written(stat) \in Stat
      <4>1. stat.wr \in RingIndex
        BY Zenon, <1>1 DEF Stat
      <4>. QED
        BY ZenonT(60), <1>1, <4>1, SuccLemma DEF Written, Stat
    <3>3. r \in Writer /\ r.pc = "cas" /\ r.cs = w[p].cs /\ r.ns = Written(stat)
      BY ZenonT(60), <1>2, <3>2 DEF Writer
    <3>4. Earlier(r.cs)
      BY Zenon, <1>2, <3>1, <3>3 DEF WriterInv
    <3>. QED
      BY ZenonT(60), <3>1, <3>3, <3>4
  <2>3. CASE SafeWriteCas(p) /\ stat # w[p].cs
    <3> DEFINE r == [w[p] EXCEPT !.pc = "load", !.cs = Zero, !.ns = Zero]
    <3>1. r \in Writer /\ r.pc = "load"
      BY ZenonT(60), <1>2, ZeroLemma DEF Writer
    <3>2. w' = [w EXCEPT ![p] = r] /\ w[p].pc = "cas"
      BY ZenonT(60), <2>3 DEF SafeWriteCas
    <3>. QED
      BY ZenonT(60), <3>1, <3>2
  <2>. QED
    BY Zenon, <2>1, <2>2, <2>3
<1>4. UNCHANGED <<stat, ring, writers, rd>>
  BY Zenon DEF SafeWriteLoad, SafeWriteReload, SafeWriteCas
<1>5. w'[p] = r /\ \A q \in Producer : q # p => w'[q] = w[q]
  BY Zenon, <1>3 DEF SafeInv, SafeTypeOK
<1>6. \A q \in Producer : IsWriting(q)' <=> w'[q].pc # "out"
  BY SMTT(60), <1>3, <1>4, <1>5 DEF SafeInv, WriterInv, IsWriting
<1>7. /\ ring' \in [RingIndex -> Job \cup {NoJob}]
      /\ writers' \in Seq(Producer) /\ WritersDiffer'
  BY Zenon, <1>4 DEF SafeInv, SafeTypeOK, WritersDiffer
<1>8. SafeInv'
  BY ZenonT(60), <1>3, <1>4, <1>6, <1>7, QuietWriterLemma
<1>. QED
  BY ZenonT(60), <1>3, <1>4, <1>8, QuietSlotsLemma DEF Storing

(* A write that finds the ring full leaves it. *)
LEMMA WriteFullStep ==
  ASSUME SafeInv, writers # <<>>, NEW p \in Producer, p = writers[Len(writers)],
         SafeWriteFull(p)
  PROVE  SafeInv' /\ Jobs' = Jobs
<1>1. w[p].pc = "reload" /\ SafeWriteEnd(p) /\ UNCHANGED <<stat, ring, rd>>
  BY Zenon DEF SafeWriteFull
<1>2. NotWriting.pc = "out" /\ ring' \in [RingIndex -> Job \cup {NoJob}]
  BY Zenon, <1>1 DEF NotWriting, SafeInv, SafeTypeOK
<1>3. SafeInv'
  BY Zenon, <1>1, <1>2, WriteEndLemma, QuietWriterLemma
<1>. QED
  BY Zenon, <1>1, <1>2, <1>3, WriteEndLemma, QuietSlotsLemma DEF Storing

(* The job is stored in the slot that was already its own. *)
LEMMA WriteStoreStep ==
  ASSUME SafeInv, writers # <<>>, NEW p \in Producer, p = writers[Len(writers)],
         SafeWriteStore(p)
  PROVE  SafeInv' /\ Jobs' = Jobs
<1> DEFINE slot == w[p].cs.wr
<1>1. Storing(p) /\ SafeWriteEnd(p) /\ UNCHANGED <<stat, rd>>
  BY Zenon DEF SafeWriteStore, Storing
<1>2. /\ slot \in RingIndex /\ w[p].job \in Job \cup {NoJob} /\ stat.rd \in RingIndex
      /\ Count(w[p].cs) \in 0..(MaxJobs - 1) /\ slot = WrapJob(stat.rd + Count(w[p].cs))
  BY Zenon, <1>1, SeenLemma
<1>3. ring' = [ring EXCEPT ![slot] = w[p].job] /\ ring \in [RingIndex -> Job \cup {NoJob}]
  BY Zenon DEF SafeWriteStore, SafeInv, SafeTypeOK
<1>4. /\ ring' \in [RingIndex -> Job \cup {NoJob}] /\ ring'[slot] = w[p].job
      /\ \A i \in RingIndex : i # slot => ring'[i] = ring[i]
  BY Zenon, <1>2, <1>3
<1>5. rd.pc = "cas" => ring'[stat.rd] = ring[stat.rd]
  <2>1. rd.pc = "cas" => Count(w[p].cs) > 0
    BY Zenon, <1>1 DEF SafeInv, ReaderInv
  <2>2. Count(w[p].cs) > 0 => slot # stat.rd
    BY <1>2, SafeRingAssumption DEF WrapJob, RingIndex
  <2>. QED
    BY Zenon, <1>2, <1>4, <2>1, <2>2
<1>6. NotWriting.pc = "out"
  BY Zenon DEF NotWriting
<1>7. SafeInv'
  BY Zenon, <1>1, <1>4, <1>5, <1>6, WriteEndLemma, QuietWriterLemma
<1>8. /\ w'[p].pc = "out" /\ \A q \in Producer : q # p => w'[q] = w[q]
  BY Zenon, <1>1, <1>6, WriteEndLemma DEF SafeInv, SafeTypeOK
<1>9. \A q \in Producer : Storing(q)' <=> (Storing(q) /\ q # p)
  BY Zenon, <1>8 DEF Storing
<1>10. ASSUME NEW i \in RingIndex
       PROVE  Slot(i)' = Slot(i)
  <2>1. CASE i = slot
    <3>1. \A q \in Producer : Storing(q)' => w'[q].cs.wr # i
      BY Zenon, <1>1, <1>8, <1>9, <2>1, SlotsDifferLemma
    <3>2. Slot(i)' = ring'[i]
      BY Zenon, <1>7, <3>1, NextSlotLemma DEF SlotFacts
    <3>3. Slot(i) = w[p].job
      BY Zenon, <1>1, <2>1, SlotLemma DEF SlotFacts
    <3>. QED
      BY Zenon, <1>4, <2>1, <3>2, <3>3
  <2>2. CASE i # slot /\ \E q \in Producer : Storing(q) /\ w[q].cs.wr = i
    BY SMTT(60), <1>7, <1>8, <1>9, <2>2, SlotLemma, NextSlotLemma DEF SlotFacts
  <2>3. CASE i # slot /\ ~\E q \in Producer : Storing(q) /\ w[q].cs.wr = i
    <3>1. Slot(i)' = ring'[i] /\ Slot(i) = ring[i]
      BY Zenon, <1>7, <1>8, <1>9, <2>3, SlotLemma, NextSlotLemma DEF SlotFacts
    <3>. QED
      BY Zenon, <1>4, <2>3, <3>1
  <2>. QED
    BY Zenon, <2>1, <2>2, <2>3
<1>. QED
  BY Zenon, <1>1, <1>7, <1>10, JobsKeptLemma

(* A CAS that succeeds gives the writer the first free slot. *)
LEMMA WriteCasStep ==
  ASSUME SafeInv, NEW p \in Producer, SafeWriteCas(p), stat = w[p].cs
  PROVE  SafeInv' /\ JobAdded
<1>1. stat \in Stat /\ Good(stat) /\ stat.rd \in RingIndex /\ WriterInv(p) /\ w[p] \in Writer
  BY Zenon DEF SafeInv, SafeTypeOK, Stat
<1>2. w[p].pc = "cas" /\ ~stat.full /\ stat' = Written(stat)
  BY Zenon, <1>1 DEF SafeWriteCas, WriterInv
<1>3. stat' \in Stat /\ Good(stat') /\ stat'.rd = stat.rd /\ Count(stat') = Count(stat) + 1
  BY Zenon, <1>1, <1>2, WrittenLemma
<1>4. Count(stat) \in 0..(MaxJobs - 1) /\ stat.wr = WrapJob(stat.rd + Count(stat))
  BY <1>1, <1>2, CountLemma, SafeRingAssumption
<1> DEFINE r == [w[p] EXCEPT !.pc = "store"]
<1>5. r \in Writer /\ r.pc = "store" /\ r.cs = stat /\ r.job = w[p].job
  BY Zenon, <1>1 DEF Writer
<1>6. UNCHANGED <<ring, writers, rd>> /\ w' = [w EXCEPT ![p] = r]
  BY Zenon DEF SafeWriteCas
<1>7. w'[p] = r /\ \A q \in Producer : q # p => w'[q] = w[q]
  BY Zenon, <1>6 DEF SafeInv, SafeTypeOK
<1>8. \A q \in Producer : Storing(q)' <=> (Storing(q) \/ q = p)
  BY ZenonT(60), <1>5, <1>7 DEF Storing
<1>9. SafeTypeOK' /\ WritersDiffer'
  BY Zenon, <1>3, <1>5, <1>6 DEF SafeInv, SafeTypeOK, WritersDiffer
<1>10. ASSUME NEW q \in Producer
       PROVE  WriterInv(q)'
  <2>1. CASE q = p
    <3>1. IsWriting(p)'
      BY Zenon, <1>1, <1>2, <1>6 DEF WriterInv, IsWriting
    <3>2. w'[p].pc = "store" /\ w'[p].cs = stat
      BY Zenon, <1>5, <1>7
    <3>3. Good(stat) /\ stat.rd = stat'.rd /\ Count(stat) < Count(stat')
      BY SMTT(60), <1>1, <1>3, <1>4
    <3>. QED
      BY Zenon, <2>1, <3>1, <3>2, <3>3 DEF WriterInv, Storing
  <2>2. CASE q # p
    <3>1. WriterInv(q) /\ w'[q] = w[q] /\ w[q].cs \in Stat
      BY Zenon, <1>7, <2>2 DEF SafeInv, SafeTypeOK, Writer
    <3>2. IsWriting(q)' <=> w'[q].pc # "out"
      BY ZenonT(60), <1>6, <3>1 DEF WriterInv, IsWriting
    <3>3. w[q].pc \in {"reload", "cas"} =>
            Earlier(w[q].cs)' /\ stat' # w[q].cs
      <4>1. ASSUME Earlier(w[q].cs)
            PROVE  Earlier(w[q].cs)' /\ stat' # w[q].cs
        <5>1. Count(w[q].cs) \in 0..MaxJobs /\ Count(w[q].cs) <= Count(stat)
          BY Zenon, <3>1, <4>1, CountLemma DEF Earlier
        <5>. QED
          BY SMTT(60), <1>3, <1>4, <3>1, <4>1, <5>1 DEF Earlier
      <4>. QED
        <5>1. w[q].pc \in {"reload", "cas"} => Earlier(w[q].cs)
          BY ZenonT(60), <3>1 DEF WriterInv
        <5>. QED
          BY ZenonT(60), <4>1, <5>1
    <3>4. Storing(q) => Good(w[q].cs) /\ w[q].cs.rd = stat'.rd /\ Count(w[q].cs) < Count(stat')
      <4>1. Storing(q) => Count(w[q].cs) \in 0..(MaxJobs - 1)
        BY Zenon, SeenLemma
      <4>. QED
        BY SMTT(60), <1>3, <1>4, <3>1, <4>1 DEF WriterInv
    <3>. QED
      BY Zenon, <3>1, <3>2, <3>3, <3>4 DEF WriterInv, Storing, Earlier
  <2>. QED
    BY Zenon, <2>1, <2>2
<1>11. ASSUME NEW a \in Producer, NEW b \in Producer, Storing(a)', Storing(b)',
              Count(w'[a].cs) = Count(w'[b].cs)
       PROVE  a = b
  <2>1. \A q \in Producer :
          Storing(q) => Count(w[q].cs) \in 0..(MaxJobs - 1) /\ Count(w[q].cs) < Count(stat)
    <3> SUFFICES ASSUME NEW q \in Producer, Storing(q)
                 PROVE  Count(w[q].cs) \in 0..(MaxJobs - 1) /\ Count(w[q].cs) < Count(stat)
      BY Zenon
    <3>1. Count(w[q].cs) \in 0..(MaxJobs - 1)
      BY Zenon, SeenLemma
    <3>2. WriterInv(q)
      BY Zenon DEF SafeInv
    <3>3. Count(w[q].cs) < Count(stat)
      BY ZenonT(60), <3>2 DEF WriterInv
    <3>. QED
      BY Zenon, <3>1, <3>3
  <2>2. ASSUME NEW q \in Producer, Storing(q), q # p
        PROVE  Count(w'[q].cs) # Count(w'[p].cs)
    <3>1. w'[q].cs = w[q].cs /\ w'[p].cs = stat
      BY Zenon, <1>5, <1>7, <2>2
    <3>. QED
      BY <1>4, <2>1, <2>2, <3>1
  <2>. QED
    BY ZenonT(60), <1>7, <1>8, <1>11, <2>2 DEF SafeInv
<1>12. ReaderInv'
  <2>1. ReaderInv /\ rd' = rd /\ rd.cs \in Stat /\ ring' = ring
    BY Zenon, <1>6 DEF SafeInv, SafeTypeOK, Reader
  <2>2. ASSUME rd.pc \in {"reload", "copy", "cas"}
        PROVE  /\ Earlier(rd.cs) /\ Count(rd.cs) \in 0..MaxJobs /\ Count(rd.cs) <= Count(stat)
               /\ Earlier(rd.cs)' /\ stat' # rd.cs
    <3>1. Earlier(rd.cs)
      BY Zenon, <2>1, <2>2 DEF ReaderInv
    <3>2. Count(rd.cs) \in 0..MaxJobs /\ Count(rd.cs) <= Count(stat)
      BY Zenon, <2>1, <3>1, CountLemma DEF Earlier
    <3>. QED
      BY SMTT(60), <1>3, <1>4, <2>1, <3>1, <3>2 DEF Earlier
  <2>3. ASSUME rd.pc = "cas"
        PROVE  \A q \in Producer : Storing(q)' => Count(w'[q].cs) > 0
    <3>1. Count(stat) > 0
      BY SMTT(60), <1>4, <2>1, <2>2, <2>3, CountLemma DEF ReaderInv, Earlier
    <3>. QED
      BY ZenonT(60), <1>5, <1>7, <1>8, <2>1, <2>3, <3>1 DEF ReaderInv
  <2>. QED
    BY Zenon, <1>3, <2>1, <2>2, <2>3 DEF ReaderInv, Earlier
<1>13. SafeInv'
  BY Zenon, <1>3, <1>9, <1>10, <1>11, <1>12 DEF SafeInv
<1>14. ASSUME NEW k \in RingIndex, k # stat.wr
       PROVE  Slot(k)' = Slot(k)
  <2>1. CASE \E q \in Producer : Storing(q) /\ w[q].cs.wr = k
    <3>1. PICK q \in Producer : Storing(q) /\ w[q].cs.wr = k
      BY Zenon, <2>1
    <3>2. q # p /\ w'[q] = w[q] /\ Storing(q)'
      BY Zenon, <1>2, <1>7, <1>8, <3>1 DEF Storing
    <3>. QED
      BY Zenon, <1>13, <3>1, <3>2, SlotLemma, NextSlotLemma DEF SlotFacts
  <2>2. CASE ~\E q \in Producer : Storing(q) /\ w[q].cs.wr = k
    <3>1. \A q \in Producer : Storing(q)' => w'[q].cs.wr # k
      BY ZenonT(60), <1>5, <1>7, <1>8, <1>14, <2>2
    <3>. QED
      BY Zenon, <1>6, <1>13, <2>2, <3>1, SlotLemma, NextSlotLemma DEF SlotFacts
  <2>. QED
    BY Zenon, <2>1, <2>2
<1>15. ASSUME NEW k \in RingIndex, k = stat.wr
       PROVE  Slot(k)' = w[p].job
  <2>1. w'[p].cs.wr = k /\ w'[p].job = w[p].job /\ Storing(p)'
    BY Zenon, <1>5, <1>7, <1>8, <1>15
  <2>. QED
    BY Zenon, <1>13, <2>1, NextSlotLemma DEF SlotFacts
<1>16. Jobs' = Append(Jobs, w[p].job)
  BY ZenonT(60), <1>1, <1>3, <1>4, <1>13, <1>14, <1>15, AddedLemma
<1>17. w'[p].pc = "store" /\ Len(Jobs) < MaxJobs
  BY SMTT(60), <1>4, <1>5, <1>7, JobsLemma, SafeRingAssumption DEF JobsFacts
<1>. QED
  BY Zenon, <1>2, <1>13, <1>16, <1>17 DEF JobAdded

-----------------------------------------------------------------------------
(* A step of the reader that does not change the word. *)
LEMMA QuietReaderLemma ==
  ASSUME SafeInv, writers = <<>>, NEW r \in Reader, rd' = r, UNCHANGED <<stat, ring, writers, w>>,
         r.pc \in {"reload", "copy", "cas"} => Earlier(r.cs),
         r.pc \in {"copy", "cas"} =>
           ~IsEmpty(r.cs) /\ (stat = r.cs => r.ns = Taken(stat)),
         r.pc = "cas" => r.elem = ring[stat.rd]
  PROVE  SafeInv' /\ Jobs' = Jobs
<1>1. \A p \in Producer : ~Storing(p)
  BY SMTT(60) DEF SafeInv, WriterInv, IsWriting, Storing
<1>2. SafeTypeOK' /\ Good(stat)' /\ WritersDiffer'
  BY SMTT(60) DEF SafeInv, SafeTypeOK, WritersDiffer
<1>3. ASSUME NEW p \in Producer
      PROVE  WriterInv(p)'
  BY Zenon DEF SafeInv, WriterInv, IsWriting, Storing, Earlier
<1>4. ReaderInv' /\ \A p \in Producer : ~Storing(p)'
  BY Zenon, <1>1 DEF ReaderInv, Storing, Earlier
<1>5. SafeInv'
  BY Zenon, <1>2, <1>3, <1>4 DEF SafeInv
<1>6. Jobs' = Jobs
  BY Zenon DEF Jobs, Slot
<1>. QED
  BY Zenon, <1>5, <1>6

(* The steps of a read before its CAS, and a CAS that fails. *)
LEMMA ReadLookStep ==
  ASSUME SafeInv, writers = <<>>,
         \/ SafeReadBegin \/ SafeReadLoad \/ SafeReadEmpty \/ SafeReadReload \/ SafeReadCopy
         \/ SafeReadCas /\ stat # rd.cs
  PROVE  SafeInv' /\ Jobs' = Jobs
<1>1. stat \in Stat /\ Good(stat) /\ Count(stat) \in 0..MaxJobs /\ stat.rd \in RingIndex
  BY Zenon, CountLemma DEF SafeInv, SafeTypeOK, Stat
<1>2. rd \in Reader /\ ReaderInv /\ ring \in [RingIndex -> Job \cup {NoJob}]
  BY Zenon DEF SafeInv, SafeTypeOK
<1>3. UNCHANGED <<stat, ring, writers, w>>
  BY Zenon DEF SafeReadBegin, SafeReadLoad, SafeReadEmpty, SafeReadReload, SafeReadCopy, SafeReadCas
<1>4. Earlier(stat)
  BY SMTT(60), <1>1 DEF Earlier
<1>5. CASE SafeReadBegin \/ SafeReadLoad
  <2>1. rd' \in Reader /\ rd'.pc = "reload" /\ rd'.cs = stat
    <3>1. CASE SafeReadBegin
      BY Zenon, <1>1, <3>1, ZeroLemma DEF SafeReadBegin, Reader
    <3>2. CASE SafeReadLoad
      BY ZenonT(60), <1>1, <1>2, <3>2 DEF SafeReadLoad, Reader
    <3>. QED
      BY Zenon, <1>5, <3>1, <3>2
  <2>. QED
    BY Zenon, <1>3, <1>4, <2>1, QuietReaderLemma
<1>6. CASE SafeReadEmpty
  <2>1. rd' \in Reader /\ rd'.pc = "out"
    BY ZenonT(60), <1>2, <1>6, ZeroLemma DEF SafeReadEmpty, Reader
  <2>. QED
    BY Zenon, <1>3, <2>1, QuietReaderLemma
<1>7. CASE SafeReadReload
  <2>1. Taken(stat) \in Stat
    BY ZenonT(60), <1>1, SuccLemma DEF Taken, Stat
  <2>2. rd' \in Reader /\ rd'.pc = "copy" /\ rd'.cs = rd.cs /\ rd'.ns = Taken(stat)
    BY ZenonT(60), <1>2, <1>7, <2>1 DEF SafeReadReload, Reader
  <2>3. Earlier(rd.cs) /\ ~IsEmpty(rd.cs)
    BY Zenon, <1>2, <1>7 DEF SafeReadReload, ReaderInv
  <2>. QED
    BY Zenon, <1>3, <2>2, <2>3, QuietReaderLemma
<1>8. CASE SafeReadCopy
  <2>1. Earlier(rd.cs) /\ ~IsEmpty(rd.cs) /\ (stat = rd.cs => rd.ns = Taken(stat))
    BY Zenon, <1>2, <1>8 DEF SafeReadCopy, ReaderInv
  <2>2. rd.cs.rd = stat.rd /\ ring[stat.rd] \in Job \cup {NoJob}
    BY Zenon, <1>1, <1>2, <2>1 DEF Earlier
  <2>3. /\ rd' \in Reader /\ rd'.pc = "cas" /\ rd'.cs = rd.cs /\ rd'.ns = rd.ns
        /\ rd'.elem = ring[stat.rd]
    BY ZenonT(60), <1>2, <1>8, <2>2 DEF SafeReadCopy, Reader
  <2>. QED
    BY Zenon, <1>3, <2>1, <2>3, QuietReaderLemma
<1>9. CASE SafeReadCas /\ stat # rd.cs
  <2>1. rd' \in Reader /\ rd'.pc = "load"
    BY ZenonT(60), <1>2, <1>9, ZeroLemma DEF SafeReadCas, Reader
  <2>. QED
    BY Zenon, <1>3, <1>9, <2>1, QuietReaderLemma
<1>. QED
  BY Zenon, <1>5, <1>6, <1>7, <1>8, <1>9

(* A CAS that succeeds takes the oldest job, which the reader has copied. *)
LEMMA ReadCasStep ==
  ASSUME SafeInv, writers = <<>>, SafeReadCas, stat = rd.cs
  PROVE  SafeInv' /\ JobTaken
<1>1. stat \in Stat /\ Good(stat) /\ stat.rd \in RingIndex /\ rd \in Reader /\ ReaderInv
  BY Zenon DEF SafeInv, SafeTypeOK, Stat
<1>2. /\ rd.pc = "cas" /\ ~IsEmpty(stat) /\ stat' = Taken(stat) /\ UNCHANGED <<ring, writers, w>>
      /\ rd.elem = ring[stat.rd]
  BY Zenon, <1>1 DEF SafeReadCas, ReaderInv
<1>3. /\ stat' \in Stat /\ Good(stat') /\ stat'.rd = WrapJob(stat.rd + 1)
      /\ Count(stat') = Count(stat) - 1
  BY Zenon, <1>1, <1>2, TakenLemma
<1>4. Count(stat) \in 1..MaxJobs
  BY <1>1, <1>2, CountLemma, SafeRingAssumption
<1>5. rd' \in Reader /\ rd'.pc = "out" /\ rd'.elem = rd.elem
  BY ZenonT(60), <1>1, ZeroLemma DEF SafeReadCas, Reader
<1>6. \A p \in Producer : w[p].pc = "out"
  <2>1. \A p \in Producer : ~IsWriting(p)
    BY SMTT(60) DEF IsWriting
  <2>. QED
    BY ZenonT(60), <2>1 DEF SafeInv, WriterInv
<1>7. SafeInv'
  <2>1. SafeTypeOK' /\ Good(stat)' /\ WritersDiffer'
    BY SMTT(60), <1>2, <1>3, <1>5 DEF SafeInv, SafeTypeOK, WritersDiffer
  <2>2. \A p \in Producer : WriterInv(p)' /\ ~Storing(p)'
    BY SMTT(60), <1>2, <1>6 DEF WriterInv, IsWriting, Storing
  <2>. QED
    BY Zenon, <1>5, <2>1, <2>2 DEF SafeInv, ReaderInv
<1>8. \A k \in RingIndex : Slot(k)' = ring[k] /\ Slot(k) = ring[k]
  BY Zenon, <1>2, <1>6 DEF Slot
<1>9. /\ Jobs \in Seq(Job \cup {NoJob}) /\ Len(Jobs) = Count(stat) /\ Jobs # <<>>
      /\ Jobs' \in Seq(Job \cup {NoJob}) /\ Len(Jobs') = Count(stat) - 1
  BY SMTT(60), <1>3, <1>4, <1>7, JobsLemma, NextJobsLemma DEF JobsFacts
<1>10. Head(Jobs) = ring[stat.rd]
  <2>1. Jobs[1] = Slot(WrapJob(stat.rd + 1 - 1))
    BY <1>4, JobsLemma DEF JobsFacts
  <2>2. WrapJob(stat.rd + 1 - 1) = stat.rd
    BY SMTT(60), <1>1, SafeRingAssumption DEF WrapJob, RingIndex
  <2>. QED
    BY <1>1, <1>8, <1>9, <2>1, <2>2
<1>11. ASSUME NEW i \in 1..(Count(stat) - 1)
       PROVE  Jobs'[i] = Jobs[i + 1]
  <2>1. PICK k \in RingIndex :
          k = WrapJob(WrapJob(stat.rd + 1) + i - 1) /\ k = WrapJob(stat.rd + (i + 1) - 1)
    <3>1. i \in 1..(MaxJobs - 1)
      BY <1>4, SafeRingAssumption
    <3>. QED
      BY Zenon, <1>1, <3>1, ShiftLemma
  <2>2. Jobs'[i] = Slot(k)'
    BY Zenon, <1>3, <1>7, <2>1, NextJobsLemma DEF JobsFacts
  <2>3. i + 1 \in 1..Count(stat)
    BY <1>4
  <2>4. Jobs[i + 1] = Slot(k)
    BY Zenon, <2>1, <2>3, JobsLemma DEF JobsFacts
  <2>. QED
    BY Zenon, <1>8, <2>2, <2>4
<1>12. /\ Tail(Jobs) \in Seq(Job \cup {NoJob}) /\ Len(Tail(Jobs)) = Count(stat) - 1
       /\ \A i \in 1..(Count(stat) - 1) : Tail(Jobs)[i] = Jobs[i + 1]
  BY <1>4, <1>9
<1>13. Jobs' = Tail(Jobs)
  BY Zenon, <1>9, <1>11, <1>12, SameElements
<1>. QED
  BY Zenon, <1>2, <1>5, <1>7, <1>9, <1>10, <1>13 DEF JobTaken

-----------------------------------------------------------------------------
(* Each step keeps the invariant, and leaves the queue as it is, adds a    *)
(* job at its end, or takes the first one.                                 *)
LEMMA SafeStep ==
  ASSUME SafeInv, [SafeNext]_safeVars
  PROVE  SafeInv' /\ (Jobs' = Jobs \/ JobAdded \/ JobTaken)
<1>1. CASE \E p \in Producer, j \in Job : SafeWriteBegin(p, j)
  BY Zenon, <1>1, WriteBeginStep
<1>2. CASE writers # <<>> /\ Write(writers[Len(writers)])
  <2>1. PICK p \in Producer : p = writers[Len(writers)]
    BY <1>2 DEF SafeInv, SafeTypeOK
  <2>2. CASE SafeWriteLoad(p) \/ SafeWriteReload(p) \/ (SafeWriteCas(p) /\ stat # w[p].cs)
    BY Zenon, <2>2, WriteLookStep
  <2>3. CASE SafeWriteFull(p)
    BY Zenon, <1>2, <2>1, <2>3, WriteFullStep
  <2>4. CASE SafeWriteCas(p) /\ stat = w[p].cs
    BY Zenon, <2>4, WriteCasStep
  <2>5. CASE SafeWriteStore(p)
    BY Zenon, <1>2, <2>1, <2>5, WriteStoreStep
  <2>. QED
    BY Zenon, <1>2, <2>1, <2>2, <2>3, <2>4, <2>5 DEF Write
<1>3. CASE writers = <<>> /\ Read
  <2>1. CASE SafeReadCas /\ stat = rd.cs
    BY Zenon, <1>3, <2>1, ReadCasStep
  <2>2. CASE ~(SafeReadCas /\ stat = rd.cs)
    BY Zenon, <1>3, <2>2, ReadLookStep DEF Read
  <2>. QED
    BY Zenon, <2>1, <2>2
<1>4. CASE UNCHANGED safeVars
  <2>1. Jobs' = Jobs
    BY Zenon, <1>4 DEF safeVars, Jobs, Slot
  <2>2. SafeInv'
    BY ZenonT(60), <1>4 DEF safeVars, SafeInv, SafeTypeOK, WritersDiffer, WriterInv, ReaderInv, IsWriting,
                Storing, Earlier
  <2>. QED
    BY Zenon, <2>1, <2>2
<1>. QED
  BY Zenon, <1>1, <1>2, <1>3, <1>4 DEF SafeNext

(* A word that a context has loaded is never taken for a later one: the    *)
(* CAS of __safe_ringbuf_write and __safe_ringbuf_read succeeds only if    *)
(* nothing happened since, and two writers never store into one slot.      *)
THEOREM SafeInvariance == SafeSpec => []SafeInv
<1>1. SafeInv /\ [SafeNext]_safeVars => SafeInv'
  BY Zenon, SafeStep
<1>. QED
  BY <1>1, SafeInitInv, PTL DEF SafeSpec

(* The ring is a queue, for any number of producers that interrupt one     *)
(* another and the consumer at any point, and for any size.                *)
THEOREM SafeRingIsQueue == SafeSpec => JobsAreQueued
<1>1. SafeInv /\ [SafeNext]_safeVars => [Jobs' = Jobs \/ JobAdded \/ JobTaken]_safeVars
  BY Zenon, SafeStep
<1>. QED
  BY <1>1, SafeInvariance, PTL DEF SafeSpec, JobsAreQueued

-----------------------------------------------------------------------------
(* ringbuf. *)

(* MIN. *)
LEMMA SmallerLemma ==
  ASSUME NEW a \in Int, NEW b \in Int
  PROVE  /\ Smaller(a, b) \in Int
         /\ a < b => Smaller(a, b) = a
         /\ a >= b => Smaller(a, b) = b
BY DEF Smaller

(* Positions wrap around with %. *)
LEMMA WrapLemma ==
  ASSUME NEW i \in 0..(2 * MaxElems - 1)
  PROVE  i % MaxElems = Wrap(i) /\ Wrap(i) \in Index
<1>1. CASE i < MaxElems
  BY <1>1, RingAssumption DEF Wrap, Index
<1>2. CASE i >= MaxElems
  <2>1. PICK x \in 0..(MaxElems - 1) : i = MaxElems + x
    <3>1. i - MaxElems \in 0..(MaxElems - 1)
      BY <1>2, RingAssumption
    <3>. QED
      BY <3>1, RingAssumption
  <2>2. (MaxElems + x) % MaxElems = x
    BY RingAssumption
  <2>. QED
    BY <1>2, <2>1, <2>2, RingAssumption DEF Wrap, Index
<1>. QED
  BY <1>1, <1>2, RingAssumption

(* The lengths of the two chunks of a copy from position p, which has `e`  *)
(* bytes to go before position q.                                          *)
LEMMA ChunksLemma ==
  ASSUME NEW p \in Index, NEW q \in Index, NEW e \in 1..MaxElems, q = Wrap(p + e),
         NEW len \in Nat
  PROVE  LET one == PartOne(p, q, len)
             two == PartTwo(p, q, len)
         IN  /\ one \in Nat /\ two \in Nat /\ one + two = Smaller(len, e)
             /\ one + two <= len /\ one + two <= e
             /\ p + one <= MaxElems /\ (two > 0 => p + one = MaxElems) /\ two <= q
             /\ p < q => p + one <= q
BY RingAssumption DEF PartOne, PartTwo, Smaller, Wrap, Index

(* A slice of what the caller wants to write. *)
LEMMA SliceLemma ==
  ASSUME NEW s \in Seq(Byte), NEW a \in Nat \ {0}, NEW b \in Nat, b <= Len(s), a <= b + 1
  PROVE  /\ SubSeq(s, a, b) \in Seq(Byte)
         /\ Len(SubSeq(s, a, b)) = b - a + 1
         /\ \A i \in 1..(b - a + 1) : SubSeq(s, a, b)[i] = s[a + i - 1]
<1>1. \A i \in a..b : s[i] \in Byte
  OBVIOUS
<1>2. SubSeq(s, a, b) \in Seq(Byte) /\ Len(SubSeq(s, a, b)) = IF a <= b THEN b - a + 1 ELSE 0
  BY <1>1
<1>3. \A i \in 1..(b - a + 1) : SubSeq(s, a, b)[i] = s[a + i - 1]
  BY <1>1
<1>. QED
  BY <1>2, <1>3

(* A run of bytes in the buffer, as a sequence. *)
LEMMA RunLemma ==
  ASSUME NEW b \in [Index -> Byte], NEW p \in Index, NEW n \in 0..MaxElems
  PROVE  LET c == [i \in 1..n |-> b[Wrap(p + i - 1)]]
         IN  c \in Seq(Byte) /\ Len(c) = n /\ \A i \in 1..n : c[i] = b[Wrap(p + i - 1)]
<1>0. n \in Nat
  BY RingAssumption
<1>1. ASSUME NEW i \in 1..n
      PROVE  b[Wrap(p + i - 1)] \in Byte
  <2>1. Wrap(p + i - 1) \in Index
    BY RingAssumption DEF Index, Wrap
  <2>. QED
    BY Zenon, <2>1
<1>2. [i \in 1..n |-> b[Wrap(p + i - 1)]] \in [1..n -> Byte]
  BY Zenon, <1>1
<1>. QED
  BY <1>0, <1>2

(* The queue that the buffer stands for, before a step. *)
LEMMA ContentsLemma ==
  ASSUME RingInv
  PROVE  /\ Contents \in Seq(Byte) /\ Len(Contents) = elems
         /\ \A i \in 1..elems : Contents[i] = buf[Wrap(readPos + i - 1)]
BY RunLemma DEF RingInv, RingTypeOK, Contents

(* And after it. *)
LEMMA NextContentsLemma ==
  ASSUME RingInv'
  PROVE  /\ Contents' \in Seq(Byte) /\ Len(Contents') = elems'
         /\ \A i \in 1..elems' : Contents'[i] = buf'[Wrap(readPos' + i - 1)]
BY SMTT(60), RunLemma DEF RingInv, RingTypeOK, Contents

(* Part one and part two of a write go where the reader will find them,    *)
(* and together they fill the buffer if the caller has enough bytes.       *)
LEMMA WriteBytesLemma ==
  ASSUME RingInv, NEW s \in Seq(Byte), RingWriteBytes(s), elems # MaxElems
  PROVE  LET total == Smaller(Len(s), MaxElems - elems)
         IN  /\ RingInv'
             /\ moved' = SubSeq(s, 1, total) /\ elems' = elems + total /\ readPos' = readPos
             /\ \A i \in 1..elems : buf'[Wrap(readPos + i - 1)] = buf[Wrap(readPos + i - 1)]
             /\ \A i \in 1..total : buf'[Wrap(readPos + elems + i - 1)] = s[i]
<1> DEFINE first == PartOne(writePos, readPos, Len(s))
           second == PartTwo(writePos, readPos, Len(s))
           total == Smaller(Len(s), MaxElems - elems)
<1> USE RingAssumption
<1>1. /\ readPos \in 0..(MaxElems - 1) /\ writePos \in 0..(MaxElems - 1)
      /\ elems \in 0..(MaxElems - 1) /\ buf \in [Index -> Byte]
      /\ writePos = IF readPos + elems < MaxElems THEN readPos + elems
                    ELSE readPos + elems - MaxElems
      /\ Len(s) \in Nat
  BY DEF RingInv, RingTypeOK, Index, Wrap
<1>2. /\ first \in Nat /\ second \in Nat /\ first + second = total
      /\ first + second <= Len(s) /\ first + second <= MaxElems - elems
      /\ writePos + first <= MaxElems /\ (second > 0 => writePos + first = MaxElems)
      /\ second <= readPos
      /\ writePos < readPos => writePos + first <= readPos
  <2>1. /\ MaxElems - elems \in 1..MaxElems /\ readPos = Wrap(writePos + (MaxElems - elems))
        /\ readPos \in Index /\ writePos \in Index
    BY <1>1 DEF Wrap, Index
  <2>2. PICK e \in 1..MaxElems : e = MaxElems - elems
    BY Zenon, <2>1
  <2>3. readPos = Wrap(writePos + e) /\ Len(s) \in Nat
    BY Zenon, <1>1, <2>1, <2>2
  <2> HIDE RingAssumption
  <2>4. /\ first \in Nat /\ second \in Nat /\ first + second = Smaller(Len(s), e)
        /\ first + second <= Len(s) /\ first + second <= e
        /\ writePos + first <= MaxElems /\ (second > 0 => writePos + first = MaxElems)
        /\ second <= readPos
        /\ writePos < readPos => writePos + first <= readPos
    BY ONLY ZenonT(60), <2>1, <2>2, <2>3, ChunksLemma
  <2>. QED
    BY Zenon, <2>2, <2>4
<1>3. /\ buf' = Store(Store(buf, writePos, SubSeq(s, 1, first)), 0, SubSeq(s, first + 1, first + second))
      /\ writePos' = ((writePos + first) % MaxElems) + second
      /\ elems' = elems + first + second /\ moved' = SubSeq(s, 1, first + second) /\ readPos' = readPos
  BY Zenon DEF RingWriteBytes
<1> HIDE DEF first, second, total
<1>4. (writePos + first) % MaxElems = Wrap(writePos + first) /\ Wrap(writePos + first) \in Index
  BY SMTT(60), <1>1, <1>2, WrapLemma
<1>5. writePos' = Wrap(readPos + elems') /\ writePos' \in Index /\ elems' \in 0..MaxElems
  <2>1. elems' \in 0..MaxElems
    BY SMTT(60), <1>1, <1>2, <1>3
  <2>2. CASE writePos + first < MaxElems
    <3>1. second = 0 /\ writePos' = writePos + first /\ elems' = elems + first
      BY <1>1, <1>2, <1>3, <1>4, <2>2 DEF Wrap
    <3>. QED
      BY SMTT(60), <1>1, <1>2, <2>1, <2>2, <3>1 DEF Wrap, Index
  <2>3. CASE writePos + first = MaxElems
    <3>1. writePos' = second /\ elems' = elems + first + second
      BY <1>1, <1>2, <1>3, <1>4, <2>3 DEF Wrap
    <3>2. writePos = readPos + elems
      BY <1>1, <1>2, <2>3
    <3>. QED
      BY SMTT(60), <1>1, <1>2, <2>1, <2>3, <3>1, <3>2 DEF Wrap, Index
  <2>. QED
    BY SMTT(60), <1>1, <1>2, <2>2, <2>3
<1>6. /\ Len(SubSeq(s, 1, first)) = first /\ Len(SubSeq(s, first + 1, first + second)) = second
      /\ \A i \in 1..first : SubSeq(s, 1, first)[i] = s[i]
      /\ \A i \in 1..second : SubSeq(s, first + 1, first + second)[i] = s[first + i]
      /\ SubSeq(s, 1, first + second) \in Seq(Byte)
  <2>1. /\ Len(SubSeq(s, 1, first)) = first
        /\ \A i \in 1..first : SubSeq(s, 1, first)[i] = s[i]
    BY <1>1, <1>2, SliceLemma
  <2>2. /\ Len(SubSeq(s, first + 1, first + second)) = second
        /\ \A i \in 1..second : SubSeq(s, first + 1, first + second)[i] = s[first + i]
    <3>1. /\ first + 1 \in Nat \ {0} /\ first + second \in Nat
          /\ first + second <= Len(s) /\ first + 1 <= (first + second) + 1
          /\ (first + second) - (first + 1) + 1 = second
      BY <1>1, <1>2
    <3>2. /\ Len(SubSeq(s, first + 1, first + second)) = (first + second) - (first + 1) + 1
          /\ \A i \in 1..((first + second) - (first + 1) + 1) :
               SubSeq(s, first + 1, first + second)[i] = s[(first + 1) + i - 1]
      BY Zenon, <3>1, SliceLemma
    <3>3. ASSUME NEW i \in 1..second
          PROVE  SubSeq(s, first + 1, first + second)[i] = s[first + i]
      <4>1. (first + 1) + i - 1 = first + i
        BY <1>2
      <4>. QED
        BY SMTT(60), <3>1, <3>2, <4>1
    <3>. QED
      BY Zenon, <3>1, <3>2, <3>3
  <2>3. SubSeq(s, 1, first + second) \in Seq(Byte)
    BY SMTT(60), <1>1, <1>2, SliceLemma
  <2>. QED
    BY ZenonT(60), <2>1, <2>2, <2>3
<1>7. buf' = [i \in Index |-> IF i < second THEN s[first + i + 1]
                              ELSE IF writePos <= i /\ i < writePos + first
                                   THEN s[i - writePos + 1] ELSE buf[i]]
  BY <1>1, <1>2, <1>3, <1>6 DEF Store, Index
<1>8. RingInv'
  <2>1. buf' \in [Index -> Byte]
    BY SMTT(60), <1>1, <1>2, <1>7 DEF Index
  <2>. QED
    BY ZenonT(60), <1>1, <1>3, <1>5, <1>6, <2>1 DEF RingInv, RingTypeOK, Index
<1>9. \A i \in 1..elems : buf'[Wrap(readPos + i - 1)] = buf[Wrap(readPos + i - 1)]
  BY SMTT(60), <1>1, <1>2, <1>7 DEF Wrap, Index
<1>10. \A i \in 1..total : buf'[Wrap(readPos + elems + i - 1)] = s[i]
  BY SMTT(60), <1>1, <1>2, <1>7 DEF Wrap, Index
<1>11. moved' = SubSeq(s, 1, total) /\ elems' = elems + total
  <2>1. elems + first + second = elems + total
    BY <1>1, <1>2
  <2>. QED
    BY Zenon, <1>2, <1>3, <2>1
<1>. QED
  BY ZenonT(60), <1>3, <1>8, <1>9, <1>10, <1>11 DEF total

(* What was written is at the end of the queue. *)
LEMMA ContentsAppendLemma ==
  ASSUME RingInv, RingInv', NEW t \in Seq(Byte), readPos' = readPos, elems' = elems + Len(t),
         \A i \in 1..elems : buf'[Wrap(readPos + i - 1)] = buf[Wrap(readPos + i - 1)],
         \A i \in 1..Len(t) : buf'[Wrap(readPos + elems + i - 1)] = t[i]
  PROVE  Contents' = Contents \o t
<1>1. elems \in Nat /\ Len(t) \in Nat /\ readPos \in Nat
  BY RingAssumption DEF RingInv, RingTypeOK, Index
<1>2. /\ Contents \o t \in Seq(Byte) /\ Len(Contents \o t) = elems + Len(t)
      /\ \A i \in 1..(elems + Len(t)) :
           (Contents \o t)[i] = IF i <= elems THEN Contents[i] ELSE t[i - elems]
  BY SMTT(60), <1>1, ContentsLemma
<1>3. ASSUME NEW i \in 1..(elems + Len(t))
      PROVE  Contents'[i] = (Contents \o t)[i]
  <2>1. Contents'[i] = buf'[Wrap(readPos + i - 1)]
    BY Zenon, NextContentsLemma
  <2>2. CASE i <= elems
    <3>1. i \in 1..elems
      BY <1>1, <2>2
    <3>2. (Contents \o t)[i] = Contents[i]
      BY Zenon, <1>2, <2>2
    <3>. QED
      BY Zenon, <2>1, <3>1, <3>2, ContentsLemma
  <2>3. CASE i > elems
    <3>1. PICK j \in 1..Len(t) : i = elems + j
      <4>1. i - elems \in 1..Len(t)
        BY <1>1, <2>3
      <4>. QED
        BY <1>1, <4>1
    <3>2. readPos + i - 1 = readPos + elems + j - 1 /\ i - elems = j
      BY <1>1, <3>1
    <3>. QED
      BY <1>1, <1>2, <2>1, <2>3, <3>1, <3>2
  <2>4. i <= elems \/ i > elems
    BY <1>1
  <2>. QED
    BY Zenon, <2>2, <2>3, <2>4
<1>. QED
  BY ZenonT(60), <1>2, <1>3, NextContentsLemma, SameElements

(* What was read is taken from the front of the queue. *)
LEMMA DropLemma ==
  ASSUME RingInv, RingInv', NEW k \in 0..elems, buf' = buf,
         readPos' = Wrap(readPos + k), elems' = elems - k
  PROVE  Contents' = SubSeq(Contents, k + 1, Len(Contents))
<1>1. /\ elems \in 0..MaxElems /\ k \in Nat /\ k <= elems /\ readPos \in 0..(MaxElems - 1)
      /\ Len(Contents) = elems
  BY RingAssumption, ContentsLemma DEF RingInv, RingTypeOK, Index
<1>2. /\ SubSeq(Contents, k + 1, elems) \in Seq(Byte)
      /\ Len(SubSeq(Contents, k + 1, elems)) = elems - (k + 1) + 1
      /\ \A i \in 1..(elems - (k + 1) + 1) :
           SubSeq(Contents, k + 1, elems)[i] = Contents[(k + 1) + i - 1]
  <2>1. k + 1 \in Nat \ {0} /\ elems \in Nat /\ elems <= Len(Contents) /\ k + 1 <= elems + 1
    BY <1>1, RingAssumption
  <2>. QED
    BY ZenonT(60), <2>1, ContentsLemma, SliceLemma
<1>3. ASSUME NEW i \in 1..(elems - k)
      PROVE  Contents'[i] = SubSeq(Contents, k + 1, elems)[i]
  <2>1. /\ i \in 1..(elems - (k + 1) + 1) /\ k + i \in 1..elems /\ (k + 1) + i - 1 = k + i
        /\ Wrap(readPos' + i - 1) = Wrap(readPos + (k + i) - 1)
    BY <1>1, RingAssumption DEF Wrap
  <2>2. Contents'[i] = buf[Wrap(readPos' + i - 1)]
    BY Zenon, NextContentsLemma
  <2>3. SubSeq(Contents, k + 1, elems)[i] = Contents[k + i]
    BY Zenon, <1>2, <2>1
  <2>4. Contents[k + i] = buf[Wrap(readPos + (k + i) - 1)]
    BY Zenon, <2>1, ContentsLemma
  <2>. QED
    BY Zenon, <2>1, <2>2, <2>3, <2>4
<1>4. elems - (k + 1) + 1 = elems - k
  BY <1>1, RingAssumption
<1>. QED
  BY Zenon, <1>1, <1>2, <1>3, <1>4, NextContentsLemma, SameElements

(* Part one and part two of a read are, in this order, the oldest bytes.   *)
LEMMA ReadBytesLemma ==
  ASSUME RingInv, NEW asked \in Nat, RingReadBytes(asked), elems # 0
  PROVE  LET total == Smaller(asked, elems)
         IN  /\ RingInv' /\ total \in 0..elems
             /\ moved' = SubSeq(Contents, 1, total)
             /\ Contents' = SubSeq(Contents, total + 1, Len(Contents))
<1> DEFINE first == PartOne(readPos, writePos, asked)
           second == PartTwo(readPos, writePos, asked)
           total == Smaller(asked, elems)
<1>1. /\ readPos \in 0..(MaxElems - 1) /\ writePos \in 0..(MaxElems - 1)
      /\ readPos \in Index /\ writePos \in Index
      /\ elems \in 1..MaxElems /\ buf \in [Index -> Byte]
      /\ writePos = Wrap(readPos + elems)
  BY RingAssumption DEF RingInv, RingTypeOK, Index
<1>2. /\ first \in Nat /\ second \in Nat /\ first + second = total
      /\ first + second <= asked /\ first + second <= elems
      /\ readPos + first <= MaxElems /\ (second > 0 => readPos + first = MaxElems)
      /\ second <= writePos
  <2>1. /\ first \in Nat /\ second \in Nat /\ first + second = Smaller(asked, elems)
        /\ first + second <= asked /\ first + second <= elems
        /\ readPos + first <= MaxElems /\ (second > 0 => readPos + first = MaxElems)
        /\ second <= writePos
        /\ readPos < writePos => readPos + first <= writePos
    <3>1. PICK e \in 1..MaxElems : e = elems
      BY Zenon, <1>1
    <3>2. /\ readPos \in Index /\ writePos \in Index /\ asked \in Nat
          /\ writePos = Wrap(readPos + e)
      BY Zenon, <1>1, <3>1
    <3>3. /\ first \in Nat /\ second \in Nat /\ first + second = Smaller(asked, e)
          /\ first + second <= asked /\ first + second <= e
          /\ readPos + first <= MaxElems /\ (second > 0 => readPos + first = MaxElems)
          /\ second <= writePos
          /\ readPos < writePos => readPos + first <= writePos
      BY ONLY SMTT(60), <3>1, <3>2, ChunksLemma
    <3>. QED
      BY Zenon, <3>1, <3>3
  <2>. QED
    BY Zenon, <2>1
<1>3. /\ moved' = Load(buf, readPos, first) \o Load(buf, 0, second)
      /\ readPos' = ((readPos + first) % MaxElems) + second
      /\ elems' = elems - (first + second) /\ buf' = buf /\ writePos' = writePos
  BY Zenon DEF RingReadBytes
<1> HIDE DEF first, second, total
<1> USE RingAssumption
<1>4. (readPos + first) % MaxElems = Wrap(readPos + first)
  BY <1>1, <1>2, WrapLemma
<1>5. /\ readPos' = Wrap(readPos + total) /\ readPos' \in Index
      /\ total \in 0..elems /\ elems' = elems - total /\ elems' \in 0..MaxElems
      /\ writePos' = Wrap(readPos' + elems')
  <2>1. total \in 0..elems /\ elems' = elems - total /\ elems' \in 0..MaxElems
    BY SMTT(60), <1>1, <1>2, <1>3
  <2>2. CASE readPos + first < MaxElems
    <3>0. second = 0 /\ total = first
      BY <1>1, <1>2, <2>2
    <3>1. second = 0 /\ readPos' = readPos + first /\ total = first
      BY <1>1, <1>2, <1>3, <1>4, <2>2, <3>0 DEF Wrap
    <3>2. readPos' = Wrap(readPos + total) /\ readPos' \in Index
      BY <1>1, <1>2, <2>2, <3>1 DEF Wrap, Index
    <3>3. readPos' + elems' = readPos + elems
      BY <1>1, <1>2, <2>1, <3>1
    <3>. QED
      BY Zenon, <1>1, <1>3, <2>1, <3>2, <3>3
  <2>3. CASE readPos + first = MaxElems
    <3>1. readPos' = second
      BY <1>1, <1>2, <1>3, <1>4, <2>3 DEF Wrap
    <3>. QED
      BY SMTT(60), <1>1, <1>2, <1>3, <2>1, <2>3, <3>1 DEF Wrap, Index
  <2>. QED
    BY <1>1, <1>2, <2>2, <2>3
<1>6. /\ Load(buf, readPos, first) \in Seq(Byte) /\ Len(Load(buf, readPos, first)) = first
      /\ \A i \in 1..first : Load(buf, readPos, first)[i] = buf[readPos + i - 1]
  <2>1. ASSUME NEW i \in 1..first PROVE buf[readPos + i - 1] \in Byte
    <3>1. readPos + i - 1 \in Index
      BY <1>1, <1>2 DEF Index
    <3>. QED
      BY Zenon, <1>1, <3>1
  <2>2. Load(buf, readPos, first) \in [1..first -> Byte]
    BY Zenon, <2>1 DEF Load
  <2>. QED
    BY <1>2, <2>2 DEF Load
<1>7. /\ Load(buf, 0, second) \in Seq(Byte) /\ Len(Load(buf, 0, second)) = second
      /\ \A i \in 1..second : Load(buf, 0, second)[i] = buf[i - 1]
  <2>1. ASSUME NEW i \in 1..second PROVE buf[0 + i - 1] \in Byte /\ 0 + i - 1 = i - 1
    <3>1. 0 + i - 1 \in Index /\ 0 + i - 1 = i - 1
      BY <1>1, <1>2 DEF Index
    <3>. QED
      BY Zenon, <1>1, <3>1
  <2>2. Load(buf, 0, second) \in [1..second -> Byte]
    BY Zenon, <2>1 DEF Load
  <2>. QED
    BY <1>2, <2>1, <2>2 DEF Load
<1>8. /\ moved' \in Seq(Byte) /\ Len(moved') = first + second
      /\ \A i \in 1..(first + second) : moved'[i] =
           IF i <= first THEN Load(buf, readPos, first)[i] ELSE Load(buf, 0, second)[i - first]
  BY SMTT(60), <1>3, <1>6, <1>7
<1>9. RingInv'
  BY Zenon, <1>1, <1>3, <1>5, <1>8 DEF RingInv, RingTypeOK
<1>10. moved' = SubSeq(Contents, 1, total)
  <2>1. /\ SubSeq(Contents, 1, total) \in Seq(Byte) /\ Len(SubSeq(Contents, 1, total)) = total
        /\ \A i \in 1..total : SubSeq(Contents, 1, total)[i] = Contents[i]
    <3>1. 1 \in Nat \ {0} /\ total \in Nat /\ total <= Len(Contents) /\ 1 <= total + 1
      BY <1>1, <1>5, ContentsLemma
    <3>. QED
      BY <3>1, ContentsLemma, SliceLemma
  <2>2. ASSUME NEW i \in 1..total
        PROVE  moved'[i] = SubSeq(Contents, 1, total)[i]
    <3>1. i \in 1..elems /\ i \in 1..(first + second)
      BY <1>1, <1>2
    <3>2. SubSeq(Contents, 1, total)[i] = buf[Wrap(readPos + i - 1)]
      BY Zenon, <2>1, <3>1, ContentsLemma
    <3>3. CASE i <= first
      <4>1. Wrap(readPos + i - 1) = readPos + i - 1 /\ i \in 1..first
        BY <1>1, <1>2, <3>3 DEF Wrap
      <4>. QED
        BY Zenon, <1>6, <1>8, <3>1, <3>2, <3>3, <4>1
    <3>4. CASE ~(i <= first)
      <4>1. Wrap(readPos + i - 1) = (i - first) - 1 /\ i - first \in 1..second
        BY <1>1, <1>2, <3>1, <3>4 DEF Wrap
      <4>. QED
        BY Zenon, <1>7, <1>8, <3>1, <3>2, <3>4, <4>1
    <3>. QED
      BY ZenonT(60), <3>3, <3>4
  <2>. QED
    BY Zenon, <1>2, <1>8, <2>1, <2>2, SameElements
<1>11. Contents' = SubSeq(Contents, total + 1, Len(Contents))
  BY Zenon, <1>3, <1>5, <1>9, DropLemma
<1>. QED
  BY Zenon, <1>5, <1>9, <1>10, <1>11 DEF total

(* The byte written last is taken back from the end of the queue. *)
LEMMA UnwriteLemma ==
  ASSUME RingInv, RingUnwriteElem, elems # 0
  PROVE  /\ RingInv'
         /\ moved' = SubSeq(Contents, elems, elems)
         /\ Contents' = SubSeq(Contents, 1, elems - 1)
<1> USE RingAssumption
<1>1. /\ readPos \in 0..(MaxElems - 1) /\ writePos \in 0..(MaxElems - 1) /\ readPos \in Index
      /\ elems \in 1..MaxElems /\ buf \in [Index -> Byte]
      /\ writePos = Wrap(readPos + elems)
  BY DEF RingInv, RingTypeOK, Index
<1>2. /\ writePos' = (MaxElems + writePos - 1) % MaxElems /\ elems' = elems - 1
      /\ moved' = <<buf[writePos']>> /\ readPos' = readPos /\ buf' = buf
  BY Zenon DEF RingUnwriteElem
<1>3. writePos' = Wrap(MaxElems + writePos - 1) /\ writePos' \in Index
  <2>1. MaxElems + writePos - 1 \in 0..(2 * MaxElems - 1)
    BY <1>1
  <2>. QED
    BY ZenonT(60), <1>2, <2>1, WrapLemma
<1>4. writePos' = Wrap(readPos + elems') /\ elems' \in 0..MaxElems
  BY <1>1, <1>2, <1>3 DEF Wrap
<1>5. buf[writePos'] \in Byte
  BY Zenon, <1>1, <1>3
<1>6. moved' \in Seq(Byte) /\ Len(moved') = 1 /\ moved'[1] = buf[writePos']
  BY <1>2, <1>5
<1>7. RingInv'
  BY Zenon, <1>1, <1>2, <1>3, <1>4, <1>6 DEF RingInv, RingTypeOK
<1>8. moved' = SubSeq(Contents, elems, elems)
  <2>1. /\ elems \in Nat \ {0} /\ elems \in Nat /\ elems <= Len(Contents) /\ elems <= elems + 1
        /\ elems - elems + 1 = 1 /\ elems + 1 - 1 = elems
    BY <1>1, ContentsLemma
  <2>2. /\ SubSeq(Contents, elems, elems) \in Seq(Byte)
        /\ Len(SubSeq(Contents, elems, elems)) = elems - elems + 1
        /\ \A i \in 1..(elems - elems + 1) :
             SubSeq(Contents, elems, elems)[i] = Contents[elems + i - 1]
    BY ONLY SMTT(60), <2>1, ContentsLemma, RingInv, SliceLemma
  <2>3. SubSeq(Contents, elems, elems)[1] = Contents[elems]
    BY <2>1, <2>2
  <2>4. Contents[elems] = buf[Wrap(readPos + elems - 1)]
    BY <1>1, ContentsLemma
  <2>5. Wrap(readPos + elems - 1) = writePos'
    BY Zenon, <1>1, <1>2, <1>4
  <2>6. ASSUME NEW i \in 1..Len(moved')
        PROVE  moved'[i] = SubSeq(Contents, elems, elems)[i]
    <3>1. i = 1
      BY <1>6
    <3>2. moved'[1] = SubSeq(Contents, elems, elems)[1]
      BY Zenon, <1>6, <2>3, <2>4, <2>5
    <3>. QED
      BY Zenon, <3>1, <3>2
  <2>7. Len(moved') = Len(SubSeq(Contents, elems, elems))
    BY Zenon, <1>6, <2>1, <2>2
  <2>. QED
    BY Zenon, <1>6, <2>2, <2>6, <2>7, SameElements
<1>9. Contents' = SubSeq(Contents, 1, elems - 1)
  <2>1. /\ 1 \in Nat \ {0} /\ elems - 1 \in Nat /\ elems - 1 <= Len(Contents)
        /\ 1 <= (elems - 1) + 1 /\ (elems - 1) - 1 + 1 = elems - 1
    BY <1>1, ContentsLemma
  <2>2. /\ SubSeq(Contents, 1, elems - 1) \in Seq(Byte)
        /\ Len(SubSeq(Contents, 1, elems - 1)) = (elems - 1) - 1 + 1
        /\ \A i \in 1..((elems - 1) - 1 + 1) :
             SubSeq(Contents, 1, elems - 1)[i] = Contents[1 + i - 1]
    BY ONLY SMTT(60), <2>1, ContentsLemma, RingInv, SliceLemma
  <2>3. ASSUME NEW i \in 1..elems'
        PROVE  Contents'[i] = SubSeq(Contents, 1, elems - 1)[i]
    <3>1. 1 + i - 1 = i /\ i \in 1..((elems - 1) - 1 + 1) /\ i \in 1..elems
      BY <1>1, <1>2, <2>1
    <3>2. Contents'[i] = buf[Wrap(readPos + i - 1)]
      BY Zenon, <1>2, <1>7, NextContentsLemma
    <3>3. Contents[i] = buf[Wrap(readPos + i - 1)]
      BY Zenon, <3>1, ContentsLemma
    <3>4. SubSeq(Contents, 1, elems - 1)[i] = Contents[i]
      BY Zenon, <2>2, <3>1
    <3>. QED
      BY Zenon, <3>2, <3>3, <3>4
  <2>4. Len(SubSeq(Contents, 1, elems - 1)) = elems'
    BY Zenon, <1>2, <2>1, <2>2
  <2>. QED
    BY Zenon, <1>7, <2>2, <2>3, <2>4, NextContentsLemma, SameElements
<1>. QED
  BY Zenon, <1>7, <1>8, <1>9

(* A single byte is written as a sequence of length one. *)
LEMMA WriteElemLemma ==
  ASSUME RingInv, NEW b \in Byte, RingWriteElem(b), elems # MaxElems
  PROVE  RingInv' /\ moved' = <<b>> /\ Contents' = Contents \o <<b>>
<1> USE RingAssumption
<1>1. /\ readPos \in 0..(MaxElems - 1) /\ writePos \in 0..(MaxElems - 1) /\ readPos \in Index
      /\ writePos \in Index /\ elems \in 0..(MaxElems - 1) /\ buf \in [Index -> Byte]
      /\ writePos = Wrap(readPos + elems)
  BY DEF RingInv, RingTypeOK, Index
<1>2. /\ writePos' = (writePos + 1) % MaxElems /\ elems' = elems + 1
      /\ moved' = <<b>> /\ readPos' = readPos /\ buf' = [buf EXCEPT ![writePos] = b]
  BY Zenon DEF RingWriteElem
<1>3. writePos' = Wrap(writePos + 1) /\ writePos' \in Index
  <2>1. writePos + 1 \in 0..(2 * MaxElems - 1)
    BY <1>1
  <2>. QED
    BY ZenonT(60), <1>2, <2>1, WrapLemma
<1>4. writePos' = Wrap(readPos + elems') /\ elems' \in 0..MaxElems
  BY <1>1, <1>2, <1>3 DEF Wrap
<1>5. buf' \in [Index -> Byte] /\ <<b>> \in Seq(Byte) /\ Len(<<b>>) = 1 /\ <<b>>[1] = b
  BY <1>1, <1>2
<1>6. RingInv'
  BY Zenon, <1>1, <1>2, <1>3, <1>4, <1>5 DEF RingInv, RingTypeOK
<1>7. ASSUME NEW i \in 1..elems
      PROVE  buf'[Wrap(readPos + i - 1)] = buf[Wrap(readPos + i - 1)]
  <2>1. Wrap(readPos + i - 1) # writePos /\ Wrap(readPos + i - 1) \in Index
    BY <1>1 DEF Wrap, Index
  <2>. QED
    BY Zenon, <1>1, <1>2, <2>1
<1>8. ASSUME NEW i \in 1..Len(<<b>>)
      PROVE  buf'[Wrap(readPos + elems + i - 1)] = <<b>>[i]
  <2>1. i = 1 /\ readPos + elems + i - 1 = readPos + elems
    BY <1>1, <1>5
  <2>2. buf'[writePos] = b
    BY Zenon, <1>1, <1>2
  <2>. QED
    BY Zenon, <1>1, <1>5, <2>1, <2>2
<1>9. elems' = elems + Len(<<b>>)
  BY Zenon, <1>2, <1>5
<1>. QED
  BY ZenonT(60), <1>2, <1>5, <1>6, <1>7, <1>8, <1>9, ContentsAppendLemma

(* The invariant holds at first and is preserved by every operation.       *)
LEMMA RingInitInv ==
  ASSUME RingInit
  PROVE  RingInv /\ BQ!Init
<1>1. RingInv
  BY RingAssumption DEF RingInit, RingInv, RingTypeOK, Index, Wrap
<1>2. Contents = <<>>
  <2>1. Len(Contents) = 0 /\ Contents \in Seq(Byte)
    BY Zenon, <1>1, ContentsLemma DEF RingInit
  <2>. QED
    BY <2>1
<1>. QED
  BY Zenon, <1>1, <1>2 DEF RingInit, BQ!Init

(* An operation that does nothing, on a full or on an empty buffer. *)
LEMMA NothingLemma ==
  ASSUME RingInv, Nothing
  PROVE  RingInv' /\ Contents' = Contents /\ moved' = <<>>
<1>1. <<>> \in Seq(Byte)
  OBVIOUS
<1>. QED
  BY Zenon, <1>1 DEF Nothing, RingInv, RingTypeOK, Contents

(* What callers write are sequences of bytes. *)
LEMMA RequestLemma ==
  /\ \A s \in Request : s \in Seq(Byte)
  /\ \A b \in Byte : <<b>> \in Request
<1>1. ASSUME NEW s \in Request PROVE s \in Seq(Byte)
  <2>1. PICK n \in 0..MaxLen : s \in [1..n -> Byte]
    BY Zenon DEF Request
  <2>2. n \in Nat
    BY RingAssumption
  <2>. QED
    BY <2>1, <2>2
<1>2. ASSUME NEW b \in Byte PROVE <<b>> \in Request
  <2>1. <<b>> \in [1..1 -> Byte] /\ 1 \in 0..MaxLen
    BY RingAssumption
  <2>. QED
    BY Zenon, <2>1 DEF Request
<1>. QED
  BY Zenon, <1>1, <1>2

(* Slices that are empty or the whole. *)
LEMMA TrivialSlices ==
  ASSUME NEW s \in Seq(Byte)
  PROVE  /\ SubSeq(s, 1, 0) = <<>> /\ s \o <<>> = s
         /\ SubSeq(s, 1, Len(s)) = s /\ (Len(s) = 0 => s = <<>>)
<1>1. SubSeq(s, 1, 0) = <<>>
  OBVIOUS
<1>2. s \o <<>> = s
  OBVIOUS
<1>3. Len(s) = 0 => s = <<>>
  OBVIOUS
<1>4. SubSeq(s, 1, Len(s)) = s
  OBVIOUS
<1>. QED
  BY Zenon, <1>1, <1>2, <1>3, <1>4

(* ringbuf_write_bytes is a Put. *)
LEMMA PutStep ==
  ASSUME RingInv, NEW s \in Request, RingWriteBytes(s)
  PROVE  RingInv' /\ BQ!Put(s)
<1>0. s \in Seq(Byte) /\ Len(s) \in Nat /\ Len(Contents) = elems /\ Contents \in Seq(Byte)
  BY RequestLemma, ContentsLemma
<1>1. CASE elems = MaxElems
  <2>1. Nothing
    BY Zenon, <1>1 DEF RingWriteBytes
  <2>2. Smaller(Len(s), MaxElems - Len(Contents)) = 0
    BY <1>0, <1>1, RingAssumption DEF Smaller
  <2>3. RingInv' /\ Contents' = Contents /\ moved' = <<>>
    BY Zenon, <2>1, NothingLemma
  <2>4. moved' = SubSeq(s, 1, 0) /\ Contents' = Contents \o moved'
    BY Zenon, <1>0, <2>3, TrivialSlices
  <2>. QED
    BY Zenon, <2>2, <2>3, <2>4 DEF BQ!Put, BQ!Smaller, Smaller
<1>2. CASE elems # MaxElems
  <2> DEFINE total == Smaller(Len(s), MaxElems - elems)
  <2>1. /\ RingInv'
        /\ moved' = SubSeq(s, 1, total) /\ elems' = elems + total /\ readPos' = readPos
        /\ \A i \in 1..elems : buf'[Wrap(readPos + i - 1)] = buf[Wrap(readPos + i - 1)]
        /\ \A i \in 1..total : buf'[Wrap(readPos + elems + i - 1)] = s[i]
    BY Zenon, <1>0, <1>2, WriteBytesLemma
  <2>2. total \in Nat /\ total <= Len(s) /\ 1 \in Nat \ {0} /\ 1 <= total + 1 /\ total - 1 + 1 = total
    BY <1>0, <1>2, RingAssumption DEF Smaller, RingInv, RingTypeOK
  <2> HIDE DEF total
  <2>3. /\ moved' \in Seq(Byte) /\ Len(moved') = total - 1 + 1
        /\ \A i \in 1..(total - 1 + 1) : moved'[i] = s[1 + i - 1]
    BY ONLY SMTT(60), <1>0, <2>1, <2>2, SliceLemma
  <2>4. ASSUME NEW i \in 1..Len(moved')
        PROVE  buf'[Wrap(readPos + elems + i - 1)] = moved'[i]
    <3>1. i \in 1..total /\ i \in 1..(total - 1 + 1) /\ 1 + i - 1 = i
      BY <2>2, <2>3
    <3>. QED
      BY Zenon, <2>1, <2>3, <3>1
  <2>5. elems' = elems + Len(moved')
    BY Zenon, <2>1, <2>2, <2>3
  <2>6. Contents' = Contents \o moved'
    BY ZenonT(60), <2>1, <2>3, <2>4, <2>5, ContentsAppendLemma
  <2>7. moved' = SubSeq(s, 1, Smaller(Len(s), MaxElems - Len(Contents)))
    BY Zenon, <1>0, <2>1 DEF total
  <2>. QED
    BY ZenonT(60), <2>1, <2>6, <2>7 DEF BQ!Put, BQ!Smaller, Smaller
<1>. QED
  BY Zenon, <1>1, <1>2

(* ringbuf_write_elem is a Put of one byte. *)
LEMMA PutElemStep ==
  ASSUME RingInv, NEW b \in Byte, RingWriteElem(b)
  PROVE  RingInv' /\ BQ!Put(<<b>>)
<1>0. /\ <<b>> \in Seq(Byte) /\ Len(<<b>>) = 1 /\ Len(Contents) = elems /\ Contents \in Seq(Byte)
      /\ elems \in 0..MaxElems
  BY ContentsLemma DEF RingInv, RingTypeOK
<1>1. CASE elems = MaxElems
  <2>1. Nothing
    BY Zenon, <1>1 DEF RingWriteElem
  <2>2. Smaller(Len(<<b>>), MaxElems - Len(Contents)) = 0
    BY <1>0, <1>1, RingAssumption DEF Smaller
  <2>3. RingInv' /\ Contents' = Contents /\ moved' = <<>>
    BY Zenon, <2>1, NothingLemma
  <2>4. moved' = SubSeq(<<b>>, 1, 0) /\ Contents' = Contents \o moved'
    BY Zenon, <1>0, <2>3, TrivialSlices
  <2>. QED
    BY <2>2, <2>3, <2>4 DEF BQ!Put, BQ!Smaller, Smaller
<1>2. CASE elems # MaxElems
  <2>1. RingInv' /\ moved' = <<b>> /\ Contents' = Contents \o <<b>>
    BY Zenon, <1>2, WriteElemLemma
  <2>2. Smaller(Len(<<b>>), MaxElems - Len(Contents)) = 1
    BY <1>0, <1>2, RingAssumption DEF Smaller
  <2>3. SubSeq(<<b>>, 1, 1) = <<b>>
    BY ZenonT(60), <1>0, TrivialSlices
  <2>. QED
    BY Zenon, <2>1, <2>2, <2>3 DEF BQ!Put, BQ!Smaller, Smaller
<1>. QED
  BY Zenon, <1>1, <1>2

(* ringbuf_read_bytes is a Get. *)
LEMMA GetStep ==
  ASSUME RingInv, NEW n \in 0..MaxLen, RingReadBytes(n)
  PROVE  RingInv' /\ BQ!Get(n)
<1>0. Len(Contents) = elems /\ Contents \in Seq(Byte) /\ n \in Nat
  BY RingAssumption, ContentsLemma
<1>1. CASE elems = 0
  <2>1. RingInv' /\ Contents' = Contents /\ moved' = <<>>
    BY Zenon, <1>1, NothingLemma DEF RingReadBytes
  <2>2. Smaller(n, Len(Contents)) = 0
    BY <1>0, <1>1 DEF Smaller
  <2>3. SubSeq(Contents, 1, 0) = <<>> /\ SubSeq(Contents, 0 + 1, Len(Contents)) = Contents
    BY <1>0, TrivialSlices
  <2>. QED
    BY ZenonT(60), <2>1, <2>2, <2>3 DEF BQ!Get, BQ!Smaller, Smaller
<1>2. CASE elems # 0
  <2>1. /\ RingInv' /\ moved' = SubSeq(Contents, 1, Smaller(n, elems))
        /\ Contents' = SubSeq(Contents, Smaller(n, elems) + 1, Len(Contents))
    BY Zenon, <1>0, <1>2, ReadBytesLemma
  <2>. QED
    BY Zenon, <1>0, <2>1 DEF BQ!Get, BQ!Smaller, Smaller
<1>. QED
  BY Zenon, <1>1, <1>2

(* Reading one element is a read of one byte. *)
LEMMA ReadElemIsRead ==
  ASSUME RingInv, RingReadElem
  PROVE  RingReadBytes(1)
<1>1. CASE elems = 0
  BY Zenon, <1>1 DEF RingReadElem, RingReadBytes
<1>2. CASE elems # 0
  <2>0. readPos \in 0..(MaxElems - 1) /\ writePos \in 0..(MaxElems - 1) /\ buf \in [Index -> Byte]
    BY Zenon, RingAssumption DEF RingInv, RingTypeOK, Index
  <2>1. PartOne(readPos, writePos, 1) = 1 /\ PartTwo(readPos, writePos, 1) = 0
    BY <2>0, RingAssumption DEF PartOne, PartTwo, Smaller
  <2>2. /\ moved' = <<buf[readPos]>> /\ readPos' = (readPos + 1) % MaxElems /\ elems' = elems - 1
        /\ UNCHANGED <<writePos, buf>>
    BY Zenon, <1>2 DEF RingReadElem
  <2>3. Load(buf, readPos, 1) \o Load(buf, 0, 0) = <<buf[readPos]>>
    <3>1. buf[readPos] \in Byte
      BY Zenon, <2>0 DEF Index
    <3>2. Load(buf, 0, 0) = <<>>
      BY DEF Load
    <3>3. Load(buf, readPos, 1) = <<buf[readPos]>>
      <4>1. \A i \in 1..1 : readPos + i - 1 = readPos
        BY <2>0
      <4>2. Load(buf, readPos, 1) \in [1..1 -> Byte] /\ Load(buf, readPos, 1)[1] = buf[readPos]
        BY <3>1, <4>1 DEF Load
      <4>3. Load(buf, readPos, 1) \in Seq(Byte) /\ Len(Load(buf, readPos, 1)) = 1
        BY <4>2 DEF Load
      <4>4. <<buf[readPos]>> \in Seq(Byte) /\ Len(<<buf[readPos]>>) = 1
            /\ <<buf[readPos]>>[1] = buf[readPos]
        BY <3>1
      <4>5. \A i \in 1..1 : Load(buf, readPos, 1)[i] = <<buf[readPos]>>[i]
        BY <4>2, <4>4
      <4>. QED
        BY Zenon, <4>3, <4>4, <4>5, SameElements
    <3>4. <<buf[readPos]>> \in Seq(Byte)
      BY <3>1
    <3>5. <<buf[readPos]>> \o <<>> = <<buf[readPos]>>
      BY Zenon, <3>4, TrivialSlices
    <3>. QED
      BY Zenon, <3>2, <3>3, <3>5
  <2>4. readPos' = ((readPos + 1) % MaxElems) + 0 /\ elems' = elems - (1 + 0)
    BY <2>0, <2>2, RingAssumption
  <2>. QED
    BY Zenon, <1>2, <2>1, <2>2, <2>3, <2>4 DEF RingReadBytes
<1>. QED
  BY Zenon, <1>1, <1>2

(* ringbuf_unwrite_elem is an Unput. *)
LEMMA UnputStep ==
  ASSUME RingInv, RingUnwriteElem
  PROVE  RingInv' /\ BQ!Unput
<1>0. Len(Contents) = elems /\ Contents \in Seq(Byte) /\ elems \in Nat
  BY RingAssumption, ContentsLemma DEF RingInv, RingTypeOK
<1>1. CASE elems = 0
  <2>1. RingInv' /\ Contents' = Contents /\ moved' = <<>> /\ Contents = <<>>
    BY Zenon, <1>0, <1>1, NothingLemma, TrivialSlices DEF RingUnwriteElem
  <2>2. Smaller(1, Len(Contents)) = 0 /\ Len(Contents) - 0 + 1 = 1 /\ Len(Contents) - 0 = 0
    BY <1>0, <1>1 DEF Smaller
  <2>3. SubSeq(Contents, 1, 0) = <<>> /\ SubSeq(Contents, 1, Len(Contents)) = Contents
    BY Zenon, <1>0, TrivialSlices
  <2>. QED
    BY Zenon, <2>1, <2>2, <2>3 DEF BQ!Unput, BQ!Smaller, Smaller
<1>2. CASE elems # 0
  <2>1. /\ RingInv' /\ moved' = SubSeq(Contents, elems, elems)
        /\ Contents' = SubSeq(Contents, 1, elems - 1)
    BY Zenon, <1>2, UnwriteLemma
  <2>2. Smaller(1, Len(Contents)) = 1 /\ Len(Contents) - 1 + 1 = elems
    BY <1>0, <1>2 DEF Smaller
  <2>. QED
    BY Zenon, <1>0, <2>1, <2>2 DEF BQ!Unput, BQ!Smaller, Smaller
<1>. QED
  BY Zenon, <1>1, <1>2

(* ringbuf_reset is a Clear. *)
LEMMA ClearStep ==
  ASSUME RingInv, RingReset
  PROVE  RingInv' /\ BQ!Clear
<1>1. RingInv'
  BY RingAssumption DEF RingReset, RingInv, RingTypeOK, Index, Wrap
<1>2. Contents' \in Seq(Byte) /\ Len(Contents') = 0
  BY Zenon, <1>1, NextContentsLemma DEF RingReset
<1>3. Contents' = <<>>
  BY <1>2
<1>. QED
  BY Zenon, <1>1, <1>3 DEF RingReset, BQ!Clear

(* Every step of the ring buffer is a step of the queue. *)
LEMMA RingStep ==
  ASSUME RingInv, [RingNext]_ringVars
  PROVE  RingInv' /\ [BQ!Next]_<<Contents, moved>>
<1>1. CASE \E s \in Request : RingWriteBytes(s)
  BY Zenon, <1>1, PutStep DEF BQ!Next
<1>2. CASE \E n \in 0..MaxLen : RingReadBytes(n)
  BY Zenon, <1>2, GetStep DEF BQ!Next
<1>3. CASE \E b \in Byte : RingWriteElem(b)
  BY ZenonT(60), <1>3, PutElemStep, RequestLemma DEF BQ!Next
<1>4. CASE RingReadElem
  <2>1. RingReadBytes(1) /\ 1 \in 0..MaxLen
    BY <1>4, ReadElemIsRead, RingAssumption
  <2>. QED
    BY Zenon, <2>1, GetStep DEF BQ!Next
<1>5. CASE RingUnwriteElem
  BY Zenon, <1>5, UnputStep DEF BQ!Next
<1>6. CASE RingReset
  BY Zenon, <1>6, ClearStep DEF BQ!Next
<1>7. CASE UNCHANGED ringVars
  BY Zenon, <1>7 DEF ringVars, RingInv, RingTypeOK, Contents
<1>. QED
  BY Zenon, <1>1, <1>2, <1>3, <1>4, <1>5, <1>6, <1>7 DEF RingNext

(* write_pos is where read_pos and elems say it is, in every state of a    *)
(* ring buffer of any size.                                                *)
THEOREM RingInvariance == RingSpec => []RingInv
BY RingInitInv, RingStep, PTL DEF RingSpec

(* A ring buffer of any size is a bounded queue. *)
THEOREM RingRefinement == RingSpec => IsBoundedQueue
<1>1. RingInit => BQ!Init
  BY Zenon, RingInitInv
<1>2. RingInv /\ [RingNext]_ringVars => [BQ!Next]_(BQ!vars)
  BY Zenon, RingStep DEF BQ!vars
<1>. QED
  BY <1>1, <1>2, RingInvariance, PTL DEF RingSpec, IsBoundedQueue, BQ!Spec

(* One call moves as many bytes as Pipe says, for a ring buffer of any     *)
(* size and wherever its two positions are: the two chunks of a copy never *)
(* leave out bytes or room that a caller could have had.                   *)
THEOREM RingCountsForPipe == RingSpec => [][RingCounts]_ringVars
<1>1. ASSUME RingInv, NEW s \in Request, RingWriteBytes(s)
      PROVE  elems' = Smaller(elems + Len(s), MaxElems)
  <2>1. s \in Seq(Byte) /\ Len(s) \in Nat /\ elems \in 0..MaxElems
    BY RequestLemma, <1>1 DEF RingInv, RingTypeOK
  <2>2. CASE elems = MaxElems
    BY <1>1, <2>1, <2>2, RingAssumption DEF RingWriteBytes, Nothing, Smaller
  <2>3. CASE elems # MaxElems
    <3>1. elems' = elems + Smaller(Len(s), MaxElems - elems)
      BY Zenon, <1>1, <2>1, <2>3, WriteBytesLemma
    <3>. QED
      BY <2>1, <3>1, RingAssumption DEF Smaller
  <2>. QED
    BY Zenon, <2>2, <2>3
<1>2. ASSUME RingInv, NEW n \in 0..MaxLen, RingReadBytes(n)
      PROVE  elems' = IF n < elems THEN elems - n ELSE 0
  <2>1. elems \in 0..MaxElems /\ n \in Nat /\ readPos \in Index /\ writePos \in Index
    BY <1>2, RingAssumption DEF RingInv, RingTypeOK
  <2>2. CASE elems = 0
    BY <1>2, <2>1, <2>2 DEF RingReadBytes, Nothing
  <2>3. CASE elems # 0
    <3>1. elems \in 1..MaxElems /\ writePos = Wrap(readPos + elems)
      BY <1>2, <2>1, <2>3 DEF RingInv
    <3>2. /\ PartOne(readPos, writePos, n) \in Nat /\ PartTwo(readPos, writePos, n) \in Nat
          /\ PartOne(readPos, writePos, n) + PartTwo(readPos, writePos, n) = Smaller(n, elems)
      BY <2>1, <3>1, ChunksLemma
    <3>3. elems' = elems - (PartOne(readPos, writePos, n) + PartTwo(readPos, writePos, n))
      BY Zenon, <1>2, <2>3 DEF RingReadBytes
    <3>. QED
      BY <2>1, <3>2, <3>3 DEF Smaller
  <2>. QED
    BY Zenon, <2>2, <2>3
<1>3. RingInv => RingCounts
  BY Zenon, <1>1, <1>2 DEF RingCounts
<1>. QED
  BY <1>3, RingInvariance, PTL DEF RingSpec

=============================================================================
