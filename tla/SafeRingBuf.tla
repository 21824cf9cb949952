---------------------------- MODULE SafeRingBuf ----------------------------
(***************************************************************************)
(* kernel/safe_ringbuf.cpp: the ring into which IRQ handlers write without *)
(* a lock.  The positions and the full flag are one 32-bit word that is    *)
(* changed by compare-and-swap; the element is stored after the word has   *)
(* been changed.  A step is one access to memory that the others share.    *)
(*                                                                         *)
(* A weak CAS that fails for no reason only repeats the loop, and is left  *)
(* out.                                                                    *)
(***************************************************************************)
EXTENDS Sequences, Naturals

CONSTANTS
  Producer,  \* the contexts that write: IRQ handlers, and tasks that cannot be preempted
  Job,       \* the elements
  NoJob,     \* what is not an element: zeroed memory
  MaxJobs    \* rb->max_elems

ASSUME SafeRingAssumption == MaxJobs \in Nat \ {0} /\ NoJob \notin Job

VARIABLES
  stat,     \* rb->s
  ring,     \* rb->buf
  writers,  \* who is inside a write, the one interrupted first first; rb->nested_writes is its length
  w,        \* where each producer is in __safe_ringbuf_write, and its locals
  rd        \* the same for the consumer in __safe_ringbuf_read

safeVars == <<stat, ring, writers, w, rd>>

RingIndex == 0..(MaxJobs - 1)
Stat == [rd : RingIndex, wr : RingIndex, full : BOOLEAN]
Zero == [rd |-> 0, wr |-> 0, full |-> FALSE]

Writer == [pc : {"out", "load", "reload", "cas", "store"},
           cs : Stat, ns : Stat, job : Job \cup {NoJob}]
Reader == [pc : {"out", "load", "reload", "copy", "cas"},
           cs : Stat, ns : Stat, elem : Job \cup {NoJob}]

SafeTypeOK ==
  /\ stat \in Stat
  /\ ring \in [RingIndex -> Job \cup {NoJob}]
  /\ writers \in Seq(Producer)
  /\ w \in [Producer -> Writer]
  /\ rd \in Reader

(* safe_ringbuf_init, with a buffer from kzalloc. *)
NotWriting == [pc |-> "out", cs |-> Zero, ns |-> Zero, job |-> NoJob]
SafeInit ==
  /\ stat = Zero /\ ring = [i \in RingIndex |-> NoJob] /\ writers = <<>>
  /\ w = [p \in Producer |-> NotWriting]
  /\ rd = [pc |-> "out", cs |-> Zero, ns |-> Zero, elem |-> NoJob]

IsEmpty(s) == s.rd = s.wr /\ ~s.full    \* rb_stat_is_empty

Succ(i) == (i + 1) % MaxJobs

(* The new word that a write and a read try to install. *)
Written(s) ==
  [s EXCEPT !.wr = Succ(s.wr), !.full = IF Succ(s.wr) = s.rd THEN TRUE ELSE s.full]
Taken(s) == [s EXCEPT !.rd = Succ(s.rd), !.full = FALSE]

-----------------------------------------------------------------------------
(* __safe_ringbuf_write.                                                   *)

(* begin_debug_write_checks, and the first look at the word: cs = rb->s. *)
SafeWriteBegin(p, j) ==
  /\ w[p].pc = "out"
  /\ w' = [w EXCEPT ![p] = [pc |-> "reload", cs |-> stat, ns |-> Zero, job |-> j]]
  /\ writers' = Append(writers, p)
  /\ UNCHANGED <<stat, ring, rd>>

(* The same after a CAS that failed. *)
SafeWriteLoad(p) ==
  /\ w[p].pc = "load"
  /\ w' = [w EXCEPT ![p].pc = "reload", ![p].cs = stat]
  /\ UNCHANGED <<stat, ring, writers, rd>>

(* The write returns: p is the last that has begun. *)
SafeWriteEnd(p) ==
  /\ w' = [w EXCEPT ![p] = NotWriting]
  /\ writers' = SubSeq(writers, 1, Len(writers) - 1)

(* The ring was full: the write returns false. *)
SafeWriteFull(p) ==
  /\ w[p].pc = "reload" /\ w[p].cs.full
  /\ SafeWriteEnd(p)
  /\ UNCHANGED <<stat, ring, rd>>

(* ns = rb->s, a second look at the word, and the new word. *)
SafeWriteReload(p) ==
  /\ w[p].pc = "reload" /\ ~w[p].cs.full
  /\ w' = [w EXCEPT ![p].pc = "cas", ![p].ns = Written(stat)]
  /\ UNCHANGED <<stat, ring, writers, rd>>

(* Mutant: the word is stored without a comparison. *)
SafeWriteCas_Blind(p) ==
  /\ w[p].pc = "cas"
  /\ stat' = w[p].ns /\ w' = [w EXCEPT ![p].pc = "store"]
  /\ UNCHANGED <<ring, writers, rd>>

SafeWriteCas(p) ==
  /\ w[p].pc = "cas"
  /\ IF stat = w[p].cs
     THEN stat' = w[p].ns /\ w' = [w EXCEPT ![p].pc = "store"]
     ELSE stat' = stat /\ w' = [w EXCEPT ![p].pc = "load", ![p].cs = Zero, ![p].ns = Zero]
  /\ UNCHANGED <<ring, writers, rd>>

(* The element is stored; the write returns true. *)
SafeWriteStore(p) ==
  /\ w[p].pc = "store"
  /\ ring' = [ring EXCEPT ![w[p].cs.wr] = w[p].job]
  /\ SafeWriteEnd(p)
  /\ UNCHANGED <<stat, rd>>

-----------------------------------------------------------------------------
(* __safe_ringbuf_read.                                                    *)

(* begin_debug_read_checks, which panics when there are writers, and the  *)
(* first look at the word.                                                 *)
SafeReadBegin ==
  /\ rd.pc = "out"
  /\ rd' = [pc |-> "reload", cs |-> stat, ns |-> Zero, elem |-> NoJob]
  /\ UNCHANGED <<stat, ring, writers, w>>

SafeReadLoad ==
  /\ rd.pc = "load"
  /\ rd' = [rd EXCEPT !.pc = "reload", !.cs = stat]
  /\ UNCHANGED <<stat, ring, writers, w>>

(* The ring was empty: the read returns false. *)
SafeReadEmpty ==
  /\ rd.pc = "reload" /\ IsEmpty(rd.cs)
  /\ rd' = [rd EXCEPT !.pc = "out", !.cs = Zero]
  /\ UNCHANGED <<stat, ring, writers, w>>

SafeReadReload ==
  /\ rd.pc = "reload" /\ ~IsEmpty(rd.cs)
  /\ rd' = [rd EXCEPT !.pc = "copy", !.ns = Taken(stat)]
  /\ UNCHANGED <<stat, ring, writers, w>>

SafeReadCopy ==
  /\ rd.pc = "copy"
  /\ rd' = [rd EXCEPT !.pc = "cas", !.elem = ring[rd.cs.rd]]
  /\ UNCHANGED <<stat, ring, writers, w>>

(* The read returns true, or starts again. *)
SafeReadCas ==
  /\ rd.pc = "cas"
  /\ stat' = IF stat = rd.cs THEN rd.ns ELSE stat
  /\ rd' = [rd EXCEPT !.pc = IF stat = rd.cs THEN "out" ELSE "load", !.cs = Zero, !.ns = Zero]
  /\ UNCHANGED <<ring, writers, w>>

-----------------------------------------------------------------------------
(* What the comment in safe_ringbuf.h allows: "Producer code might         *)
(* interrupt consumer code or producer code. Consumer code must NEVER      *)
(* interrupt producer code".                                               *)

Write(p) ==
  \/ SafeWriteLoad(p) \/ SafeWriteFull(p) \/ SafeWriteReload(p)
  \/ SafeWriteCas(p) \/ SafeWriteStore(p)

Read ==
  \/ SafeReadBegin \/ SafeReadLoad \/ SafeReadEmpty \/ SafeReadReload
  \/ SafeReadCopy \/ SafeReadCas

SafeNext ==
  \/ \E p \in Producer, j \in Job : SafeWriteBegin(p, j)
  \/ writers # <<>> /\ Write(writers[Len(writers)])
  \/ writers = <<>> /\ Read

SafeSpec == SafeInit /\ [][SafeNext]_safeVars

-----------------------------------------------------------------------------
(* The number of elements that a word stands for. *)
Count(s) ==
  IF s.full THEN MaxJobs
  ELSE IF s.rd <= s.wr THEN s.wr - s.rd ELSE s.wr + MaxJobs - s.rd

WrapJob(i) == IF i < MaxJobs THEN i ELSE i - MaxJobs

(* What is in slot i, or will be as soon as an interrupted writer goes on. *)
Slot(i) ==
  IF \E p \in Producer : w[p].pc = "store" /\ w[p].cs.wr = i
  THEN w[CHOOSE p \in Producer : w[p].pc = "store" /\ w[p].cs.wr = i].job
  ELSE ring[i]

(* The jobs in the ring, the oldest first. *)
Jobs == [i \in 1..Count(stat) |-> Slot(WrapJob(stat.rd + i - 1))]

(* A producer whose CAS has succeeded adds its job at the end. *)
JobAdded ==
  \E p \in Producer :
    /\ w[p].pc = "cas" /\ w'[p].pc = "store"
    /\ Len(Jobs) < MaxJobs /\ Jobs' = Append(Jobs, w[p].job)

(* A consumer whose CAS has succeeded has got the oldest job. *)
JobTaken ==
  /\ rd.pc = "cas" /\ rd'.pc = "out"
  /\ Jobs # <<>> /\ Jobs' = Tail(Jobs) /\ rd'.elem = Head(Jobs)

(* However producers interrupt each other and the consumer, between the    *)
(* two loads, before the CAS or between the CAS and the store: the ring is *)
(* a queue in which each job is written once and read once, in the order   *)
(* of the CASs, and a job is never read before it has been stored.         *)
JobsAreQueued == [][Jobs' = Jobs \/ JobAdded \/ JobTaken]_safeVars

-----------------------------------------------------------------------------
(* The inductive invariant.  A word s, loaded while the ring held the word *)
(* stat or fewer jobs: nobody reads while a write is under way, and a read *)
(* is not interrupted by another one, so that the word never comes back to *)
(* an earlier value, and the CAS cannot take a new word for the old one.   *)
Good(s) == s.full => s.rd = s.wr

Earlier(s) == Good(s) /\ s.rd = stat.rd /\ Count(s) <= Count(stat)

Storing(p) == w[p].pc = "store"

IsWriting(p) == \E i \in 1..Len(writers) : writers[i] = p

WriterInv(p) ==
  /\ IsWriting(p) <=> w[p].pc # "out"
  /\ w[p].pc \in {"reload", "cas"} => Earlier(w[p].cs)
  /\ w[p].pc = "cas" => ~w[p].cs.full /\ (stat = w[p].cs => w[p].ns = Written(stat))
  /\ Storing(p) =>
       Good(w[p].cs) /\ w[p].cs.rd = stat.rd /\ Count(w[p].cs) < Count(stat)

ReaderInv ==
  /\ rd.pc \in {"reload", "copy", "cas"} => Earlier(rd.cs)
  /\ rd.pc \in {"copy", "cas"} =>
       ~IsEmpty(rd.cs) /\ (stat = rd.cs => rd.ns = Taken(stat))
  /\ rd.pc = "cas" =>
       /\ rd.elem = ring[stat.rd]
       /\ \A p \in Producer : Storing(p) => Count(w[p].cs) > 0

WritersDiffer == \A i, j \in 1..Len(writers) : writers[i] = writers[j] => i = j

SafeInv ==
  /\ SafeTypeOK /\ Good(stat)
  /\ WritersDiffer
  /\ \A p \in Producer : WriterInv(p)
  /\ \A p, q \in Producer :
       Storing(p) /\ Storing(q) /\ Count(w[p].cs) = Count(w[q].cs) => p = q
  /\ ReaderInv

=============================================================================
