------------------------------ MODULE RingBuf ------------------------------
(***************************************************************************)
(* The ring buffer of kernel/ringbuf.c, as pipes and terminals use it: an  *)
(* element is one byte.  Its users hold a lock or have preemption          *)
(* disabled: nothing runs concurrently here.                               *)
(***************************************************************************)
EXTENDS Sequences, Naturals

CONSTANTS
  MaxElems,  \* rb->max_elems
  Byte,
  MaxLen     \* bound on the length that callers ask for

ASSUME RingAssumption == MaxElems \in Nat \ {0} /\ MaxLen \in Nat \ {0}

VARIABLES
  readPos,   \* rb->read_pos
  writePos,  \* rb->write_pos
  elems,     \* rb->elems
  buf,       \* rb->buf
  moved      \* the bytes that the last call copied from or to its caller

ringVars == <<readPos, writePos, elems, buf, moved>>

Index == 0..(MaxElems - 1)

RingTypeOK ==
  /\ readPos \in Index /\ writePos \in Index
  /\ elems \in 0..MaxElems
  /\ buf \in [Index -> Byte]
  /\ moved \in Seq(Byte)

(* ringbuf_init; the buffer is not cleared. *)
RingInit ==
  /\ readPos = 0 /\ writePos = 0 /\ elems = 0
  /\ buf \in [Index -> Byte]
  /\ moved = <<>>

Smaller(m, n) == IF m < n THEN m ELSE n

(* memcpy(b + at, s, Len(s)) and memcpy(..., b + at, n). *)
Store(b, at, s) ==
  [i \in Index |-> IF at <= i /\ i < at + Len(s) THEN s[i - at + 1] ELSE b[i]]
Load(b, at, n) == [i \in 1..n |-> b[at + i - 1]]

(* A copy of len bytes from position p on, before position q, is done in   *)
(* up to two chunks: up to q or to the end of the buffer, and from its     *)
(* start on.                                                               *)
PartOne(p, q, len) == Smaller(len, IF p < q THEN q - p ELSE MaxElems - p)
PartTwo(p, q, len) == IF p < q THEN 0 ELSE Smaller(len - PartOne(p, q, len), q)

Nothing == moved' = <<>> /\ UNCHANGED <<readPos, writePos, elems, buf>>

-----------------------------------------------------------------------------
(* Mutant: part two overwrites what has not been read. *)
RingWriteBytes_NoLimit(s) ==
  LET one == PartOne(writePos, readPos, Len(s))
      two == IF writePos < readPos THEN 0 ELSE Smaller(Len(s) - one, MaxElems - elems)
  IN  IF elems = MaxElems THEN Nothing
      ELSE /\ buf' = Store(Store(buf, writePos, SubSeq(s, 1, one)),
                           0, SubSeq(s, one + 1, one + two))
           /\ writePos' = (((writePos + one) % MaxElems) + two) % MaxElems
           /\ elems' = Smaller(elems + one + two, MaxElems)
           /\ moved' = SubSeq(s, 1, one + two)
           /\ UNCHANGED readPos

(* ringbuf_write_bytes: takes what there is room for. *)
RingWriteBytes(s) ==
  LET one == PartOne(writePos, readPos, Len(s))
      two == PartTwo(writePos, readPos, Len(s))
  IN  IF elems = MaxElems THEN Nothing
      ELSE /\ buf' = Store(Store(buf, writePos, SubSeq(s, 1, one)),
                           0, SubSeq(s, one + 1, one + two))
           /\ writePos' = ((writePos + one) % MaxElems) + two
           /\ elems' = elems + one + two
           /\ moved' = SubSeq(s, 1, one + two)
           /\ UNCHANGED readPos

(* ringbuf_read_bytes, for a caller that asks for `len` bytes. *)
RingReadBytes(len) ==
  LET one == PartOne(readPos, writePos, len)
      two == PartTwo(readPos, writePos, len)
  IN  IF elems = 0 THEN Nothing
      ELSE /\ moved' = Load(buf, readPos, one) \o Load(buf, 0, two)
           /\ readPos' = ((readPos + one) % MaxElems) + two
           /\ elems' = elems - (one + two)
           /\ UNCHANGED <<writePos, buf>>

(* ringbuf_write_elem, ringbuf_write_elem1. *)
RingWriteElem(b) ==
  IF elems = MaxElems THEN Nothing
  ELSE /\ buf' = [buf EXCEPT ![writePos] = b]
       /\ writePos' = (writePos + 1) % MaxElems
       /\ elems' = elems + 1
       /\ moved' = <<b>>
       /\ UNCHANGED readPos

(* ringbuf_read_elem, ringbuf_read_elem1. *)
RingReadElem ==
  IF elems = 0 THEN Nothing
  ELSE /\ moved' = <<buf[readPos]>>
       /\ readPos' = (readPos + 1) % MaxElems
       /\ elems' = elems - 1
       /\ UNCHANGED <<writePos, buf>>

(* Mutant: the position is not wrapped. *)
RingUnwriteElem_NoWrap ==
  IF elems = 0 THEN Nothing
  ELSE /\ writePos' = IF writePos = 0 THEN 0 ELSE writePos - 1
       /\ elems' = elems - 1
       /\ moved' = <<buf[writePos']>>
       /\ UNCHANGED <<readPos, buf>>

(* ringbuf_unwrite_elem: takes back the last byte written. *)
RingUnwriteElem ==
  IF elems = 0 THEN Nothing
  ELSE /\ writePos' = (MaxElems + writePos - 1) % MaxElems
       /\ elems' = elems - 1
       /\ moved' = <<buf[writePos']>>
       /\ UNCHANGED <<readPos, buf>>

(* ringbuf_reset. *)
RingReset ==
  /\ readPos' = 0 /\ writePos' = 0 /\ elems' = 0
  /\ UNCHANGED <<buf, moved>>

Request == UNION {[1..n -> Byte] : n \in 0..MaxLen}

RingNext ==
  \/ \E s \in Request : RingWriteBytes(s)
  \/ \E len \in 0..MaxLen : RingReadBytes(len)
  \/ \E b \in Byte : RingWriteElem(b)
  \/ RingReadElem \/ RingUnwriteElem \/ RingReset

RingSpec == RingInit /\ [][RingNext]_ringVars

-----------------------------------------------------------------------------
Wrap(i) == IF i < MaxElems THEN i ELSE i - MaxElems

(* Where the writer is, relative to the reader. *)
RingInv == RingTypeOK /\ writePos = Wrap(readPos + elems)

(* The bytes written and not yet read, the oldest first. *)
Contents == [i \in 1..elems |-> buf[Wrap(readPos + i - 1)]]

BQ == INSTANCE BoundedQueue WITH
        Size <- MaxElems, Length <- 0..MaxLen, queue <- Contents

(* The ring buffer is a queue: bytes come out in the order in which they   *)
(* went in, each once, however reads and writes wrap around; a write takes *)
(* all there is room for and a read gets all there is.                     *)
IsBoundedQueue == BQ!Spec

(* How far a call gets, all that pipe.c needs to know of the buffer: it    *)
(* stops where the space or the bytes end, not where the buffer does.      *)
RingCounts ==
  /\ \A s \in Request : RingWriteBytes(s) => elems' = Smaller(elems + Len(s), MaxElems)
  /\ \A n \in 0..MaxLen : RingReadBytes(n) => elems' = IF n < elems THEN elems - n ELSE 0

=============================================================================
