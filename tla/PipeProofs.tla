----------------------------- MODULE PipeProofs -----------------------------
(***************************************************************************)
(* A pipe loses no wake-up, for any number of processes, any size of the   *)
(* buffer and any length of the reads and writes.                          *)
(***************************************************************************)
EXTENDS Pipe, WaitListsProofs

(* What the invariant says of process p, apart from the wake-ups. *)
PlaceInv(p) ==
  /\ InList(notEmptyQ, p) => pc[p] = "readWoken" /\ p \notin inside
  /\ InList(notFullQ, p) => pc[p] = "writeWoken" /\ p \notin inside
  /\ pc[p] = "readWait" => inside = {p} /\ elems = 0
  /\ pc[p] = "writeWait" => inside = {p} /\ elems = Size

(* A new pipe satisfies the invariant. *)
LEMMA PipeInitInv == PipeInit => PipeInv
<1> SUFFICES ASSUME PipeInit PROVE PipeInv
  OBVIOUS
<1> USE PipeAssumption DEF PipeInit, NE!MonitorInit, NF!MonitorInit
<1>1. PipeTypeOK
  BY DEF PipeTypeOK, Location, End
<1>2. Distinct(notEmptyQ) /\ Distinct(notFullQ)
  BY DEF Distinct
<1>3. \A q \in Process : PlaceInv(q)
  BY DEF PlaceInv, InList
<1>4. DataIsWatched /\ SpaceIsWatched
  BY Zenon DEF DataIsWatched, SpaceIsWatched
<1>. QED
  BY Zenon, <1>1, <1>2, <1>3, <1>4 DEF PipeInv, PlaceInv

(* The wake-ups that process p owes before it moves, and after: p watches  *)
(* over the bytes, or over the free space.                                 *)
WatchesData(p) == ~Asleep(p) /\ pc[p] \in Reading \cup {"writeEnd"}
WatchesSpace(p) == ~Asleep(p) /\ pc[p] \in Writing \cup {"readEnd"}

(* A step of process p keeps the invariant when p goes to a place where it *)
(* may be, nobody else joins a queue, only who is inside changes the       *)
(* buffer, and p is relieved before it stops watching.                     *)
LEMMA StepLemma ==
  ASSUME PipeInv, NEW p \in Process,
         PipeTypeOK', Distinct(notEmptyQ)', Distinct(notFullQ)',
         \A q \in Process \ {p} :
           /\ pc'[q] = pc[q]
           /\ InList(notEmptyQ, q)' => InList(notEmptyQ, q)
           /\ InList(notFullQ, q)' => InList(notFullQ, q),
         inside' = inside \/ {inside, inside'} \subseteq {{}, {p}},
         elems' = elems \/ inside = {p} \/ \A q \in Process : pc[q] = "out",
         PlaceInv(p)',
         elems' > 0 /\ notEmptyQ' # <<>> =>
           \/ WatchesData(p)'
           \/ elems > 0 /\ notEmptyQ # <<>> /\ ~WatchesData(p)
           \/ \E q \in Process \ {p} : WatchesData(q)',
         elems' < Size /\ notFullQ' # <<>> =>
           \/ WatchesSpace(p)'
           \/ elems < Size /\ notFullQ # <<>> /\ ~WatchesSpace(p)
           \/ \E q \in Process \ {p} : WatchesSpace(q)'
  PROVE  PipeInv'
<1>1. \A q \in Process : PlaceInv(q)
  BY Zenon DEF PipeInv, PlaceInv
<1>2. ASSUME NEW q \in Process \ {p}
      PROVE  PlaceInv(q)'
  BY Zenon, <1>1, <1>2 DEF PlaceInv
<1>3. \A q \in Process \ {p} :
        (WatchesData(q) => WatchesData(q)') /\ (WatchesSpace(q) => WatchesSpace(q)')
  BY Zenon DEF WatchesData, WatchesSpace, Asleep
<1>4. DataIsWatched'
  <2>1. elems > 0 /\ notEmptyQ # <<>> => \E q \in Process : WatchesData(q)
    BY Zenon DEF PipeInv, DataIsWatched, WatchesData
  <2>2. elems' > 0 /\ notEmptyQ' # <<>> => \E q \in Process : WatchesData(q)'
    BY Zenon, <2>1, <1>3
  <2>. QED
    BY Zenon, <2>2 DEF DataIsWatched, WatchesData
<1>5. SpaceIsWatched'
  <2>1. elems < Size /\ notFullQ # <<>> => \E q \in Process : WatchesSpace(q)
    BY Zenon DEF PipeInv, SpaceIsWatched, WatchesSpace
  <2>2. elems' < Size /\ notFullQ' # <<>> => \E q \in Process : WatchesSpace(q)'
    BY Zenon, <2>1, <1>3
  <2>. QED
    BY Zenon, <2>2 DEF SpaceIsWatched, WatchesSpace
<1>. QED
  BY Zenon, <1>2, <1>4, <1>5 DEF PipeInv, PlaceInv

(* Monitor's lists are the same lists. *)
LEMMA SameList ==
  ASSUME NEW q
  PROVE  /\ NE!InList(notEmptyQ, q) <=> InList(notEmptyQ, q)
         /\ NF!InList(notFullQ, q) <=> InList(notFullQ, q)
BY Zenon DEF InList, NE!InList, NF!InList

(* The queues when nobody joins or leaves them. *)
LEMMA SameQueues ==
  ASSUME UNCHANGED queues
  PROVE  /\ notEmptyQ' = notEmptyQ /\ notFullQ' = notFullQ
         /\ Distinct(notEmptyQ)' <=> Distinct(notEmptyQ)
         /\ Distinct(notFullQ)' <=> Distinct(notFullQ)
         /\ \A q : InList(notEmptyQ, q)' <=> InList(notEmptyQ, q)
         /\ \A q : InList(notFullQ, q)' <=> InList(notFullQ, q)
BY Zenon DEF queues, InList, Distinct

(* The steps that neither touch the buffer nor the queues, and after which *)
(* p watches what it did.                                                  *)
LEMMA QuietStep ==
  ASSUME PipeInv, NEW p \in Process,
         \/ CallRead(p) \/ CallWrite(p) \/ GetMutex(p)
         \/ ReadWoken(p) \/ WriteWoken(p) \/ Return(p)
         \/ \E end \in End : Close(p, end)
         \/ \E q \in Process : Fork(p, q)
         \/ ProcessSignals(p)
  PROVE  PipeInv'
<1> USE DEF In, Goto
<1>0. PipeTypeOK /\ PlaceInv(p) /\ Distinct(notEmptyQ) /\ Distinct(notFullQ)
  BY Zenon DEF PipeInv, PlaceInv
<1>1. UNCHANGED <<queues, elems>>
  BY ZenonT(60) DEF CallRead, CallWrite, GetMutex, ReadWoken, WriteWoken, Return, Close, Fork,
         ProcessSignals, queues, NE!Enter, NF!Enter, NE!Leave, NF!Leave
<1>2. inside' \subseteq Process /\ (inside' = inside \/ {inside, inside'} \subseteq {{}, {p}})
  BY ZenonT(60), <1>0 DEF CallRead, CallWrite, GetMutex, ReadWoken, WriteWoken, Return, Close, Fork,
       ProcessSignals, NE!Enter, NE!Leave, PipeTypeOK
<1>3. handles' \subseteq Process \X End
  <2>1. CASE \E q \in Process : Fork(p, q)
    <3>1. PICK q \in Process : Fork(p, q)
      BY Zenon, <2>1
    <3>2. ASSUME NEW h \in handles' PROVE h \in Process \X End
      <4>1. h \in handles \/ \E e \in End : h = <<q, e>>
        BY ZenonT(60), <3>1 DEF Fork
      <4>. QED
        BY SMTT(60), <1>0, <4>1 DEF PipeTypeOK
    <3>. QED
      BY Zenon, <3>2
  <2>2. CASE \E end \in End : Close(p, end)
    BY Zenon, <1>0, <2>2 DEF Close, PipeTypeOK
  <2>. QED
    BY Zenon, <1>0, <2>1, <2>2 DEF CallRead, CallWrite, GetMutex, ReadWoken, WriteWoken, Return,
         ProcessSignals, PipeTypeOK
<1>4. pending' \subseteq Process
  BY ZenonT(60), <1>0 DEF CallRead, CallWrite, GetMutex, ReadWoken, WriteWoken, Return, Close, Fork,
       ProcessSignals, PipeTypeOK
<1>5. /\ pc' \in [Process -> Location]
      /\ \A q \in Process \ {p} : pc'[q] = pc[q]
  BY ZenonT(60), <1>0 DEF CallRead, CallWrite, GetMutex, ReadWoken, WriteWoken, Return, Close, Fork,
       ProcessSignals, PipeTypeOK, Location, Reading, Writing, Closing
<1>6. PipeTypeOK'
  BY Zenon, <1>0, <1>1, <1>2, <1>3, <1>4, <1>5, SameQueues DEF PipeTypeOK
<1>7. PlaceInv(p)'
  <2>1. /\ Asleep(p) => pc'[p] = pc[p] /\ inside' = inside
        /\ pc'[p] \in {"readWait", "writeWait"} => pc'[p] = pc[p] /\ inside' = inside
    <3>1. CASE GetMutex(p)
      BY Zenon, <3>1, SameList DEF GetMutex, Asleep, NE!Enter, NF!Enter
    <3>2. CASE ~GetMutex(p)
      BY ZenonT(60), <1>0, <3>2
         DEF CallRead, CallWrite, ReadWoken, WriteWoken, Return, Close, Fork,
             ProcessSignals, PipeTypeOK, PlaceInv, Asleep, NE!Leave
    <3>. QED
      BY Zenon, <3>1, <3>2
  <2>. QED
    BY Zenon, <1>0, <1>1, <2>1, SameQueues DEF PlaceInv, Asleep
<1>8. (WatchesData(p) => WatchesData(p)') /\ (WatchesSpace(p) => WatchesSpace(p)')
  BY ZenonT(60), <1>0, <1>1, SameQueues
     DEF CallRead, CallWrite, GetMutex, ReadWoken, WriteWoken, Return, Close, Fork,
       ProcessSignals, PipeTypeOK, Reading, Writing, WatchesData, WatchesSpace, Asleep
<1>. QED
  BY Zenon, <1>0, <1>1, <1>2, <1>5, <1>6, <1>7, <1>8, SameQueues, StepLemma

(* kcond_wait: a reader that goes to sleep leaves no bytes behind. *)
LEMMA ReadWaitStep ==
  ASSUME PipeInv, NEW p \in Process, ReadWait(p)
  PROVE  PipeInv'
<1> USE DEF ReadWait, Goto, NE!Wait
<1>0. /\ PipeTypeOK /\ Distinct(notEmptyQ) /\ Distinct(notFullQ)
      /\ PlaceInv(p) /\ ~Asleep(p)
  BY Zenon DEF PipeInv, PlaceInv, Asleep
<1>1. /\ notEmptyQ' \in Seq(Process) /\ Distinct(notEmptyQ')
      /\ \A y : InList(notEmptyQ', y) <=> y = p \/ InList(notEmptyQ, y)
  BY Zenon, <1>0, AppendLemma DEF PipeTypeOK, Asleep
<1>2. PipeTypeOK'
  BY Zenon, <1>0, <1>1 DEF PipeTypeOK, Location, Reading, Writing
<1>3. elems = 0 /\ elems' = elems /\ pc'[p] = "readWoken" /\ inside' = {}
  BY Zenon, <1>0 DEF PlaceInv, PipeTypeOK
<1>4. \A q \in Process \ {p} : pc'[q] = pc[q]
  BY Zenon, <1>0 DEF PipeTypeOK
<1>5. PlaceInv(p)'
  BY Zenon, <1>0, <1>3 DEF PlaceInv, Asleep
<1>6. ~WatchesSpace(p)
  BY Zenon, <1>0 DEF WatchesSpace, Writing
<1>. QED
  BY <1>0, <1>1, <1>2, <1>3, <1>4, <1>5, <1>6, PipeAssumption, StepLemma

(* kcond_wait: a writer that goes to sleep leaves no free space behind. *)
LEMMA WriteWaitStep ==
  ASSUME PipeInv, NEW p \in Process, WriteWait(p)
  PROVE  PipeInv'
<1> USE DEF WriteWait, Goto, NF!Wait
<1>0. /\ PipeTypeOK /\ Distinct(notEmptyQ) /\ Distinct(notFullQ)
      /\ PlaceInv(p) /\ ~Asleep(p)
  BY Zenon DEF PipeInv, PlaceInv, Asleep
<1>1. /\ notFullQ' \in Seq(Process) /\ Distinct(notFullQ')
      /\ \A y : InList(notFullQ', y) <=> y = p \/ InList(notFullQ, y)
  BY Zenon, <1>0, AppendLemma DEF PipeTypeOK, Asleep
<1>2. PipeTypeOK'
  BY Zenon, <1>0, <1>1 DEF PipeTypeOK, Location, Reading, Writing
<1>3. elems = Size /\ elems' = elems /\ pc'[p] = "writeWoken" /\ inside' = {}
  BY Zenon, <1>0 DEF PlaceInv, PipeTypeOK
<1>4. \A q \in Process \ {p} : pc'[q] = pc[q]
  BY Zenon, <1>0 DEF PipeTypeOK
<1>5. PlaceInv(p)'
  BY Zenon, <1>0, <1>3 DEF PlaceInv, Asleep
<1>6. ~WatchesData(p)
  BY Zenon, <1>0 DEF WatchesData, Reading
<1>. QED
  BY <1>0, <1>1, <1>2, <1>3, <1>4, <1>5, <1>6, PipeAssumption, StepLemma

(* The end of a read: the writer it watched for is woken up. *)
LEMMA ReadEndStep ==
  ASSUME PipeInv, NEW p \in Process, ReadEnd(p)
  PROVE  PipeInv'
<1> USE DEF ReadEnd, In, Goto
<1>0. /\ PipeTypeOK /\ Distinct(notEmptyQ) /\ Distinct(notFullQ)
      /\ PlaceInv(p) /\ ~Asleep(p)
  BY Zenon DEF PipeInv, PlaceInv, Asleep
<1>1. /\ notFullQ' = IF notFullQ = <<>> \/ ~(TRUE) THEN notFullQ ELSE Tail(notFullQ)
      /\ notEmptyQ' = notEmptyQ
  BY Zenon DEF NF!SignalOne
<1>2. /\ notFullQ' \in Seq(Process) /\ Distinct(notFullQ')
      /\ \A y : InList(notFullQ', y) => InList(notFullQ, y)
      /\ notFullQ # <<>> /\ TRUE =>
           Head(notFullQ) \in Process /\ InList(notFullQ, Head(notFullQ)) /\ ~InList(notFullQ', Head(notFullQ))
  BY Zenon, <1>0, <1>1, TailLemma DEF PipeTypeOK
<1>3. pc'[p] = "readNext" /\ inside' = inside /\ elems' = elems /\ \A q \in Process \ {p} : pc'[q] = pc[q]
  BY Zenon, <1>0 DEF PipeTypeOK
<1>4. PipeTypeOK' /\ Distinct(notEmptyQ)' /\ Distinct(notFullQ)'
  BY Zenon, <1>0, <1>1, <1>2 DEF PipeTypeOK, Location, Reading, Writing
<1>5. PlaceInv(p)' /\ ~Asleep(p)'
  BY Zenon, <1>0, <1>1, <1>2, <1>3 DEF PlaceInv, Asleep
<1>6. notFullQ # <<>> /\ TRUE => \E q \in Process \ {p} : WatchesSpace(q)'
  <2> SUFFICES ASSUME notFullQ # <<>>, TRUE
               PROVE  \E q \in Process \ {p} : WatchesSpace(q)'
    OBVIOUS
  <2>1. PICK q \in Process : InList(notFullQ, q) /\ ~InList(notFullQ', q)
    BY Zenon, <1>2
  <2>2. q # p /\ pc'[q] = "writeWoken" /\ ~InList(notEmptyQ', q)
    BY Zenon, <1>0, <1>1, <1>3, <2>1 DEF PipeInv, Asleep
  <2>. QED
    BY Zenon, <2>1, <2>2 DEF WatchesSpace, Asleep, Writing
<1>7. WatchesData(p)'
  BY Zenon, <1>0, <1>5, <1>3 DEF WatchesData, Reading
<1>. QED
  BY Zenon, <1>0, <1>1, <1>2, <1>3, <1>4, <1>5, <1>6, <1>7, StepLemma

(* The end of a write: the reader it watched for is woken up. *)
LEMMA WriteEndStep ==
  ASSUME PipeInv, NEW p \in Process, WriteEnd(p)
  PROVE  PipeInv'
<1> USE DEF WriteEnd, In, Goto
<1>0. /\ PipeTypeOK /\ Distinct(notEmptyQ) /\ Distinct(notFullQ)
      /\ PlaceInv(p) /\ ~Asleep(p)
  BY Zenon DEF PipeInv, PlaceInv, Asleep
<1>1. /\ notEmptyQ' = IF notEmptyQ = <<>> \/ ~(TRUE) THEN notEmptyQ ELSE Tail(notEmptyQ)
      /\ notFullQ' = notFullQ
  BY Zenon DEF NE!SignalOne
<1>2. /\ notEmptyQ' \in Seq(Process) /\ Distinct(notEmptyQ')
      /\ \A y : InList(notEmptyQ', y) => InList(notEmptyQ, y)
      /\ notEmptyQ # <<>> /\ TRUE =>
           Head(notEmptyQ) \in Process /\ InList(notEmptyQ, Head(notEmptyQ)) /\ ~InList(notEmptyQ', Head(notEmptyQ))
  BY Zenon, <1>0, <1>1, TailLemma DEF PipeTypeOK
<1>3. pc'[p] = "writeNext" /\ inside' = inside /\ elems' = elems /\ \A q \in Process \ {p} : pc'[q] = pc[q]
  BY Zenon, <1>0 DEF PipeTypeOK
<1>4. PipeTypeOK' /\ Distinct(notEmptyQ)' /\ Distinct(notFullQ)'
  BY Zenon, <1>0, <1>1, <1>2 DEF PipeTypeOK, Location, Reading, Writing
<1>5. PlaceInv(p)' /\ ~Asleep(p)'
  BY Zenon, <1>0, <1>1, <1>2, <1>3 DEF PlaceInv, Asleep
<1>6. notEmptyQ # <<>> /\ TRUE => \E q \in Process \ {p} : WatchesData(q)'
  <2> SUFFICES ASSUME notEmptyQ # <<>>, TRUE
               PROVE  \E q \in Process \ {p} : WatchesData(q)'
    OBVIOUS
  <2>1. PICK q \in Process : InList(notEmptyQ, q) /\ ~InList(notEmptyQ', q)
    BY Zenon, <1>2
  <2>2. q # p /\ pc'[q] = "readWoken" /\ ~InList(notFullQ', q)
    BY Zenon, <1>0, <1>1, <1>3, <2>1 DEF PipeInv, Asleep
  <2>. QED
    BY Zenon, <2>1, <2>2 DEF WatchesData, Asleep, Reading
<1>7. WatchesSpace(p)'
  BY Zenon, <1>0, <1>5, <1>3 DEF WatchesSpace, Writing
<1>. QED
  BY Zenon, <1>0, <1>1, <1>2, <1>3, <1>4, <1>5, <1>6, <1>7, StepLemma

(* A reader that leaves bytes behind wakes the next one up. *)
LEMMA ReadNextStep ==
  ASSUME PipeInv, NEW p \in Process, ReadNext(p)
  PROVE  PipeInv'
<1> USE DEF ReadNext, In, Goto
<1>0. /\ PipeTypeOK /\ Distinct(notEmptyQ) /\ Distinct(notFullQ)
      /\ PlaceInv(p) /\ ~Asleep(p)
  BY Zenon DEF PipeInv, PlaceInv, Asleep
<1>1. /\ notEmptyQ' = IF notEmptyQ = <<>> \/ ~(elems > 0) THEN notEmptyQ ELSE Tail(notEmptyQ)
      /\ notFullQ' = notFullQ
  BY Zenon DEF NE!SignalOne
<1>2. /\ notEmptyQ' \in Seq(Process) /\ Distinct(notEmptyQ')
      /\ \A y : InList(notEmptyQ', y) => InList(notEmptyQ, y)
      /\ notEmptyQ # <<>> /\ elems > 0 =>
           Head(notEmptyQ) \in Process /\ InList(notEmptyQ, Head(notEmptyQ)) /\ ~InList(notEmptyQ', Head(notEmptyQ))
  BY Zenon, <1>0, <1>1, TailLemma DEF PipeTypeOK
<1>3. pc'[p] = "unlock" /\ inside' = inside /\ elems' = elems /\ \A q \in Process \ {p} : pc'[q] = pc[q]
  BY Zenon, <1>0 DEF PipeTypeOK
<1>4. PipeTypeOK' /\ Distinct(notEmptyQ)' /\ Distinct(notFullQ)'
  BY Zenon, <1>0, <1>1, <1>2 DEF PipeTypeOK, Location, Reading, Writing
<1>5. PlaceInv(p)' /\ ~Asleep(p)'
  BY Zenon, <1>0, <1>1, <1>2, <1>3 DEF PlaceInv, Asleep
<1>6. notEmptyQ # <<>> /\ elems > 0 => \E q \in Process \ {p} : WatchesData(q)'
  <2> SUFFICES ASSUME notEmptyQ # <<>>, elems > 0
               PROVE  \E q \in Process \ {p} : WatchesData(q)'
    OBVIOUS
  <2>1. PICK q \in Process : InList(notEmptyQ, q) /\ ~InList(notEmptyQ', q)
    BY Zenon, <1>2
  <2>2. q # p /\ pc'[q] = "readWoken" /\ ~InList(notFullQ', q)
    BY Zenon, <1>0, <1>1, <1>3, <2>1 DEF PipeInv, Asleep
  <2>. QED
    BY Zenon, <2>1, <2>2 DEF WatchesData, Asleep, Reading
<1>7. ~WatchesSpace(p)
  BY Zenon, <1>0, <1>5, <1>3 DEF WatchesSpace, Writing
<1>. QED
  BY Zenon, <1>0, <1>1, <1>2, <1>3, <1>4, <1>5, <1>6, <1>7, StepLemma

(* A writer that leaves free space behind wakes the next one up. *)
LEMMA WriteNextStep ==
  ASSUME PipeInv, NEW p \in Process, WriteNext(p)
  PROVE  PipeInv'
<1> USE DEF WriteNext, In, Goto
<1>0. /\ PipeTypeOK /\ Distinct(notEmptyQ) /\ Distinct(notFullQ)
      /\ PlaceInv(p) /\ ~Asleep(p)
  BY Zenon DEF PipeInv, PlaceInv, Asleep
<1>1. /\ notFullQ' = IF notFullQ = <<>> \/ ~(elems < Size) THEN notFullQ ELSE Tail(notFullQ)
      /\ notEmptyQ' = notEmptyQ
  BY Zenon DEF NF!SignalOne
<1>2. /\ notFullQ' \in Seq(Process) /\ Distinct(notFullQ')
      /\ \A y : InList(notFullQ', y) => InList(notFullQ, y)
      /\ notFullQ # <<>> /\ elems < Size =>
           Head(notFullQ) \in Process /\ InList(notFullQ, Head(notFullQ)) /\ ~InList(notFullQ', Head(notFullQ))
  BY Zenon, <1>0, <1>1, TailLemma DEF PipeTypeOK
<1>3. pc'[p] = "unlock" /\ inside' = inside /\ elems' = elems /\ \A q \in Process \ {p} : pc'[q] = pc[q]
  BY Zenon, <1>0 DEF PipeTypeOK
<1>4. PipeTypeOK' /\ Distinct(notEmptyQ)' /\ Distinct(notFullQ)'
  BY Zenon, <1>0, <1>1, <1>2 DEF PipeTypeOK, Location, Reading, Writing
<1>5. PlaceInv(p)' /\ ~Asleep(p)'
  BY Zenon, <1>0, <1>1, <1>2, <1>3 DEF PlaceInv, Asleep
<1>6. notFullQ # <<>> /\ elems < Size => \E q \in Process \ {p} : WatchesSpace(q)'
  <2> SUFFICES ASSUME notFullQ # <<>>, elems < Size
               PROVE  \E q \in Process \ {p} : WatchesSpace(q)'
    OBVIOUS
  <2>1. PICK q \in Process : InList(notFullQ, q) /\ ~InList(notFullQ', q)
    BY Zenon, <1>2
  <2>2. q # p /\ pc'[q] = "writeWoken" /\ ~InList(notEmptyQ', q)
    BY Zenon, <1>0, <1>1, <1>3, <2>1 DEF PipeInv, Asleep
  <2>. QED
    BY Zenon, <2>1, <2>2 DEF WatchesSpace, Asleep, Writing
<1>7. ~WatchesData(p)
  BY Zenon, <1>0, <1>5, <1>3 DEF WatchesData, Reading
<1>. QED
  BY Zenon, <1>0, <1>1, <1>2, <1>3, <1>4, <1>5, <1>6, <1>7, StepLemma

(* ringbuf_read_bytes: a reader that finds bytes makes space, and watches  *)
(* over both until the end of the call.                                    *)
LEMMA ReadStep ==
  ASSUME PipeInv, NEW p \in Process, NEW n \in 1..MaxLen, Read(p, n)
  PROVE  PipeInv'
<1> USE PipeAssumption DEF Read, In, Goto
<1>0. /\ PipeTypeOK /\ Distinct(notEmptyQ) /\ Distinct(notFullQ)
      /\ PlaceInv(p) /\ ~Asleep(p)
  BY Zenon DEF PipeInv, PlaceInv, Asleep
<1>1. UNCHANGED queues /\ inside' = inside /\ inside = {p}
  BY Zenon
<1>2. /\ elems' \in 0..Size /\ pc'[p] \in {"readEnd", "readWait"}
      /\ pc'[p] = "readWait" => elems' = 0
      /\ elems' # elems => pc'[p] = "readEnd"
  BY <1>0 DEF PipeTypeOK
<1>3. \A q \in Process \ {p} : pc'[q] = pc[q]
  BY Zenon, <1>0 DEF PipeTypeOK
<1>4. pc' \in [Process -> Location]
  BY Zenon, <1>0 DEF PipeTypeOK, Location, Reading
<1>5. PipeTypeOK'
  BY Zenon, <1>0, <1>1, <1>2, <1>4, SameQueues DEF PipeTypeOK
<1>6. PlaceInv(p)' /\ ~Asleep(p)'
  BY Zenon, <1>0, <1>1, <1>2, SameQueues DEF PlaceInv, Asleep
<1>7. /\ WatchesData(p)' /\ ~WatchesSpace(p)
      /\ pc'[p] = "readEnd" => WatchesSpace(p)'
  BY Zenon, <1>0, <1>2, <1>6 DEF WatchesData, WatchesSpace, Reading, Writing
<1>8. /\ elems' > 0 /\ notEmptyQ' # <<>> => WatchesData(p)'
      /\ elems' < Size /\ notFullQ' # <<>> =>
           WatchesSpace(p)' \/ (elems < Size /\ notFullQ # <<>> /\ ~WatchesSpace(p))
  BY Zenon, <1>1, <1>2, <1>7, SameQueues
<1>. QED
  BY Zenon, <1>0, <1>1, <1>3, <1>5, <1>6, <1>8, SameQueues, StepLemma

(* The same for a writer, which watches over the bytes it has written. *)
LEMMA WriteStep ==
  ASSUME PipeInv, NEW p \in Process, NEW n \in 1..MaxLen, Write(p, n)
  PROVE  PipeInv'
<1> USE PipeAssumption DEF Write, In, Goto
<1>0. /\ PipeTypeOK /\ Distinct(notEmptyQ) /\ Distinct(notFullQ)
      /\ PlaceInv(p) /\ ~Asleep(p)
  BY Zenon DEF PipeInv, PlaceInv, Asleep
<1>1. UNCHANGED queues /\ inside' = inside /\ inside = {p}
  OBVIOUS
<1>2. /\ elems' \in 0..Size /\ pc'[p] \in {"writeEnd", "writeWait"}
      /\ pc'[p] = "writeWait" => elems' = Size
      /\ elems' # elems => pc'[p] = "writeEnd"
  BY SMTT(60), <1>0 DEF PipeTypeOK
<1>3. \A q \in Process \ {p} : pc'[q] = pc[q]
  BY Zenon, <1>0 DEF PipeTypeOK
<1>4. pc' \in [Process -> Location] /\ pending' \subseteq Process
  BY Zenon, <1>0 DEF PipeTypeOK, Location, Writing
<1>5. PipeTypeOK'
  BY Zenon, <1>0, <1>1, <1>2, <1>4, SameQueues DEF PipeTypeOK
<1>6. PlaceInv(p)' /\ ~Asleep(p)'
  BY Zenon, <1>0, <1>1, <1>2, SameQueues DEF PlaceInv, Asleep
<1>7. /\ WatchesSpace(p)' /\ ~WatchesData(p)
      /\ pc'[p] = "writeEnd" => WatchesData(p)'
  BY Zenon, <1>0, <1>2, <1>6 DEF WatchesData, WatchesSpace, Reading, Writing
<1>8. /\ elems' > 0 /\ notEmptyQ' # <<>> =>
           WatchesData(p)' \/ (elems > 0 /\ notEmptyQ # <<>> /\ ~WatchesData(p))
      /\ elems' < Size /\ notFullQ' # <<>> => WatchesSpace(p)'
  BY Zenon, <1>1, <1>2, <1>7, SameQueues
<1>. QED
  BY Zenon, <1>0, <1>1, <1>3, <1>5, <1>6, <1>8, SameQueues, StepLemma

(* kcond_signal_all, on one condition after the other. *)
LEMMA CloseStep ==
  ASSUME PipeInv, NEW p \in Process, CloseSignal(p)
  PROVE  PipeInv'
<1> USE DEF CloseSignal, Goto
<1>0. /\ PipeTypeOK /\ Distinct(notEmptyQ) /\ Distinct(notFullQ)
      /\ PlaceInv(p) /\ ~Asleep(p)
  BY Zenon DEF PipeInv, PlaceInv, Asleep
<1>1. /\ notEmptyQ' \in {notEmptyQ, <<>>} /\ notFullQ' \in {notFullQ, <<>>}
      /\ pc'[p] \in {"closeEmpty", "closeErr", "out"}
      /\ inside' = inside /\ elems' = elems
      /\ \A q \in Process \ {p} : pc'[q] = pc[q]
  BY Zenon, <1>0 DEF PipeTypeOK, queues, NE!SignalAll, NF!SignalAll
<1>2. /\ Distinct(notEmptyQ)' /\ Distinct(notFullQ)'
      /\ \A q : /\ InList(notEmptyQ, q)' => InList(notEmptyQ, q)
                /\ InList(notFullQ, q)' => InList(notFullQ, q)
  BY <1>0, <1>1 DEF Distinct, InList
<1>3. PipeTypeOK'
  <2>1. notEmptyQ' \in Seq(Process) /\ notFullQ' \in Seq(Process)
    <3>1. <<>> \in Seq(Process)
      OBVIOUS
    <3>. QED
      BY <1>0, <1>1, <3>1, Zenon DEF PipeTypeOK
  <2>2. pc' \in [Process -> Location]
    BY Zenon, <1>0 DEF PipeTypeOK, Location, Closing
  <2>. QED
    BY Zenon, <1>0, <2>1, <2>2 DEF PipeTypeOK
<1>4. PlaceInv(p)'
  BY Zenon, <1>0, <1>1, <1>2 DEF PlaceInv, Asleep
<1>5. ~WatchesData(p) /\ ~WatchesSpace(p)
  BY Zenon DEF WatchesData, WatchesSpace, Reading, Writing
<1>. QED
  BY Zenon, <1>0, <1>1, <1>2, <1>3, <1>4, <1>5, StepLemma

(* A new pipe in the place of the old one, which nobody uses. *)
LEMMA CreateStep ==
  ASSUME PipeInv, NEW p \in Process, Create(p)
  PROVE  PipeInv'
<1> USE DEF Create
<1>0. /\ PipeTypeOK /\ Distinct(notEmptyQ) /\ Distinct(notFullQ)
      /\ \A q \in Process : PlaceInv(q) /\ pc[q] = "out"
  BY Zenon DEF PipeInv, PlaceInv
<1>1. UNCHANGED queues /\ inside' = inside /\ pc' = pc /\ elems' = 0
  BY Zenon
<1>2. PipeTypeOK'
  BY SMTT(60), <1>0, <1>1, SameQueues, PipeAssumption DEF PipeTypeOK
<1>3. \A q \in Process : PlaceInv(q)' /\ ~Asleep(q)
  BY Zenon, <1>0, <1>1, SameQueues DEF PlaceInv, Asleep
<1>4. notFullQ = <<>>
  <2>1. ASSUME notFullQ # <<>> PROVE FALSE
    <3>1. notFullQ[1] \in Process /\ InList(notFullQ, notFullQ[1])
      BY SMTT(60), <1>0, <2>1 DEF PipeTypeOK, InList
    <3>. QED
      BY Zenon, <1>3, <3>1 DEF Asleep
  <2>. QED
    BY Zenon, <2>1
<1>. QED
  BY <1>0, <1>1, <1>2, <1>3, <1>4, SameQueues, StepLemma

(* A signal takes its process off the queues, and makes it a watcher. *)
LEMMA SignalStep ==
  ASSUME PipeInv, NEW p \in Process, Signal(p)
  PROVE  PipeInv'
<1> USE DEF Signal
<1>0. /\ PipeTypeOK /\ Distinct(notEmptyQ) /\ Distinct(notFullQ) /\ PlaceInv(p)
  BY Zenon DEF PipeInv, PlaceInv
<1>1. /\ notEmptyQ' \in Seq(Process) /\ Distinct(notEmptyQ')
      /\ \A y : InList(notEmptyQ', y) <=> y # p /\ InList(notEmptyQ, y)
      /\ notFullQ' \in Seq(Process) /\ Distinct(notFullQ')
      /\ \A y : InList(notFullQ', y) <=> y # p /\ InList(notFullQ, y)
  BY Zenon, <1>0, UnlinkLemma DEF PipeTypeOK
<1>2. PipeTypeOK'
  BY Zenon, <1>0, <1>1 DEF PipeTypeOK
<1>3. PlaceInv(p)'
  BY Zenon, <1>0, <1>1 DEF PlaceInv
<1>4. /\ WatchesData(p) => WatchesData(p)'
      /\ WatchesSpace(p) => WatchesSpace(p)'
  BY Zenon, <1>1 DEF WatchesData, WatchesSpace, Asleep
<1>5. /\ notEmptyQ' # <<>> => notEmptyQ # <<>>
      /\ notFullQ' # <<>> => notFullQ # <<>>
  <2>1. \A q \in Seq(Process) : q # <<>> => InList(q, q[1])
    BY DEF InList
  <2>2. \A y : ~InList(<<>>, y)
    BY DEF InList
  <2>. QED
    BY Zenon, <1>1, <2>1, <2>2
<1>. QED
  BY Zenon, <1>0, <1>1, <1>2, <1>3, <1>4, <1>5, StepLemma

(* Every step of the pipe keeps the invariant. *)
LEMMA PipeNextInv == PipeInv /\ [PipeNext]_pipeVars => PipeInv'
<1> SUFFICES ASSUME PipeInv, [PipeNext]_pipeVars PROVE PipeInv'
  BY Zenon
<1>1. CASE UNCHANGED pipeVars
  BY Zenon, <1>1, SameQueues
     DEF pipeVars, PipeInv, PipeTypeOK, DataIsWatched, SpaceIsWatched, Asleep
<1>2. ASSUME NEW p \in Process, InCall(p) PROVE PipeInv'
  <2>1. CASE \E n \in 1..MaxLen : Read(p, n) \/ Write(p, n)
    BY Zenon, <2>1, ReadStep, WriteStep
  <2>. QED
    BY Zenon, <1>2, <2>1, QuietStep, ReadWaitStep, WriteWaitStep, ReadEndStep, WriteEndStep,
       ReadNextStep, WriteNextStep, CloseStep DEF InCall
<1>3. ASSUME NEW p \in Process, PipeStep(p) PROVE PipeInv'
  BY Zenon, <1>2, <1>3, QuietStep, CreateStep, SignalStep DEF PipeStep
<1>. QED
  BY Zenon, <1>1, <1>3 DEF PipeNext

(* The mutex, the two conditions and the signals at the end of each call   *)
(* keep the invariant.                                                     *)
THEOREM PipeInvariance == PipeSpec => []PipeInv
<1>1. PipeInit => PipeInv
  BY Zenon, PipeInitInv
<1>2. PipeInv /\ [PipeNext]_pipeVars => PipeInv'
  BY Zenon, PipeNextInv
<1>. QED
  BY <1>1, <1>2, PTL DEF PipeSpec

(* pipe_read and pipe_write wake up one process at a time, and no wake-up  *)
(* is lost: bytes next to a sleeping reader are watched.                   *)
THEOREM PipeDataIsWatched == PipeSpec => []DataIsWatched
<1>1. PipeInv => DataIsWatched
  BY Zenon DEF PipeInv
<1>. QED
  BY <1>1, PipeInvariance, PTL

(* Free space next to a sleeping writer is watched. *)
THEOREM PipeSpaceIsWatched == PipeSpec => []SpaceIsWatched
<1>1. PipeInv => SpaceIsWatched
  BY Zenon DEF PipeInv
<1>. QED
  BY <1>1, PipeInvariance, PTL

(* The variables keep their types. *)
THEOREM PipeTypeCorrect == PipeSpec => []PipeTypeOK
<1>1. PipeInv => PipeTypeOK
  BY Zenon DEF PipeInv
<1>. QED
  BY <1>1, PipeInvariance, PTL

-----------------------------------------------------------------------------
(* The pipe uses its mutex and its two conditions as these are proved to   *)
(* work.                                                                   *)

(* Taking a task off a wait list means the same for both conditions. *)
LEMMA SameUnlink ==
  ASSUME NEW q, NEW p
  PROVE  NE!Unlink(q, p) = Unlink(q, p) /\ NF!Unlink(q, p) = Unlink(q, p)
BY Zenon DEF Unlink, InList, RemoveNode, NE!Unlink, NE!InList, NE!RemoveNode,
             NF!Unlink, NF!InList, NF!RemoveNode

(* A task that is not in a wait list is not taken off it. *)
LEMMA NotQueued ==
  ASSUME NEW q, NEW p, ~InList(q, p)
  PROVE  Unlink(q, p) = q
BY Zenon DEF Unlink

(* Each step of a process is a step of either condition, or none of its    *)
(* business: waiting on one of them is leaving the mutex for the other.    *)
LEMMA PipeStepMonitors ==
  ASSUME NEW p \in Process, PipeStep(p)
  PROVE  [NE!MonitorNext]_(NE!monitorVars) /\ [NF!MonitorNext]_(NF!monitorVars)
<1> USE DEF NE!monitorVars, NF!monitorVars
<1>1. CASE UNCHANGED <<inside, queues>>
  BY Zenon, <1>1 DEF queues
<1>2. CASE GetMutex(p)
  BY Zenon, <1>2 DEF GetMutex, NE!MonitorNext, NF!MonitorNext
<1>3. CASE Return(p)
  BY Zenon, <1>3 DEF Return, NE!MonitorNext, NF!MonitorNext
<1>4. CASE ReadWait(p)
  <2>1. NE!Wait(p) /\ UNCHANGED notFullQ
    BY Zenon, <1>4 DEF ReadWait
  <2>2. NF!Leave(p)
    BY Zenon, <2>1 DEF NE!Wait, NF!Leave
  <2>. QED
    BY Zenon, <2>1, <2>2 DEF NE!MonitorNext, NF!MonitorNext
<1>5. CASE WriteWait(p)
  <2>1. NF!Wait(p) /\ UNCHANGED notEmptyQ
    BY Zenon, <1>5 DEF WriteWait
  <2>2. NE!Leave(p)
    BY Zenon, <2>1 DEF NF!Wait, NE!Leave
  <2>. QED
    BY Zenon, <2>1, <2>2 DEF NE!MonitorNext, NF!MonitorNext
<1>6. CASE /\ UNCHANGED inside
           /\ NE!SignalOne \/ NE!SignalAll \/ UNCHANGED notEmptyQ
           /\ NF!SignalOne \/ NF!SignalAll \/ UNCHANGED notFullQ
  BY Zenon, <1>6 DEF NE!MonitorNext, NF!MonitorNext
<1>7. CASE Signal(p)
  <2>1. p \in Interruptible /\ UNCHANGED inside
    BY Zenon, <1>7 DEF Signal
  <2>2. notEmptyQ' = NE!Unlink(notEmptyQ, p) /\ notFullQ' = NF!Unlink(notFullQ, p)
    BY Zenon, <1>7, SameUnlink DEF Signal
  <2>3. NE!Interrupt(p) \/ notEmptyQ' = notEmptyQ
    BY Zenon, <2>1, <2>2, SameList, SameUnlink, NotQueued DEF NE!Interrupt
  <2>4. NF!Interrupt(p) \/ notFullQ' = notFullQ
    BY Zenon, <2>1, <2>2, SameList, SameUnlink, NotQueued DEF NF!Interrupt
  <2>. QED
    BY Zenon, <2>1, <2>3, <2>4 DEF NE!MonitorNext, NF!MonitorNext
<1>8. CASE CallRead(p) \/ CallWrite(p) \/ (\E end \in End : Close(p, end))
           \/ (\E q \in Process : Fork(p, q)) \/ Create(p) \/ ProcessSignals(p)
           \/ \E n \in 1..MaxLen : Read(p, n) \/ Write(p, n)
  BY Zenon, <1>1, <1>8 DEF CallRead, CallWrite, Close, Fork, Create, ProcessSignals, Read, Write
<1>9. CASE ReadWoken(p) \/ ReadEnd(p) \/ ReadNext(p) \/ WriteWoken(p) \/ WriteEnd(p)
           \/ WriteNext(p) \/ CloseSignal(p)
  BY Zenon, <1>1, <1>6, <1>9
     DEF ReadWoken, ReadEnd, ReadNext, WriteWoken, WriteEnd, WriteNext, CloseSignal, queues
<1>. QED
  BY Zenon, <1>2, <1>3, <1>4, <1>5, <1>7, <1>8, <1>9 DEF PipeStep, InCall

(* The pipe uses its mutex and both its conditions within the rules of     *)
(* Monitor, which KcondProofs shows kmutex.c and kcond.c to implement,     *)
(* although one mutex serves two conditions, whoever closes an end signals *)
(* without it, and signals interrupt either wait.                          *)
THEOREM PipeUsesMonitors == PipeSpec => NE!MonitorSpec /\ NF!MonitorSpec
<1>1. PipeInit => NE!MonitorInit /\ NF!MonitorInit
  BY Zenon DEF PipeInit
<1>2. [PipeNext]_pipeVars => [NE!MonitorNext]_(NE!monitorVars) /\ [NF!MonitorNext]_(NF!monitorVars)
  <2>1. CASE PipeNext
    BY Zenon, <2>1, PipeStepMonitors DEF PipeNext
  <2>2. CASE UNCHANGED pipeVars
    BY Zenon, <2>2 DEF pipeVars, queues, NE!monitorVars, NF!monitorVars
  <2>. QED
    BY Zenon, <2>1, <2>2
<1>. QED
  BY <1>1, <1>2, PTL DEF PipeSpec, NE!MonitorSpec, NF!MonitorSpec

(* A reader and a writer never sleep on one pipe at the same time unless   *)
(* somebody else is awake in pipe_read or pipe_write, so that a pipe by    *)
(* itself cannot bring all its users to a halt.                            *)
THEOREM PipeNotAllAsleep ==
  PipeSpec => [](notEmptyQ # <<>> /\ notFullQ # <<>> =>
                   \E p \in Process : ~Asleep(p) /\ pc[p] \in Reading \cup Writing)
<1>1. PipeInv => (notEmptyQ # <<>> /\ notFullQ # <<>> =>
                   \E p \in Process : ~Asleep(p) /\ pc[p] \in Reading \cup Writing)
  <2> SUFFICES ASSUME PipeInv, notEmptyQ # <<>>, notFullQ # <<>>
               PROVE  \E p \in Process : ~Asleep(p) /\ pc[p] \in Reading \cup Writing
    BY Zenon
  <2>1. DataIsWatched /\ SpaceIsWatched
    BY Zenon DEF PipeInv
  <2>2. elems > 0 \/ elems < Size
    BY PipeAssumption DEF PipeInv, PipeTypeOK
  <2>. QED
    BY Zenon, <2>1, <2>2 DEF DataIsWatched, SpaceIsWatched, Reading, Writing
<1>. QED
  BY <1>1, PipeInvariance, PTL

=============================================================================
