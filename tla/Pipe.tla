-------------------------------- MODULE Pipe --------------------------------
(***************************************************************************)
(* kernel/pipe.c.  Readers and writers share a mutex, a ring buffer and    *)
(* two conditions, and wake each other up one at a time; handles are       *)
(* closed without the mutex.  Mutex and conditions are those of Monitor,   *)
(* the ring buffer is the number of bytes in it (see RingBuf).             *)
(*                                                                         *)
(* A step is a region between two points at which another process can run *)
(* and can tell the difference.                                            *)
(***************************************************************************)
EXTENDS WaitLists, FiniteSets

CONSTANTS
  Process,
  Interruptible,  \* the processes that can be sent a signal by others
  NonBlock,       \* the processes that set O_NONBLOCK
  Size,           \* PIPE_BUF_SIZE
  MaxLen          \* bound on the length of a read or a write

ASSUME PipeAssumption ==
  /\ IsFiniteSet(Process) /\ Interruptible \subseteq Process /\ NonBlock \subseteq Process
  /\ Size \in Nat \ {0} /\ MaxLen \in Nat \ {0}

VARIABLES
  inside,     \* who is between kmutex_lock and kmutex_unlock, as a set
  notEmptyQ,  \* p->not_empty_cond
  notFullQ,   \* p->not_full_cond
  elems,      \* p->rb.elems
  handles,    \* the handles of the pipe: who has which end open (dups count as one)
  pending,    \* the processes for which pending_signals() is true
  pc

NE == INSTANCE Monitor WITH waitQ <- notEmptyQ
NF == INSTANCE Monitor WITH waitQ <- notFullQ

queues == <<notEmptyQ, notFullQ>>
pipeVars == <<inside, queues, elems, handles, pending, pc>>

End == {"r", "w"}
Readers == {h \in handles : h[2] = "r"}   \* p->read_handles counts them
Writers == {h \in handles : h[2] = "w"}   \* p->write_handles

(* In pipe_read: "read" at the top of the loop, "readWait" before          *)
(* kcond_wait, "readWoken" in it, "readEnd" and "readNext" before the two  *)
(* signals at the end; "unlock" before kmutex_unlock.  The same for        *)
(* pipe_write.  In pipe_on_handle_close, before each kcond_signal_all:     *)
(* "closeFull", "closeEmpty", "closeErr".                                  *)
Reading == {"read", "readWait", "readWoken", "readEnd", "readNext"}
Writing == {"write", "writeWait", "writeWoken", "writeEnd", "writeNext"}
Closing == {"closeFull", "closeEmpty", "closeErr"}
Location == {"out", "unlock"} \cup Reading \cup Writing \cup Closing

PipeTypeOK ==
  /\ inside \subseteq Process
  /\ notEmptyQ \in Seq(Process) /\ notFullQ \in Seq(Process)
  /\ elems \in 0..Size
  /\ handles \subseteq Process \X End
  /\ pending \subseteq Process
  /\ pc \in [Process -> Location]

(* sys_pipe2: the process that makes a pipe has both ends. *)
PipeInit ==
  /\ NE!MonitorInit /\ NF!MonitorInit
  /\ elems = 0
  /\ \E p \in Process : handles = {p} \X End
  /\ pending = {}
  /\ pc = [p \in Process |-> "out"]

Goto(p, l) == pc' = [pc EXCEPT ![p] = l]

(* In the mutex, at l. *)
In(p, l) == pc[p] = l /\ inside = {p}

-----------------------------------------------------------------------------
(* A process that has the end open calls read or write (of 0 bytes: it     *)
(* returns at once).                                                       *)
CallRead(p) ==
  /\ pc[p] = "out" /\ <<p, "r">> \in handles
  /\ Goto(p, "read")
  /\ UNCHANGED <<inside, queues, elems, handles, pending>>

CallWrite(p) ==
  /\ pc[p] = "out" /\ <<p, "w">> \in handles
  /\ Goto(p, "write")
  /\ UNCHANGED <<inside, queues, elems, handles, pending>>

(* kmutex_lock returns, at the start or at the end of kcond_wait. *)
GetMutex(p) ==
  /\ pc[p] \in {"read", "write", "readWoken", "writeWoken"}
  /\ NE!Enter(p) /\ NF!Enter(p)
  /\ UNCHANGED <<elems, handles, pending, pc>>

(* ringbuf_read_bytes, and what pipe_read does when it got n bytes. *)
Read(p, n) ==
  /\ In(p, "read")
  /\ IF elems > 0
     THEN elems' = (IF n < elems THEN elems - n ELSE 0) /\ Goto(p, "readEnd")
     ELSE /\ Goto(p, IF Writers = {} \/ p \in NonBlock THEN "readEnd" ELSE "readWait")
          /\ UNCHANGED elems
  /\ UNCHANGED <<inside, queues, handles, pending>>

ReadWait(p) ==
  /\ pc[p] = "readWait" /\ NE!Wait(p)
  /\ Goto(p, "readWoken")
  /\ UNCHANGED <<notFullQ, elems, handles, pending>>

(* Mutant: a reader that did not read wakes nobody up. *)
ReadWoken_NoSignal(p) ==
  /\ In(p, "readWoken")
  /\ Goto(p, IF p \in pending THEN "unlock" ELSE "read")
  /\ UNCHANGED <<inside, queues, elems, handles, pending>>

(* kcond_wait returned: -EINTR, or once more. *)
ReadWoken(p) ==
  /\ In(p, "readWoken")
  /\ Goto(p, IF p \in pending THEN "readEnd" ELSE "read")
  /\ UNCHANGED <<inside, queues, elems, handles, pending>>

(* Mutant: no writer is woken up. *)
ReadEnd_NoSignal(p) ==
  /\ In(p, "readEnd")
  /\ Goto(p, "readNext")
  /\ UNCHANGED <<inside, queues, elems, handles, pending>>

(* One writer is woken up, whatever made the read end. *)
ReadEnd(p) ==
  /\ In(p, "readEnd") /\ NF!SignalOne
  /\ Goto(p, "readNext")
  /\ UNCHANGED <<inside, notEmptyQ, elems, handles, pending>>

(* The next reader is woken up if there is something left for it. *)
ReadNext(p) ==
  /\ In(p, "readNext")
  /\ IF elems > 0 THEN NE!SignalOne ELSE UNCHANGED notEmptyQ
  /\ Goto(p, "unlock")
  /\ UNCHANGED <<inside, notFullQ, elems, handles, pending>>

(* pipe_write of n bytes: SIGPIPE and -EPIPE if there are no readers. *)
Write(p, n) ==
  /\ In(p, "write")
  /\ IF Readers = {}
     THEN pending' = pending \cup {p} /\ Goto(p, "writeEnd") /\ UNCHANGED elems
     ELSE /\ UNCHANGED pending
          /\ IF elems < Size
             THEN /\ elems' = IF elems + n < Size THEN elems + n ELSE Size
                  /\ Goto(p, "writeEnd")
             ELSE /\ Goto(p, IF p \in NonBlock THEN "writeEnd" ELSE "writeWait")
                  /\ UNCHANGED elems
  /\ UNCHANGED <<inside, queues, handles>>

WriteWait(p) ==
  /\ pc[p] = "writeWait" /\ NF!Wait(p)
  /\ Goto(p, "writeWoken")
  /\ UNCHANGED <<notEmptyQ, elems, handles, pending>>

WriteWoken(p) ==
  /\ In(p, "writeWoken")
  /\ Goto(p, IF p \in pending THEN "writeEnd" ELSE "write")
  /\ UNCHANGED <<inside, queues, elems, handles, pending>>

WriteEnd(p) ==
  /\ In(p, "writeEnd") /\ NE!SignalOne
  /\ Goto(p, "writeNext")
  /\ UNCHANGED <<inside, notFullQ, elems, handles, pending>>

(* Mutant: the next writer is not woken up. *)
WriteNext_NoSignal(p) ==
  /\ In(p, "writeNext")
  /\ Goto(p, "unlock")
  /\ UNCHANGED <<inside, queues, elems, handles, pending>>

WriteNext(p) ==
  /\ In(p, "writeNext")
  /\ IF elems < Size THEN NF!SignalOne ELSE UNCHANGED notFullQ
  /\ Goto(p, "unlock")
  /\ UNCHANGED <<inside, notEmptyQ, elems, handles, pending>>

Return(p) ==
  /\ pc[p] = "unlock" /\ NE!Leave(p) /\ NF!Leave(p)
  /\ Goto(p, "out")
  /\ UNCHANGED <<elems, handles, pending>>

-----------------------------------------------------------------------------
(* Handles.                                                                *)

(* pipe_on_handle_close: the last handle of an end wakes up everybody. *)
Close(p, end) ==
  /\ pc[p] = "out" /\ <<p, end>> \in handles
  /\ handles' = handles \ {<<p, end>>}
  /\ Goto(p, IF \E h \in handles' : h[2] = end THEN "out" ELSE "closeFull")
  /\ UNCHANGED <<inside, queues, elems, pending>>

(* The three kcond_signal_all; only sys_poll waits on err_cond. *)
CloseSignal(p) ==
  /\ \/ /\ pc[p] = "closeFull" /\ NF!SignalAll /\ UNCHANGED notEmptyQ
        /\ Goto(p, "closeEmpty")
     \/ /\ pc[p] = "closeEmpty" /\ NE!SignalAll /\ UNCHANGED notFullQ
        /\ Goto(p, "closeErr")
     \/ pc[p] = "closeErr" /\ Goto(p, "out") /\ UNCHANGED queues
  /\ UNCHANGED <<inside, elems, handles, pending>>

(* fork_dup_all_handles, with preemption disabled: q is the new child. *)
Fork(p, q) ==
  /\ pc[p] = "out" /\ pc[q] = "out"
  /\ \A end \in End : <<q, end>> \notin handles
  /\ handles' = handles \cup {<<q, end>> : end \in {e \in End : <<p, e>> \in handles}}
  /\ pending' = pending \ {q}
  /\ UNCHANGED <<inside, queues, elems, pc>>

(* The last handle is gone, the pipe is destroyed; p makes another one.  A *)
(* sys_pipe2 that fails undoes its steps before anybody sees the pipe, and *)
(* is left out.                                                            *)
Create(p) ==
  /\ handles = {} /\ \A q \in Process : pc[q] = "out"
  /\ handles' = {p} \X End
  /\ elems' = 0
  /\ UNCHANGED <<inside, queues, pending, pc>>

(* A signal sent to p, and its delivery on the way back to user mode. *)
Signal(p) ==
  /\ p \in Interruptible
  /\ pending' = pending \cup {p}
  /\ notEmptyQ' = Unlink(notEmptyQ, p) /\ notFullQ' = Unlink(notFullQ, p)
  /\ UNCHANGED <<inside, elems, handles, pc>>

ProcessSignals(p) ==
  /\ pc[p] = "out" /\ p \in pending
  /\ pending' = pending \ {p}
  /\ UNCHANGED <<inside, queues, elems, handles, pc>>

(* What p does inside a call, without a choice. *)
InCall(p) ==
  \/ ReadWait(p) \/ ReadWoken(p) \/ ReadEnd(p) \/ ReadNext(p)
  \/ WriteWait(p) \/ WriteWoken(p) \/ WriteEnd(p) \/ WriteNext(p)
  \/ Return(p) \/ CloseSignal(p)
  \/ \E n \in 1..MaxLen : Read(p, n) \/ Write(p, n)

PipeStep(p) ==
  \/ CallRead(p) \/ CallWrite(p) \/ GetMutex(p) \/ InCall(p)
  \/ \E end \in End : Close(p, end)
  \/ \E q \in Process : Fork(p, q)
  \/ Create(p) \/ Signal(p) \/ ProcessSignals(p)

PipeNext == \E p \in Process : PipeStep(p)

PipeSpec == PipeInit /\ [][PipeNext]_pipeVars

-----------------------------------------------------------------------------
Asleep(p) == InList(notEmptyQ, p) \/ InList(notFullQ, p)

(* "Wake up one blocked reader, instead of all of them" loses no wake-up:  *)
(* when there are bytes and a reader sleeps, somebody who is awake will    *)
(* either take all of them or wake up a reader.                            *)
DataIsWatched ==
  elems > 0 /\ notEmptyQ # <<>> =>
    \E p \in Process : ~Asleep(p) /\ pc[p] \in Reading \cup {"writeEnd"}

(* The same for writers and free space. *)
SpaceIsWatched ==
  elems < Size /\ notFullQ # <<>> =>
    \E p \in Process : ~Asleep(p) /\ pc[p] \in Writing \cup {"readEnd"}

(* The inductive invariant behind the two.  Who sleeps is in kcond_wait of *)
(* the loop of that condition, and who is about to sleep still has the     *)
(* mutex and has found the buffer empty, or full.                          *)
PipeInv ==
  /\ PipeTypeOK
  /\ Distinct(notEmptyQ) /\ Distinct(notFullQ)
  /\ \A p \in Process :
       /\ InList(notEmptyQ, p) => pc[p] = "readWoken" /\ p \notin inside
       /\ InList(notFullQ, p) => pc[p] = "writeWoken" /\ p \notin inside
       /\ pc[p] = "readWait" => inside = {p} /\ elems = 0
       /\ pc[p] = "writeWait" => inside = {p} /\ elems = Size
  /\ DataIsWatched /\ SpaceIsWatched

(* A reader does not sleep when the write end has been closed for good     *)
(* ("No more writers, always return 0, no matter what").                   *)
EndOfFileIsSeen ==
  Writers = {} /\ (\A p \in Process : pc[p] \notin Closing) => notEmptyQ = <<>>

PipeFairness ==
  \A p \in Process :
    /\ SF_pipeVars(GetMutex(p))
    /\ WF_pipeVars(InCall(p))

PipeFairSpec == PipeSpec /\ PipeFairness

(* Bytes do not stay in the pipe next to a reader that sleeps in           *)
(* kcond_wait.                                                             *)
DataIsRead == elems > 0 /\ notEmptyQ # <<>> ~> elems = 0 \/ notEmptyQ = <<>>

(* Free space does not stay next to a sleeping writer. *)
SpaceIsUsed == elems < Size /\ notFullQ # <<>> ~> elems = Size \/ notFullQ = <<>>

=============================================================================
