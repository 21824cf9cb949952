----------------------------- MODULE SharedLock -----------------------------
(***************************************************************************)
(* What a reader-writer lock promises to the code that it protects: any    *)
(* number of readers, or one writer.                                       *)
(***************************************************************************)
CONSTANT Process

VARIABLES reading, writing   \* the processes that hold the lock

Init == reading = {} /\ writing = {}

StartReading(p) ==
  /\ writing = {}
  /\ reading' = reading \cup {p} /\ UNCHANGED writing

StopReading(p) ==
  /\ p \in reading
  /\ reading' = reading \ {p} /\ UNCHANGED writing

StartWriting(p) ==
  /\ reading = {} /\ writing = {}
  /\ writing' = {p} /\ UNCHANGED reading

StopWriting(p) ==
  /\ p \in writing
  /\ writing' = writing \ {p} /\ UNCHANGED reading

Next == \E p \in Process : \/ StartReading(p) \/ StopReading(p)
                           \/ StartWriting(p) \/ StopWriting(p)

Spec == Init /\ [][Next]_<<reading, writing>>

=============================================================================
