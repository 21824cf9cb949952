---------------------------- MODULE BoundedQueue ----------------------------
(***************************************************************************)
(* What a ring buffer promises: a queue of at most Size bytes.             *)
(***************************************************************************)
EXTENDS Sequences, Naturals

CONSTANTS
  Size,
  Request,   \* the sequences of bytes that a caller may write
  Length     \* the numbers of bytes that a caller may ask for

VARIABLES
  queue,
  moved   \* the bytes that the last operation put in or took out

vars == <<queue, moved>>

Smaller(m, n) == IF m < n THEN m ELSE n

Init == queue = <<>> /\ moved = <<>>

(* As much of s as there is room for. *)
Put(s) ==
  LET n == Smaller(Len(s), Size - Len(queue))
  IN  moved' = SubSeq(s, 1, n) /\ queue' = queue \o moved'

(* The n oldest bytes, or all of them. *)
Get(n) ==
  LET k == Smaller(n, Len(queue))
  IN  moved' = SubSeq(queue, 1, k) /\ queue' = SubSeq(queue, k + 1, Len(queue))

(* The youngest byte, if there is one. *)
Unput ==
  LET n == Len(queue)
      k == Smaller(1, n)
  IN  moved' = SubSeq(queue, n - k + 1, n) /\ queue' = SubSeq(queue, 1, n - k)

Clear == queue' = <<>> /\ UNCHANGED moved

Next ==
  \/ \E s \in Request : Put(s)
  \/ \E n \in Length : Get(n)
  \/ Unput \/ Clear

Spec == Init /\ [][Next]_vars

=============================================================================
