------------------------------ MODULE Semaphore ------------------------------
(***************************************************************************)
(* What a counting semaphore promises about its units: a client gets all   *)
(* the units it asked for at once, when they are there, or it gives up     *)
(* with none; and only a client that gives units adds to them, up to Max.  *)
(***************************************************************************)
EXTENDS Naturals

CONSTANTS Client, Start, Max, TakeUnits, GiveUnits

VARIABLES
  units,   \* what can be taken
  asked    \* what each client waits for, 0 when it does not wait

Init == units = Start /\ asked = [c \in Client |-> 0]

(* A client gets u units without waiting. *)
TakeNow(c, u) ==
  /\ asked[c] = 0 /\ u <= units
  /\ units' = units - u
  /\ UNCHANGED asked

Ask(c, u) ==
  /\ asked[c] = 0 /\ u <= Max
  /\ asked' = [asked EXCEPT ![c] = u]
  /\ UNCHANGED units

Get(c) ==
  /\ asked[c] # 0 /\ asked[c] <= units
  /\ units' = units - asked[c]
  /\ asked' = [asked EXCEPT ![c] = 0]

(* The wait ends without the units, which are not there. *)
GiveUp(c) ==
  /\ asked[c] > units
  /\ asked' = [asked EXCEPT ![c] = 0]
  /\ UNCHANGED units

Give(c, u) ==
  /\ asked[c] = 0 /\ units + u <= Max
  /\ units' = units + u
  /\ UNCHANGED asked

Next ==
  \E c \in Client :
    \/ Get(c) \/ GiveUp(c)
    \/ \E u \in TakeUnits : TakeNow(c, u) \/ Ask(c, u)
    \/ \E u \in GiveUnits : Give(c, u)

Spec == Init /\ [][Next]_<<units, asked>>

=============================================================================
