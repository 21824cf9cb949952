--------------------------- MODULE ProcessesProofs ---------------------------
(***************************************************************************)
(* The life cycle of the processes is right for any number of processes,   *)
(* signals and calls; and the signals of a process are delivered and its   *)
(* masks restored, whatever it masks, catches and ignores.                 *)
(***************************************************************************)
EXTENDS Processes, Signals, WellFoundedInduction, TLAPS

(* An update of a process is a process: one fact per shape of update. *)
LEMMA RecordLemma ==
  ASSUME NEW P \in ProcessRecord
  PROVE  /\ P.state \in {"FREE", "RUNNABLE", "SLEEPING", "DYING", "ZOMBIE"}
         /\ P.parent \in Pid /\ P.pgid \in Pid /\ P.stopped \in BOOLEAN
         /\ P.wasStopped \in BOOLEAN /\ P.vforked \in BOOLEAN /\ P.vforkStopped \in BOOLEAN
         /\ P.pending \in SUBSET {"SIGKILL", "deadly", "caught"} /\ P.req \in WaitRequest
         /\ P.handler \in BOOLEAN /\ P.execed \in BOOLEAN /\ P.moved \in BOOLEAN
BY Zenon DEF ProcessRecord

(* What is asked for when nothing is. *)
LEMMA BlankLemma ==
  /\ NoRequest \in WaitRequest /\ NoRequest.who[1] = "any"
  /\ Blank \in ProcessRecord /\ Blank.state = "FREE" /\ Blank.parent = init
  /\ Blank.req = NoRequest /\ Blank.vforkStopped = FALSE /\ Blank.vforked = FALSE
<1>1. NoRequest \in WaitRequest
  BY Zenon DEF NoRequest, WaitRequest, WaitTarget
<1>. QED
  BY Zenon, <1>1, ProcessAssumption DEF NoRequest, Blank, ProcessRecord

(* wake_up: the sleeper is runnable, and returns from its sleep. *)
LEMMA WakeLemma ==
  ASSUME NEW P \in ProcessRecord
  PROVE  /\ Wake(P) \in ProcessRecord
         /\ Wake(P).parent = P.parent /\ Wake(P).pgid = P.pgid /\ Wake(P).vforked = P.vforked
         /\ Wake(P).vforkStopped = P.vforkStopped /\ Wake(P).stopped = P.stopped
         /\ Wake(P).wasStopped = P.wasStopped /\ Wake(P).req = P.req
         /\ Wake(P).moved = P.moved
         /\ Wake(P).state = IF P.state = "SLEEPING" THEN "RUNNABLE" ELSE P.state
         /\ P.state # "SLEEPING" => Wake(P) = P
<1> DEFINE Q == [P EXCEPT !.state = "RUNNABLE", !.pc = "woken"]
<1>1. CASE P.state = "SLEEPING"
  <2>1. Wake(P) = Q
    BY Zenon, <1>1 DEF Wake
  <2>2. /\ Q \in ProcessRecord /\ Q.parent = P.parent /\ Q.pgid = P.pgid
        /\ Q.vforked = P.vforked /\ Q.vforkStopped = P.vforkStopped /\ Q.stopped = P.stopped
        /\ Q.wasStopped = P.wasStopped /\ Q.req = P.req /\ Q.moved = P.moved
        /\ Q.state = "RUNNABLE"
    BY ZenonT(60) DEF ProcessRecord
  <2>. QED
    BY Zenon, <1>1, <2>1, <2>2
<1>2. CASE P.state # "SLEEPING"
  BY Zenon, <1>2 DEF Wake
<1>. QED
  BY Zenon, <1>1, <1>2

(* A signal that is made pending. *)
LEMMA PostLemma ==
  ASSUME NEW P \in ProcessRecord, NEW s \in {"SIGKILL", "deadly", "caught"}
  PROVE  /\ Post(P, s) \in ProcessRecord
         /\ Post(P, s).parent = P.parent /\ Post(P, s).pgid = P.pgid
         /\ Post(P, s).vforked = P.vforked /\ Post(P, s).vforkStopped = P.vforkStopped
         /\ Post(P, s).wasStopped = P.wasStopped /\ Post(P, s).req = P.req
         /\ Post(P, s).moved = P.moved
         /\ P.vforkStopped => /\ Post(P, s).state = P.state /\ Post(P, s).stopped = P.stopped
                              /\ Post(P, s).pc = P.pc
         /\ Post(P, s).state \in {P.state, "RUNNABLE"}
         /\ P.state # "SLEEPING" => Post(P, s).state = P.state
         /\ Post(P, s).stopped => P.stopped
         /\ ~P.vforkStopped => Post(P, s).state # "SLEEPING"
<1> DEFINE Q == [P EXCEPT !.pending = @ \cup {s}]
<1>1. /\ Q \in ProcessRecord /\ Q.parent = P.parent /\ Q.pgid = P.pgid /\ Q.vforked = P.vforked
      /\ Q.vforkStopped = P.vforkStopped /\ Q.stopped = P.stopped
      /\ Q.wasStopped = P.wasStopped /\ Q.req = P.req /\ Q.state = P.state /\ Q.pc = P.pc
      /\ Q.moved = P.moved
  BY Zenon DEF ProcessRecord
<1>2. CASE P.vforkStopped
  <2>1. Post(P, s) = Q
    BY Zenon, <1>2 DEF Post
  <2>. QED
    BY ZenonT(60), <1>1, <1>2, <2>1
<1>3. CASE ~P.vforkStopped
  <2> DEFINE R == [Wake(Q) EXCEPT !.stopped = FALSE]
  <2>1. Post(P, s) = R
    BY Zenon, <1>3 DEF Post
  <2>. HIDE DEF Q
  <2>2. Wake(Q) \in ProcessRecord
    BY Zenon, <1>1, WakeLemma
  <2>3. /\ R \in ProcessRecord /\ R.parent = Wake(Q).parent /\ R.pgid = Wake(Q).pgid
        /\ R.vforked = Wake(Q).vforked /\ R.vforkStopped = Wake(Q).vforkStopped
        /\ R.stopped = FALSE /\ R.wasStopped = Wake(Q).wasStopped /\ R.req = Wake(Q).req
        /\ R.state = Wake(Q).state /\ R.moved = Wake(Q).moved
    BY ZenonT(60), <2>2 DEF ProcessRecord
  <2>. HIDE DEF R
  <2>. QED
    BY <1>1, <1>3, <2>1, <2>3, WakeLemma
<1>. QED
  BY Zenon, <1>2, <1>3

(* What an event does to those who may hear of it. *)
LEMMA ToldLemma ==
  ASSUME ProcTypeOK, NEW q \in Pid, NEW C, NEW r, NEW par
  PROVE  LET T == Told(q, C, r, par)
         IN  /\ T \in ProcessRecord
             /\ T.parent = proc[q].parent /\ T.pgid = proc[q].pgid
             /\ T.vforked = proc[q].vforked /\ T.vforkStopped = proc[q].vforkStopped
             /\ T.wasStopped = proc[q].wasStopped /\ T.req = proc[q].req
             /\ T.moved = proc[q].moved
             /\ T.state \in {proc[q].state, "RUNNABLE"}
             /\ proc[q].state # "SLEEPING" => T.state = proc[q].state
             /\ proc[q].vforkStopped /\ proc[q].state # "SLEEPING" =>
                  T.stopped = proc[q].stopped /\ T.pc = proc[q].pc
             /\ T.stopped => proc[q].stopped
             /\ T.state = "SLEEPING" => q \notin WokenBy(C, r, par)
<1> DEFINE P == IF q \in WokenBy(C, r, par) THEN Wake(proc[q]) ELSE proc[q]
<1>1. proc[q] \in ProcessRecord
  BY Zenon DEF ProcTypeOK
<1>2. /\ P \in ProcessRecord /\ P.parent = proc[q].parent /\ P.pgid = proc[q].pgid
      /\ P.vforked = proc[q].vforked /\ P.vforkStopped = proc[q].vforkStopped
      /\ P.stopped = proc[q].stopped /\ P.wasStopped = proc[q].wasStopped
      /\ P.req = proc[q].req /\ P.moved = proc[q].moved
      /\ P.state \in {proc[q].state, "RUNNABLE"}
      /\ proc[q].state # "SLEEPING" => P = proc[q]
      /\ P.state = "SLEEPING" => q \notin WokenBy(C, r, par)
  BY Zenon, <1>1, WakeLemma
<1>3. Told(q, C, r, par) = IF q \in Catching(C, par) THEN Post(P, "caught") ELSE P
  BY Zenon DEF Told
<1>. HIDE DEF P
<1>4. CASE q \in Catching(C, par)
  <2>1. Told(q, C, r, par) = Post(P, "caught")
    BY Zenon, <1>3, <1>4
  <2>. QED
    BY <1>2, <2>1, PostLemma
<1>5. CASE q \notin Catching(C, par)
  BY Zenon, <1>2, <1>3, <1>5
<1>. QED
  BY Zenon, <1>4, <1>5

-----------------------------------------------------------------------------
(* A step in which nobody is born, dies for good or gets another parent,   *)
(* and vfork neither starts nor ends.                                      *)
LEMMA LifeFrame ==
  ASSUME LifeInv, ProcTypeOK', InitLives',
         \A q \in Pid :
           /\ proc'[q].parent = proc[q].parent /\ proc'[q].vforked = proc[q].vforked
           /\ proc'[q].vforkStopped = proc[q].vforkStopped
           /\ proc'[q].state = "FREE" <=> proc[q].state = "FREE"
           /\ proc'[q].state = "ZOMBIE" <=> proc[q].state = "ZOMBIE"
           /\ proc[q].vforkStopped =>
                proc'[q].state = "RUNNABLE" /\ proc'[q].stopped /\ proc'[q].pc = "vfork"
  PROVE  LifeInv'
<1>1. \A q \in Pid : proc[q].parent \in Pid
  BY Zenon, RecordLemma DEF LifeInv, ProcTypeOK
<1>2. ParentIsOther'
  BY Zenon DEF LifeInv, ParentIsOther
<1>3. ParentIsThere'
  BY <1>1 DEF LifeInv, ParentIsThere, Exists
<1>4. \A c, p \in Pid : Holds(c, p)' <=> Holds(c, p)
  BY Zenon DEF Holds
<1>5. VforkHolds'
  BY Zenon, <1>4 DEF LifeInv, VforkHolds
<1>. QED
  BY Zenon, <1>2, <1>3, <1>5 DEF LifeInv

(* The same for a step of one process, or of a sender of signals. *)
LEMMA LifeOne ==
  ASSUME LifeInv, NEW p \in Pid, NEW R \in ProcessRecord, proc' = [proc EXCEPT ![p] = R],
         R.parent = proc[p].parent, R.vforked = proc[p].vforked,
         R.vforkStopped = proc[p].vforkStopped,
         R.state = "FREE" <=> proc[p].state = "FREE",
         R.state = "ZOMBIE" <=> proc[p].state = "ZOMBIE",
         R.vforkStopped => R.state = "RUNNABLE" /\ R.stopped /\ R.pc = "vfork",
         p = init => R.state \in {"RUNNABLE", "SLEEPING"}
  PROVE  LifeInv'
<1>1. ProcTypeOK' /\ proc'[p] = R /\ \A q \in Pid : q # p => proc'[q] = proc[q]
  BY Zenon DEF LifeInv, ProcTypeOK
<1>2. InitLives'
  BY Zenon, <1>1, ProcessAssumption DEF LifeInv, InitLives
<1>3. ASSUME NEW q \in Pid
      PROVE  /\ proc'[q].parent = proc[q].parent /\ proc'[q].vforked = proc[q].vforked
             /\ proc'[q].vforkStopped = proc[q].vforkStopped
             /\ proc'[q].state = "FREE" <=> proc[q].state = "FREE"
             /\ proc'[q].state = "ZOMBIE" <=> proc[q].state = "ZOMBIE"
             /\ proc[q].vforkStopped =>
                  proc'[q].state = "RUNNABLE" /\ proc'[q].stopped /\ proc'[q].pc = "vfork"
  <2>1. CASE q = p
    BY Zenon, <1>1, <2>1
  <2>2. CASE q # p
    BY Zenon, <1>1, <2>2 DEF LifeInv, VforkHolds
  <2>. QED
    BY Zenon, <2>1, <2>2
<1>. QED
  BY Zenon, <1>1, <1>2, <1>3, LifeFrame

(* A process that the scheduler may pick is not held by vfork. *)
LEMMA SelectableLemma ==
  ASSUME LifeInv, NEW p \in Pid, Selectable(p)
  PROVE  /\ proc[p] \in ProcessRecord /\ proc[p].state = "RUNNABLE"
         /\ ~proc[p].stopped /\ proc[p].vforkStopped = FALSE
<1>1. proc[p] \in ProcessRecord
  BY Zenon DEF LifeInv, ProcTypeOK
<1>2. ~proc[p].vforkStopped
  BY Zenon DEF LifeInv, VforkHolds, Selectable
<1>. QED
  BY Zenon, <1>1, <1>2, RecordLemma DEF Selectable

(* Steps of one running process p that only concern itself, and what they  *)
(* may make of p.                                                          *)
SelfStep(p) ==
  \/ VforkReturn(p) \/ Wait4Nothing(p) \/ Wait4Sleeps(p) \/ Wait4Woken(p) \/ Deliver(p)
  \/ HandlerReturns(p) \/ Exit(p) \/ \E r \in Request[p] : CallWait4(p, r)
  \/ \E h \in Disposition : SetSigchld(p, h)

SelfUpdate(p, R) ==
  /\ R \in ProcessRecord /\ R.parent = proc[p].parent /\ R.vforked = proc[p].vforked
  /\ R.vforkStopped = FALSE /\ R.stopped = FALSE
  /\ R.state = "RUNNABLE" \/ (R.state = "DYING" /\ p # init)
       \/ (R.state = "SLEEPING" /\ Wait4Sleeps(p))
  /\ R.req \in {proc[p].req, NoRequest} \cup Request[p]

(* Each of the steps is such an update. *)
LEMMA SelfLemma ==
  ASSUME LifeInv, NEW p \in Pid, SelfStep(p)
  PROVE  /\ Selectable(p)
         /\ \E R : proc' = [proc EXCEPT ![p] = R] /\ SelfUpdate(p, R)
<1>1. Selectable(p)
  BY Zenon DEF SelfStep, VforkReturn, Wait4Nothing, Wait4Sleeps, Wait4Woken, Deliver,
     HandlerReturns, Exit, CallWait4, SetSigchld, InWait4, InUserMode
<1>2. /\ proc[p] \in ProcessRecord /\ proc[p].state = "RUNNABLE"
      /\ proc[p].stopped = FALSE /\ proc[p].vforkStopped = FALSE
  BY ZenonT(60), <1>1, SelectableLemma, RecordLemma
<1>3. \E R : proc' = [proc EXCEPT ![p] = R] /\ SelfUpdate(p, R)
  <2>1. CASE VforkReturn(p)
    <3> DEFINE R == [proc[p] EXCEPT !.pc = "user"]
    <3>1. proc' = [proc EXCEPT ![p] = R]
      BY Zenon, <2>1 DEF VforkReturn
    <3>2. SelfUpdate(p, R)
      BY Zenon, <1>2, <2>1, ProcessAssumption DEF SelfUpdate, ProcessRecord
    <3>. HIDE DEF R
    <3>. QED
      BY ZenonT(60), <3>1, <3>2
  <2>2. CASE Wait4Nothing(p)
    <3>1. proc' = [proc EXCEPT ![p] = Returned(p)]
      BY Zenon, <2>2 DEF Wait4Nothing
    <3>2. SelfUpdate(p, Returned(p))
      BY ZenonT(60), <1>2, <2>2, BlankLemma, ProcessAssumption DEF SelfUpdate, ProcessRecord, Returned
    <3>. QED
      BY ZenonT(60), <3>1, <3>2
  <2>3. CASE Wait4Sleeps(p)
    <3> DEFINE R == [proc[p] EXCEPT !.state = "SLEEPING"]
    <3>1. proc' = [proc EXCEPT ![p] = R]
      BY Zenon, <2>3 DEF Wait4Sleeps
    <3>2. SelfUpdate(p, R)
      BY Zenon, <1>2, <2>3, ProcessAssumption DEF SelfUpdate, ProcessRecord
    <3>. HIDE DEF R
    <3>. QED
      BY ZenonT(60), <3>1, <3>2
  <2>4. CASE Wait4Woken(p) /\ proc[p].pending # {} /\ ~proc[p].handler
    <3>1. proc' = [proc EXCEPT ![p] = Returned(p)]
      BY Zenon, <2>4 DEF Wait4Woken
    <3>2. SelfUpdate(p, Returned(p))
      BY ZenonT(60), <1>2, <2>4, BlankLemma, ProcessAssumption DEF SelfUpdate, ProcessRecord, Returned
    <3>. QED
      BY ZenonT(60), <3>1, <3>2
  <2>5. CASE Wait4Woken(p) /\ ~(proc[p].pending # {} /\ ~proc[p].handler)
    <3> DEFINE R == [proc[p] EXCEPT !.pc = "wait4"]
    <3>1. proc' = [proc EXCEPT ![p] = R]
      BY Zenon, <2>5 DEF Wait4Woken
    <3>2. SelfUpdate(p, R)
      BY Zenon, <1>2, <2>5, ProcessAssumption DEF SelfUpdate, ProcessRecord
    <3>. HIDE DEF R
    <3>. QED
      BY ZenonT(60), <3>1, <3>2
  <2>6. CASE \E last \in BOOLEAN :
               proc' = [proc EXCEPT ![p].handler = TRUE,
                                    ![p].pending = IF last THEN @ \ {"caught"} ELSE @]
    <3>1. PICK S \in {proc[p].pending, proc[p].pending \ {"caught"}} :
            proc' = [proc EXCEPT ![p] = [proc[p] EXCEPT !.handler = TRUE, !.pending = S]]
      BY ZenonT(60), <2>6 DEF LifeInv, ProcTypeOK
    <3> DEFINE R == [proc[p] EXCEPT !.handler = TRUE, !.pending = S]
    <3>2. S \in SUBSET {"SIGKILL", "deadly", "caught"}
      BY Zenon, <1>2, <3>1, RecordLemma
    <3>3. SelfUpdate(p, R)
      BY ZenonT(60), <1>2, <3>2, ProcessAssumption DEF SelfUpdate, ProcessRecord
    <3>. HIDE DEF R
    <3>. QED
      BY ZenonT(60), <3>1, <3>3 DEF R
  <2>7. CASE Dies(p)
    <3> DEFINE R == [proc[p] EXCEPT !.state = "DYING", !.pending = {}, !.handler = FALSE]
    <3>1. p # init /\ proc' = [proc EXCEPT ![p] = R]
      BY ZenonT(60), <2>7 DEF Dies
    <3>2. SelfUpdate(p, R)
      BY ZenonT(60), <1>2, <3>1, ProcessAssumption DEF SelfUpdate, ProcessRecord
    <3>. HIDE DEF R
    <3>. QED
      BY ZenonT(60), <3>1, <3>2
  <2>8. CASE \E r \in Request[p] : CallWait4(p, r)
    <3>1. PICK r \in Request[p] : CallWait4(p, r)
      BY Zenon, <2>8
    <3>2. r \in WaitRequest /\ r \in Request[p]
      BY Zenon, <3>1, ProcessAssumption
    <3> DEFINE R == [proc[p] EXCEPT !.pc = "wait4", !.req = r]
    <3>3. proc' = [proc EXCEPT ![p] = R]
      BY ZenonT(60), <3>1 DEF CallWait4
    <3>4. SelfUpdate(p, R)
      BY ZenonT(60), <1>2, <3>1, <3>2, ProcessAssumption DEF SelfUpdate, ProcessRecord
    <3>. HIDE DEF R
    <3>. QED
      BY ZenonT(60), <3>3, <3>4
  <2>9. CASE \E h \in Disposition : SetSigchld(p, h)
    <3>1. PICK h \in Disposition : SetSigchld(p, h)
      BY Zenon, <2>9
    <3>2. h \in {"DFL", "IGN", "HANDLER"}
      BY Zenon, <3>1, ProcessAssumption
    <3> DEFINE R == [proc[p] EXCEPT !.sigchld = h]
    <3>3. proc' = [proc EXCEPT ![p] = R]
      BY Zenon, <3>1 DEF SetSigchld
    <3>4. SelfUpdate(p, R)
      BY Zenon, <1>2, <3>1, <3>2, ProcessAssumption DEF SelfUpdate, ProcessRecord
    <3>. HIDE DEF R
    <3>. QED
      BY ZenonT(60), <3>3, <3>4
  <2>10. CASE HandlerReturns(p) /\ proc[p].pending = {}
    <3> DEFINE R == [proc[p] EXCEPT !.handler = FALSE]
    <3>1. proc' = [proc EXCEPT ![p] = R]
      BY Zenon, <2>10 DEF HandlerReturns
    <3>2. SelfUpdate(p, R)
      BY Zenon, <1>2, <2>10, ProcessAssumption DEF SelfUpdate, ProcessRecord
    <3>. HIDE DEF R
    <3>. QED
      BY ZenonT(60), <3>1, <3>2
  <2>11. CASE TakesSignal(p)
    BY Zenon, <2>6, <2>7, <2>11 DEF TakesSignal
  <2>12. CASE Wait4Woken(p)
    BY Zenon, <2>4, <2>5, <2>12
  <2>13. CASE HandlerReturns(p)
    BY Zenon, <2>10, <2>11, <2>13 DEF HandlerReturns
  <2>14. CASE Deliver(p) \/ Exit(p)
    BY Zenon, <2>7, <2>11, <2>14 DEF Deliver, Exit
  <2>. QED
    BY Zenon, <2>1, <2>2, <2>3, <2>8, <2>9, <2>12, <2>13, <2>14 DEF SelfStep
<1>. QED
  BY ZenonT(60), <1>1, <1>3

(* So they keep the invariant. *)
LEMMA LifeSelf ==
  ASSUME LifeInv, NEW p \in Pid, SelfStep(p)
  PROVE  LifeInv'
<1>1. PICK R : proc' = [proc EXCEPT ![p] = R] /\ SelfUpdate(p, R)
  BY Zenon, SelfLemma
<1>2. proc[p].state = "RUNNABLE" /\ proc[p].vforkStopped = FALSE
  BY ZenonT(60), SelfLemma, SelectableLemma
<1>3. p = init => R.state \in {"RUNNABLE", "SLEEPING"}
  BY Zenon, <1>1 DEF SelfUpdate
<1>. QED
  BY ZenonT(60), <1>1, <1>2, <1>3, LifeOne DEF SelfUpdate

(* The signals that are made pending. *)
Sends(q) == SendCaught(q) \/ \E s \in {"SIGKILL", "deadly"} : SendDeadly(q, s)

(* One of them is posted. *)
LEMMA SendsLemma ==
  ASSUME NEW q \in Pid, Sends(q)
  PROVE  /\ proc[q].state \in {"RUNNABLE", "SLEEPING"}
         /\ \E s \in {"SIGKILL", "deadly", "caught"} :
               proc' = [proc EXCEPT ![q] = Post(proc[q], s)]
BY ZenonT(60) DEF Sends, SendDeadly, SendCaught, Signalled

(* A signal made pending. *)
LEMMA LifePost ==
  ASSUME LifeInv, NEW q \in Pid, Sends(q)
  PROVE  LifeInv'
<1>1. PICK s \in {"SIGKILL", "deadly", "caught"} :
        proc' = [proc EXCEPT ![q] = Post(proc[q], s)]
  BY Zenon, SendsLemma
<1>2. proc[q] \in ProcessRecord /\ proc[q].state \in {"RUNNABLE", "SLEEPING"}
  BY Zenon, SendsLemma DEF LifeInv, ProcTypeOK
<1>3. /\ Post(proc[q], s).parent = proc[q].parent /\ Post(proc[q], s).vforked = proc[q].vforked
      /\ Post(proc[q], s).vforkStopped = proc[q].vforkStopped
      /\ Post(proc[q], s) \in ProcessRecord
      /\ Post(proc[q], s).state \in {"RUNNABLE", "SLEEPING"}
  BY Zenon, <1>1, <1>2, PostLemma
<1>4. proc[q].vforkStopped => /\ Post(proc[q], s).state = "RUNNABLE" /\ Post(proc[q], s).stopped
                              /\ Post(proc[q], s).pc = "vfork"
  BY SMTT(60), <1>1, <1>2, PostLemma DEF LifeInv, VforkHolds
<1>. QED
  BY ZenonT(60), <1>1, <1>2, <1>3, <1>4, LifeOne

(* setpgid changes the group of its target, and nothing else that counts   *)
(* for its life.                                                           *)
LEMMA SetPgidLemma ==
  ASSUME LifeInv, NEW p \in Pid, NEW c \in Pid, NEW g \in Group, SetPgid(p, c, g)
  PROVE  \E R \in ProcessRecord :
           /\ proc' = [proc EXCEPT ![c] = R]
           /\ R.state = proc[c].state /\ R.parent = proc[c].parent
           /\ R.vforked = proc[c].vforked /\ R.vforkStopped = proc[c].vforkStopped
           /\ R.stopped = proc[c].stopped /\ R.wasStopped = proc[c].wasStopped
           /\ R.pc = proc[c].pc /\ R.req = proc[c].req
           /\ R.state = "ZOMBIE" => R.moved
<1> DEFINE m == proc[c].state = "ZOMBIE"
           R == [proc[c] EXCEPT !.pgid = g, !.moved = m]
<1>1. proc[c] \in ProcessRecord /\ g \in Pid /\ m \in BOOLEAN
  BY Zenon, ProcessAssumption DEF LifeInv, ProcTypeOK
<1>2. proc' = [proc EXCEPT ![c] = R]
  BY Zenon DEF SetPgid
<1>. HIDE DEF m
<1>3. /\ R \in ProcessRecord /\ R.state = proc[c].state /\ R.parent = proc[c].parent
      /\ R.vforked = proc[c].vforked /\ R.vforkStopped = proc[c].vforkStopped
      /\ R.stopped = proc[c].stopped /\ R.wasStopped = proc[c].wasStopped
      /\ R.pc = proc[c].pc /\ R.req = proc[c].req /\ R.moved = m
  BY ZenonT(60), <1>1 DEF ProcessRecord
<1>4. R.state = "ZOMBIE" => R.moved
  BY Zenon, <1>3 DEF m
<1>. HIDE DEF R
<1>. QED
  BY ZenonT(60), <1>2, <1>3, <1>4

(* So it keeps the invariant. *)
LEMMA LifeSetPgid ==
  ASSUME LifeInv, NEW p \in Pid, NEW c \in Pid, NEW g \in Group, SetPgid(p, c, g)
  PROVE  LifeInv'
<1>1. PICK R \in ProcessRecord :
        /\ proc' = [proc EXCEPT ![c] = R]
        /\ R.state = proc[c].state /\ R.parent = proc[c].parent
        /\ R.vforked = proc[c].vforked /\ R.vforkStopped = proc[c].vforkStopped
        /\ R.stopped = proc[c].stopped /\ R.pc = proc[c].pc
  BY Zenon, SetPgidLemma
<1>2. R.vforkStopped => R.state = "RUNNABLE" /\ R.stopped /\ R.pc = "vfork"
  BY Zenon, <1>1 DEF LifeInv, VforkHolds
<1>3. c = init => R.state \in {"RUNNABLE", "SLEEPING"}
  BY Zenon, <1>1 DEF LifeInv, InitLives
<1>. QED
  BY ZenonT(60), <1>1, <1>2, <1>3, LifeOne

(* A signal that stops or continues its target, and those who hear of it. *)
LEMMA LifeSets ==
  ASSUME LifeInv, NEW q \in Pid, SendStop(q) \/ SendContinue(q)
  PROVE  LifeInv'
<1>1. PICK stops \in BOOLEAN, r \in {"stopped", "continued"} :
        Sets(q, stops, r) /\ (proc[q].vforkStopped => stops)
  BY ZenonT(60) DEF SendStop, SendContinue
<1>2. /\ q # init /\ proc[q].state \in {"RUNNABLE", "SLEEPING"}
      /\ proc' = [s \in Pid |-> IF s = q THEN [proc[q] EXCEPT !.stopped = stops]
                                ELSE Told(s, {q}, r, Parents)]
  BY Zenon, <1>1 DEF Sets, Signalled
<1>3. ProcTypeOK /\ proc[q] \in ProcessRecord
  BY Zenon DEF LifeInv, ProcTypeOK
<1> DEFINE R == [proc[q] EXCEPT !.stopped = stops]
<1>4. /\ R \in ProcessRecord /\ R.parent = proc[q].parent /\ R.vforked = proc[q].vforked
      /\ R.vforkStopped = proc[q].vforkStopped /\ R.state = proc[q].state
      /\ R.pc = proc[q].pc /\ R.stopped = stops
  BY Zenon, <1>3 DEF ProcessRecord
<1>5. proc'[q] = R /\ \A s \in Pid : s # q => proc'[s] = Told(s, {q}, r, Parents)
  BY Zenon, <1>2
<1>. HIDE DEF R
<1>6. ProcTypeOK'
  <2>1. \A s \in Pid : proc'[s] \in ProcessRecord
    BY SMTT(60), <1>3, <1>4, <1>5, ToldLemma
  <2>. QED
    BY Zenon, <1>2, <2>1 DEF ProcTypeOK
<1>7. InitLives'
  BY SMTT(60), <1>2, <1>3, <1>5, ToldLemma, ProcessAssumption DEF LifeInv, InitLives
<1>8. ASSUME NEW s \in Pid
      PROVE  /\ proc'[s].parent = proc[s].parent /\ proc'[s].vforked = proc[s].vforked
             /\ proc'[s].vforkStopped = proc[s].vforkStopped
             /\ proc'[s].state = "FREE" <=> proc[s].state = "FREE"
             /\ proc'[s].state = "ZOMBIE" <=> proc[s].state = "ZOMBIE"
             /\ proc[s].vforkStopped =>
                  proc'[s].state = "RUNNABLE" /\ proc'[s].stopped /\ proc'[s].pc = "vfork"
  <2>1. proc[s].vforkStopped =>
          proc[s].state = "RUNNABLE" /\ proc[s].stopped /\ proc[s].pc = "vfork"
    BY Zenon DEF LifeInv, VforkHolds
  <2>2. CASE s = q
    BY Zenon, <1>1, <1>4, <1>5, <2>1, <2>2
  <2>3. CASE s # q
    BY <1>3, <1>5, <2>1, <2>3, ToldLemma
  <2>. QED
    BY Zenon, <2>2, <2>3
<1>. QED
  BY Zenon, <1>6, <1>7, <1>8, LifeFrame

(* A child is born: of fork, or of vfork, which holds the parent. *)
LEMMA LifeBirth ==
  ASSUME LifeInv, NEW p \in Pid, NEW c \in Pid, Fork(p, c) \/ Vfork(p, c)
  PROVE  LifeInv'
<1>1. InUserMode(p) /\ ~Exists(c)
  BY ZenonT(60) DEF Fork, Vfork
<1>2. /\ proc[p] \in ProcessRecord /\ proc[p].state = "RUNNABLE" /\ proc[p].pc = "user"
      /\ ~proc[p].stopped /\ proc[p].vforkStopped = FALSE
  BY ZenonT(60), <1>1, SelectableLemma DEF InUserMode
<1>3. c # p /\ c # init /\ proc[c].state = "FREE"
  BY Zenon, <1>1, <1>2 DEF LifeInv, InitLives, Exists
<1>4. ASSUME NEW v \in BOOLEAN
      PROVE  /\ Forked(p, v) \in ProcessRecord /\ Forked(p, v).parent = p
             /\ Forked(p, v).vforked = v /\ Forked(p, v).vforkStopped = FALSE
             /\ Forked(p, v).state = "RUNNABLE"
  BY ZenonT(60), <1>2 DEF Forked, ProcessRecord
<1>5. PICK v \in BOOLEAN :
        /\ proc' \in [Pid -> ProcessRecord] /\ proc'[c] = Forked(p, v)
        /\ \A q \in Pid : q # c /\ q # p => proc'[q] = proc[q]
        /\ proc'[p].state = "RUNNABLE" /\ proc'[p].parent = proc[p].parent
        /\ proc'[p].vforked = proc[p].vforked
        /\ proc'[p].vforkStopped <=> v
        /\ v => proc'[p].stopped /\ proc'[p].pc = "vfork"
  <2>1. CASE Fork(p, c)
    <3>1. proc' = [proc EXCEPT ![c] = Forked(p, FALSE)]
      BY Zenon, <2>1 DEF Fork
    <3>2. /\ proc' \in [Pid -> ProcessRecord] /\ proc'[c] = Forked(p, FALSE)
          /\ \A q \in Pid : q # c => proc'[q] = proc[q]
      BY ZenonT(60), <1>4, <3>1 DEF LifeInv, ProcTypeOK
    <3>. QED
      BY ZenonT(60), <1>2, <1>3, <3>2
  <2>2. CASE Vfork(p, c)
    <3> DEFINE R == [proc[p] EXCEPT !.stopped = TRUE, !.vforkStopped = TRUE, !.pc = "vfork"]
    <3>1. proc' = [[proc EXCEPT ![c] = Forked(p, TRUE)] EXCEPT ![p] = R]
      BY Zenon, <1>3, <2>2 DEF Vfork
    <3>2. /\ R \in ProcessRecord /\ R.state = "RUNNABLE" /\ R.parent = proc[p].parent
          /\ R.vforked = proc[p].vforked /\ R.vforkStopped = TRUE
          /\ R.stopped = TRUE /\ R.pc = "vfork"
      BY ZenonT(60), <1>2 DEF ProcessRecord
    <3>. HIDE DEF R
    <3>3. /\ proc' \in [Pid -> ProcessRecord] /\ proc'[c] = Forked(p, TRUE) /\ proc'[p] = R
          /\ \A q \in Pid : q # c /\ q # p => proc'[q] = proc[q]
      BY ZenonT(60), <1>3, <1>4, <3>1, <3>2 DEF LifeInv, ProcTypeOK
    <3>. QED
      BY ZenonT(60), <3>2, <3>3
  <2>. QED
    BY Zenon, <2>1, <2>2
<1>6. /\ proc'[c].parent = p /\ proc'[c].vforked = v /\ proc'[c].vforkStopped = FALSE
      /\ proc'[c].state = "RUNNABLE"
  BY ZenonT(60), <1>4, <1>5
<1>7. ProcTypeOK' /\ InitLives'
  BY Zenon, <1>3, <1>5, ProcessAssumption DEF ProcTypeOK, LifeInv, InitLives
<1>8. \A q \in Pid : q # c => proc'[q].parent = proc[q].parent /\ proc'[q].state = proc[q].state
  BY Zenon, <1>2, <1>5
<1>9. ParentIsOther'
  BY Zenon, <1>3, <1>6, <1>8 DEF LifeInv, ParentIsOther
<1>10. \A q \in Pid : q # c /\ Exists(q) => proc[q].parent \in Pid /\ proc[q].parent # c
  BY <1>3, RecordLemma DEF LifeInv, ProcTypeOK, ParentIsThere
<1>11. ParentIsThere'
  <2>1. ASSUME NEW q \in Pid, Exists(q)'
        PROVE  proc'[proc'[q].parent].state \notin {"FREE", "ZOMBIE"}
    <3>1. CASE q = c
      BY Zenon, <1>5, <1>6, <3>1
    <3>2. CASE q # c
      <4>1. Exists(q) /\ proc'[q].parent = proc[q].parent
        BY Zenon, <1>8, <2>1, <3>2 DEF Exists
      <4>. QED
        BY SMTT(60), <1>8, <1>10, <3>2, <4>1 DEF LifeInv, ParentIsThere
    <3>. QED
      BY Zenon, <3>1, <3>2
  <2>. QED
    BY Zenon, <2>1 DEF ParentIsThere
<1>12. \A d, q \in Pid : d # c => (Holds(d, q)' <=> Holds(d, q))
  BY Zenon, <1>5, <1>8 DEF Holds
<1>13. \A q \in Pid : Holds(c, q)' <=> (v /\ q = p)
  BY Zenon, <1>6 DEF Holds
<1>14. \A d, q \in Pid : Holds(d, q) => d # c /\ q # c /\ q # p
  BY <1>2, <1>3, <1>10 DEF Holds, Exists, LifeInv, VforkHolds
<1>15. VforkHolds'
  <2>1. ASSUME NEW q \in Pid
        PROVE  /\ proc'[q].vforkStopped <=> \E d \in Pid : Holds(d, q)'
               /\ \A d, e \in Pid : Holds(d, q)' /\ Holds(e, q)' => d = e
               /\ proc'[q].vforkStopped => /\ proc'[q].state = "RUNNABLE"
                                           /\ proc'[q].stopped
                                           /\ proc'[q].pc = "vfork"
    <3>1. CASE q = c
      BY Zenon, <1>3, <1>6, <1>12, <1>13, <1>14, <3>1
    <3>2. CASE q = p
      BY Zenon, <1>5, <1>12, <1>13, <1>14, <3>2
    <3>3. CASE q # c /\ q # p
      <4>1. proc'[q] = proc[q] /\ \A d \in Pid : Holds(d, q)' <=> Holds(d, q)
        BY Zenon, <1>5, <1>12, <1>13, <1>14, <3>3
      <4>. QED
        BY Zenon, <4>1 DEF LifeInv, VforkHolds
    <3>. QED
      BY Zenon, <3>1, <3>2, <3>3
  <2>. QED
    BY Zenon, <2>1 DEF VforkHolds
<1>. QED
  BY Zenon, <1>7, <1>9, <1>11, <1>15 DEF LifeInv

(* A vforked process lets its parent go, if p is one. *)
LEMMA VforkEnds ==
  ASSUME LifeInv, NEW p \in Pid,
         \A d, q \in Pid : Holds(d, q)' <=> (Holds(d, q) /\ d # p),
         \A q \in Pid :
           /\ proc'[q].vforkStopped <=> (proc[q].vforkStopped /\ ~Holds(p, q))
           /\ proc'[q].vforkStopped =>
                proc'[q].state = "RUNNABLE" /\ proc'[q].stopped /\ proc'[q].pc = "vfork"
  PROVE  VforkHolds'
BY DEF LifeInv, VforkHolds

(* The parent that is let go. *)
LEMMA UnblockLemma ==
  ASSUME NEW P \in ProcessRecord
  PROVE  /\ Unblock(P) \in ProcessRecord /\ Unblock(P).vforkStopped = FALSE
         /\ Unblock(P).stopped = FALSE /\ Unblock(P).parent = P.parent
         /\ Unblock(P).vforked = P.vforked /\ Unblock(P).state = P.state
         /\ Unblock(P).moved = P.moved /\ Unblock(P).req = P.req
         /\ Unblock(P).pgid = P.pgid /\ Unblock(P).wasStopped = P.wasStopped
BY ZenonT(60) DEF Unblock, ProcessRecord

(* What execve makes of p, and of p's parent if it waits in vfork. *)
LEMMA ExecveLemma ==
  ASSUME LifeInv, NEW p \in Pid, Execve(p)
  PROVE  /\ ProcTypeOK' /\ proc[p].state = "RUNNABLE" /\ ~proc[p].stopped
         /\ proc'[p].vforked = FALSE /\ proc'[p].stopped = FALSE
         /\ proc'[p].vforkStopped = FALSE
         /\ \A q \in Pid :
              /\ proc'[q].state = proc[q].state /\ proc'[q].parent = proc[q].parent
              /\ proc'[q].moved = proc[q].moved /\ proc'[q].req = proc[q].req
              /\ proc'[q].pgid = proc[q].pgid
              /\ Holds(p, q) => proc'[q].vforkStopped = FALSE /\ proc'[q].stopped = FALSE
              /\ q # p /\ ~Holds(p, q) => proc'[q] = proc[q]
              /\ q # p => proc'[q].vforked = proc[q].vforked
<1>1. /\ proc[p] \in ProcessRecord /\ proc[p].state = "RUNNABLE" /\ ~proc[p].stopped
      /\ proc[p].stopped = FALSE /\ proc[p].vforkStopped = FALSE
  BY ZenonT(60), SelectableLemma, RecordLemma DEF Execve, InUserMode
<1> DEFINE S == Uncaught(proc[p].pending)
           R == [proc[p] EXCEPT !.vforked = FALSE, !.execed = TRUE, !.handler = FALSE,
                                !.pending = S,
                                !.sigchld = IF @ = "HANDLER" THEN "DFL" ELSE @]
           Q == [proc EXCEPT ![p] = R]
           x == proc[p].parent
<1>9. S \in SUBSET {"SIGKILL", "deadly", "caught"}
  BY Zenon, <1>1, RecordLemma DEF Uncaught
<1>2. /\ R \in ProcessRecord /\ R.vforked = FALSE /\ R.stopped = FALSE /\ R.vforkStopped = FALSE
      /\ R.state = proc[p].state /\ R.parent = proc[p].parent
      /\ R.moved = proc[p].moved /\ R.req = proc[p].req /\ R.pgid = proc[p].pgid
  BY ZenonT(60), <1>1, <1>9 DEF ProcessRecord
<1>3. proc' = IF proc[p].vforked THEN [Q EXCEPT ![x] = Unblock(Q[x])] ELSE Q
  BY ZenonT(60) DEF Execve
<1>4. x \in Pid /\ (proc[p].vforked => x # p)
  BY Zenon, <1>1, RecordLemma DEF LifeInv, InitLives, ParentIsOther
<1>5. \A q \in Pid : Holds(p, q) <=> (proc[p].vforked /\ q = x)
  BY Zenon, <1>1 DEF Holds
<1>. HIDE DEF R
<1>6. Q \in [Pid -> ProcessRecord] /\ Q[p] = R /\ \A q \in Pid : q # p => Q[q] = proc[q]
  BY Zenon, <1>2 DEF LifeInv, ProcTypeOK
<1>. HIDE DEF Q, x
<1>7. CASE proc[p].vforked
  <2>1. Unblock(Q[x]) \in ProcessRecord
    BY ZenonT(60), <1>4, <1>6, UnblockLemma
  <2>2. /\ proc' \in [Pid -> ProcessRecord] /\ proc'[p] = R /\ proc'[x] = Unblock(proc[x])
        /\ \A q \in Pid : q # p /\ q # x => proc'[q] = proc[q]
    BY Zenon, <1>3, <1>4, <1>6, <1>7, <2>1
  <2>3. proc[x] \in ProcessRecord
    BY Zenon, <1>4 DEF LifeInv, ProcTypeOK
  <2>4. ASSUME NEW q \in Pid
        PROVE  /\ proc'[q].state = proc[q].state /\ proc'[q].parent = proc[q].parent
               /\ proc'[q].moved = proc[q].moved /\ proc'[q].req = proc[q].req
               /\ proc'[q].pgid = proc[q].pgid
               /\ Holds(p, q) => proc'[q].vforkStopped = FALSE /\ proc'[q].stopped = FALSE
               /\ q # p /\ ~Holds(p, q) => proc'[q] = proc[q]
               /\ q # p => proc'[q].vforked = proc[q].vforked
    <3>1. CASE q = p
      BY Zenon, <1>2, <1>4, <1>5, <1>7, <2>2, <3>1
    <3>2. CASE q = x
      <4>1. proc'[q] = Unblock(proc[q]) /\ proc[q] \in ProcessRecord
        BY Zenon, <2>2, <2>3, <3>2
      <4>2. q # p /\ Holds(p, q)
        BY Zenon, <1>4, <1>5, <1>7, <3>2
      <4>. QED
        <5>1. proc'[q].state = proc[q].state /\ proc'[q].parent = proc[q].parent
          BY ZenonT(60), <4>1, UnblockLemma
        <5>2. proc'[q].moved = proc[q].moved /\ proc'[q].req = proc[q].req
          BY ZenonT(60), <4>1, UnblockLemma
        <5>3. proc'[q].vforkStopped = FALSE /\ proc'[q].stopped = FALSE
          BY ZenonT(60), <4>1, UnblockLemma
        <5>4. proc'[q].pgid = proc[q].pgid
          BY ZenonT(60), <4>1, UnblockLemma
        <5>5. proc'[q].vforked = proc[q].vforked
          BY ZenonT(60), <4>1, UnblockLemma
        <5>. QED
          BY Zenon, <4>2, <5>1, <5>2, <5>3, <5>4, <5>5
    <3>3. CASE q # p /\ q # x
      <4>1. proc'[q] = proc[q] /\ ~Holds(p, q)
        BY Zenon, <1>5, <2>2, <3>3
      <4>. QED
        BY Zenon, <3>3, <4>1
    <3>. QED
      BY ZenonT(60), <3>1, <3>2, <3>3
  <2>. QED
    BY ZenonT(60), <1>1, <1>2, <2>2, <2>4 DEF ProcTypeOK
<1>8. CASE ~proc[p].vforked
  <2>1. proc' = Q
    BY Zenon, <1>3, <1>8
  <2>. QED
    BY Zenon, <1>1, <1>2, <1>5, <1>6, <1>8, <2>1 DEF ProcTypeOK
<1>. QED
  BY ZenonT(60), <1>7, <1>8

(* So execve keeps the invariant. *)
LEMMA LifeExecve ==
  ASSUME LifeInv, NEW p \in Pid, Execve(p)
  PROVE  LifeInv'
<1>1. ParentIsOther'
  BY ZenonT(60), ExecveLemma DEF LifeInv, ParentIsOther
<1>2. ParentIsThere'
  <2>1. \A q \in Pid : proc[q].parent \in Pid
    BY Zenon, RecordLemma DEF LifeInv, ProcTypeOK
  <2>2. \A q \in Pid : proc'[q].state = proc[q].state /\ proc'[q].parent = proc[q].parent
    BY ZenonT(60), ExecveLemma
  <2>. QED
    BY SMTT(60), <2>1, <2>2 DEF LifeInv, ParentIsThere, Exists
<1>3. \A d, q \in Pid : Holds(d, q)' <=> (Holds(d, q) /\ d # p)
  BY ZenonT(60), ExecveLemma DEF Holds
<1>4. ASSUME NEW q \in Pid
      PROVE  /\ proc'[q].vforkStopped <=> (proc[q].vforkStopped /\ ~Holds(p, q))
             /\ proc'[q].vforkStopped =>
                  proc'[q].state = "RUNNABLE" /\ proc'[q].stopped /\ proc'[q].pc = "vfork"
  <2>1. proc[q].vforkStopped =>
          proc[q].state = "RUNNABLE" /\ proc[q].stopped /\ proc[q].pc = "vfork"
    BY Zenon DEF LifeInv, VforkHolds
  <2>2. CASE q = p
    BY ZenonT(60), <2>1, <2>2, ExecveLemma
  <2>3. CASE Holds(p, q)
    BY ZenonT(60), <2>3, ExecveLemma
  <2>4. CASE q # p /\ ~Holds(p, q)
    <3>1. proc'[q] = proc[q]
      BY ZenonT(60), <2>4, ExecveLemma
    <3>. QED
      BY Zenon, <2>1, <2>4, <3>1
  <2>. QED
    BY Zenon, <2>2, <2>3, <2>4
<1>5. VforkHolds'
  BY Zenon, <1>3, <1>4, VforkEnds
<1>6. InitLives'
  BY ZenonT(60), ExecveLemma, ProcessAssumption DEF LifeInv, InitLives
<1>. QED
  BY ZenonT(60), <1>1, <1>2, <1>5, <1>6, ExecveLemma DEF LifeInv

(* What wait4 makes of p and of the child it reports. *)
LEMMA ReportsLemma ==
  ASSUME LifeInv, NEW p \in Pid, Wait4Reports(p)
  PROVE  \E c \in Pid :
           /\ Selectable(p) /\ proc[p].state = "RUNNABLE"
           /\ c # p /\ Child(p, c) /\ ProcTypeOK'
           /\ \A q \in Pid : q # p /\ q # c => proc'[q] = proc[q]
           /\ SelfUpdate(p, proc'[p])
           /\ \/ proc[c].state = "ZOMBIE" /\ proc'[c] = Blank
              \/ /\ proc[c].state # "ZOMBIE"
                 /\ proc'[c] = [proc[c] EXCEPT !.wasStopped = ~@]
<1>1. PICK c \in Pid :
        /\ Child(p, c)
        /\ proc' = [proc EXCEPT ![p] = Returned(p),
                                ![c] = IF proc[c].state = "ZOMBIE" THEN Blank
                                       ELSE [proc[c] EXCEPT !.wasStopped = ~@]]
  BY ZenonT(60) DEF Wait4Reports, Waited
<1>2. /\ Selectable(p) /\ proc[p] \in ProcessRecord /\ proc[p].state = "RUNNABLE"
      /\ ~proc[p].stopped /\ proc[p].vforkStopped = FALSE /\ proc[p].stopped = FALSE
  BY ZenonT(60), SelectableLemma, RecordLemma DEF Wait4Reports, InWait4
<1>3. c # p
  BY Zenon, <1>1 DEF LifeInv, ParentIsOther, Child
<1>4. SelfUpdate(p, Returned(p))
  BY ZenonT(60), <1>2, BlankLemma DEF SelfUpdate, ProcessRecord, Returned
<1>5. proc \in [Pid -> ProcessRecord] /\ proc[c] \in ProcessRecord
  BY Zenon DEF LifeInv, ProcTypeOK
<1> DEFINE C == [proc[c] EXCEPT !.wasStopped = ~@]
           D == IF proc[c].state = "ZOMBIE" THEN Blank ELSE C
<1>6. C \in ProcessRecord
  BY ZenonT(60), <1>5 DEF ProcessRecord
<1>7. D \in ProcessRecord /\ Returned(p) \in ProcessRecord
  BY Zenon, <1>4, <1>6, BlankLemma DEF SelfUpdate
<1>8. proc' = [[proc EXCEPT ![p] = Returned(p)] EXCEPT ![c] = D]
  BY Zenon, <1>1, <1>3, <1>5
<1>. HIDE DEF D
<1>9. /\ proc' \in [Pid -> ProcessRecord] /\ proc'[p] = Returned(p) /\ proc'[c] = D
      /\ \A q \in Pid : q # p /\ q # c => proc'[q] = proc[q]
  BY Zenon, <1>3, <1>5, <1>7, <1>8
<1>. QED
  BY Zenon, <1>1, <1>2, <1>3, <1>4, <1>9 DEF D, ProcTypeOK

(* A report keeps the invariant: a zombie that is removed is nobody's      *)
(* parent.                                                                 *)
LEMMA LifeReports ==
  ASSUME LifeInv, NEW p \in Pid, Wait4Reports(p)
  PROVE  LifeInv'
<1>1. PICK c \in Pid :
        /\ Selectable(p) /\ proc[p].state = "RUNNABLE"
        /\ c # p /\ Child(p, c) /\ ProcTypeOK'
        /\ \A q \in Pid : q # p /\ q # c => proc'[q] = proc[q]
        /\ SelfUpdate(p, proc'[p])
        /\ \/ proc[c].state = "ZOMBIE" /\ proc'[c] = Blank
           \/ /\ proc[c].state # "ZOMBIE"
              /\ proc'[c] = [proc[c] EXCEPT !.wasStopped = ~@]
  BY Zenon, ReportsLemma
<1>2. /\ proc'[p].parent = proc[p].parent /\ proc'[p].vforked = proc[p].vforked
      /\ proc'[p].vforkStopped = FALSE /\ proc[p].vforkStopped = FALSE
      /\ proc'[p].state \notin {"FREE", "ZOMBIE"}
      /\ p = init => proc'[p].state \in {"RUNNABLE", "SLEEPING"}
  BY ZenonT(60), <1>1, SelectableLemma DEF SelfUpdate
<1>3. c # init
  BY Zenon, <1>1 DEF Child
<1>4. InitLives'
  BY Zenon, <1>1, <1>2, <1>3, ProcessAssumption DEF LifeInv, InitLives
<1>5. CASE proc[c].state # "ZOMBIE"
  <2>1. proc[c] \in ProcessRecord /\ proc'[c] = [proc[c] EXCEPT !.wasStopped = ~@]
    BY Zenon, <1>1, <1>5 DEF LifeInv, ProcTypeOK
  <2>2. /\ proc'[c].parent = proc[c].parent /\ proc'[c].vforked = proc[c].vforked
        /\ proc'[c].vforkStopped = proc[c].vforkStopped /\ proc'[c].state = proc[c].state
        /\ proc'[c].stopped = proc[c].stopped /\ proc'[c].pc = proc[c].pc
    BY Zenon, <2>1 DEF ProcessRecord
  <2>3. ASSUME NEW q \in Pid
        PROVE  /\ proc'[q].parent = proc[q].parent /\ proc'[q].vforked = proc[q].vforked
               /\ proc'[q].vforkStopped = proc[q].vforkStopped
               /\ proc'[q].state = "FREE" <=> proc[q].state = "FREE"
               /\ proc'[q].state = "ZOMBIE" <=> proc[q].state = "ZOMBIE"
               /\ proc[q].vforkStopped =>
                    proc'[q].state = "RUNNABLE" /\ proc'[q].stopped /\ proc'[q].pc = "vfork"
    <3>1. proc[q].vforkStopped =>
            proc[q].state = "RUNNABLE" /\ proc[q].stopped /\ proc[q].pc = "vfork"
      BY Zenon DEF LifeInv, VforkHolds
    <3>2. CASE q = p
      BY ZenonT(60), <1>1, <1>2, <3>2
    <3>3. CASE q = c
      BY Zenon, <2>2, <3>1, <3>3
    <3>4. CASE q # p /\ q # c
      BY Zenon, <1>1, <3>1, <3>4
    <3>. QED
      BY Zenon, <3>2, <3>3, <3>4
  <2>. QED
    BY Zenon, <1>1, <1>4, <2>3, LifeFrame
<1>6. CASE proc[c].state = "ZOMBIE"
  <2>1. proc'[c] = Blank
    BY Zenon, <1>1, <1>6
  <2>2. /\ proc'[c].state = "FREE" /\ proc'[c].parent = init
        /\ proc'[c].vforkStopped = FALSE
    BY Zenon, <2>1, BlankLemma
  <2>3. ParentIsOther'
    BY <1>1, <1>2, <1>3, <2>2 DEF LifeInv, ParentIsOther
  <2>4. \A q \in Pid : Exists(q) => proc[q].parent \in Pid /\ proc[q].parent # c
    BY <1>6, RecordLemma DEF LifeInv, ProcTypeOK, ParentIsThere
  <2>5. \A q \in Pid : q # c =>
          /\ proc'[q].parent = proc[q].parent
          /\ proc'[q].state \in {"FREE", "ZOMBIE"} => proc'[q].state = proc[q].state
          /\ Exists(q)' <=> Exists(q)
    BY Zenon, <1>1, <1>2 DEF Exists
  <2>6. ParentIsThere'
    <3>1. ASSUME NEW q \in Pid, Exists(q)'
          PROVE  proc'[proc'[q].parent].state \notin {"FREE", "ZOMBIE"}
      <4>0. q # c
        BY Zenon, <2>2, <3>1 DEF Exists
      <4>1. Exists(q) /\ proc'[q].parent = proc[q].parent
        BY Zenon, <2>5, <3>1, <4>0
      <4>2. proc[q].parent \in Pid /\ proc[q].parent # c
        BY Zenon, <2>4, <4>1
      <4>3. proc[proc[q].parent].state \notin {"FREE", "ZOMBIE"}
        BY Zenon, <4>1 DEF LifeInv, ParentIsThere
      <4>4. proc'[proc[q].parent].state \notin {"FREE", "ZOMBIE"}
        BY Zenon, <2>5, <4>2, <4>3
      <4>. QED
        BY Zenon, <4>1, <4>4
    <3>. QED
      BY Zenon, <3>1 DEF ParentIsThere
  <2>7. \A d, q \in Pid : Holds(d, q)' <=> (Holds(d, q) /\ d # c)
    <3>1. \A d, q \in Pid : d # c => (Holds(d, q)' <=> Holds(d, q))
      BY Zenon, <1>1, <1>2 DEF Holds
    <3>2. \A q \in Pid : ~Holds(c, q)'
      BY Zenon, <2>2 DEF Holds
    <3>. QED
      BY Zenon, <3>1, <3>2
  <2>8. \A q \in Pid : ~Holds(c, q)
    BY Zenon, <1>6 DEF Holds
  <2>9. ASSUME NEW q \in Pid
        PROVE  /\ proc'[q].vforkStopped <=> (proc[q].vforkStopped /\ ~Holds(c, q))
               /\ proc'[q].vforkStopped =>
                    proc'[q].state = "RUNNABLE" /\ proc'[q].stopped /\ proc'[q].pc = "vfork"
    <3>1. proc[q].vforkStopped =>
            proc[q].state = "RUNNABLE" /\ proc[q].stopped /\ proc[q].pc = "vfork"
      BY Zenon DEF LifeInv, VforkHolds
    <3>2. CASE q = p
      BY Zenon, <1>2, <3>2
    <3>3. CASE q = c
      BY Zenon, <1>6, <2>2, <3>1, <3>3
    <3>4. CASE q # p /\ q # c
      BY Zenon, <1>1, <2>8, <3>1, <3>4
    <3>. QED
      BY Zenon, <3>2, <3>3, <3>4
  <2>10. VforkHolds'
    BY Zenon, <2>7, <2>9, VforkEnds
  <2>. QED
    BY Zenon, <1>1, <1>4, <2>3, <2>6, <2>10 DEF LifeInv
<1>. QED
  BY Zenon, <1>5, <1>6

(* The parents after the end of p. *)
NewParent(p, c) == IF c \in Orphans(p) THEN init ELSE proc[c].parent

(* What the others hear of the end of p. *)
Heard(p, q) == Told(q, Dead(p), "died", [c \in Pid |-> NewParent(p, c)])

(* What the end of p makes of another process q. *)
LEMMA TerminateOther ==
  ASSUME LifeInv, NEW p \in Pid, Terminate(p), NEW q \in Pid, q # p
  PROVE  /\ proc'[q] \in ProcessRecord
         /\ proc'[q].parent = NewParent(p, q) /\ proc'[q].state = Heard(p, q).state
         /\ proc'[q].vforked = Heard(p, q).vforked /\ proc'[q].pgid = Heard(p, q).pgid
         /\ proc'[q].wasStopped = Heard(p, q).wasStopped /\ proc'[q].req = Heard(p, q).req
         /\ proc'[q].moved = Heard(p, q).moved
         /\ Holds(p, q) => proc'[q].vforkStopped = FALSE /\ proc'[q].stopped = FALSE
         /\ ~Holds(p, q) => /\ proc'[q].vforkStopped = Heard(p, q).vforkStopped
                            /\ proc'[q].stopped = Heard(p, q).stopped
                            /\ proc'[q].pc = Heard(p, q).pc
<1> DEFINE T == Heard(p, q)
           reap == T.autoReap \/ (q \in Orphans(p) /\ proc[p].sigchld = "IGN")
           P == [T EXCEPT !.parent = NewParent(p, q), !.autoReap = reap]
<1>1. proc'[q] = IF proc[p].vforked /\ q = proc[p].parent THEN Unblock(P) ELSE P
  BY ZenonT(60) DEF Terminate, Heard, NewParent
<1>2. Holds(p, q) <=> (proc[p].vforked /\ q = proc[p].parent)
  BY ZenonT(60) DEF Holds, Terminate
<1>3. T \in ProcessRecord /\ NewParent(p, q) \in Pid /\ reap \in BOOLEAN
  <2>1. T \in ProcessRecord
    BY Zenon, ToldLemma DEF Heard, LifeInv
  <2>2. NewParent(p, q) \in Pid
    BY Zenon, RecordLemma, ProcessAssumption DEF NewParent, LifeInv, ProcTypeOK
  <2>3. reap \in BOOLEAN
    OBVIOUS
  <2>. QED
    BY Zenon, <2>1, <2>2, <2>3
<1>. HIDE DEF T, reap
<1>4. /\ P \in ProcessRecord /\ P.parent = NewParent(p, q)
      /\ P.state = T.state /\ P.vforked = T.vforked /\ P.pgid = T.pgid
      /\ P.wasStopped = T.wasStopped /\ P.req = T.req /\ P.moved = T.moved
      /\ P.pc = T.pc /\ P.vforkStopped = T.vforkStopped /\ P.stopped = T.stopped
  BY ZenonT(60), <1>3 DEF ProcessRecord
<1>. HIDE DEF P
<1>5. CASE Holds(p, q)
  <2>1. proc'[q] = Unblock(P)
    BY Zenon, <1>1, <1>2, <1>5
  <2>2. proc'[q] \in ProcessRecord
    BY ZenonT(60), <1>4, <2>1, UnblockLemma
  <2>3. proc'[q].parent = P.parent
    BY ZenonT(60), <1>4, <2>1, UnblockLemma
  <2>4. proc'[q].state = P.state
    BY ZenonT(60), <1>4, <2>1, UnblockLemma
  <2>5. proc'[q].vforked = P.vforked
    BY ZenonT(60), <1>4, <2>1, UnblockLemma
  <2>6. proc'[q].pgid = P.pgid
    BY ZenonT(60), <1>4, <2>1, UnblockLemma
  <2>7. proc'[q].req = P.req
    BY ZenonT(60), <1>4, <2>1, UnblockLemma
  <2>8. proc'[q].moved = P.moved
    BY ZenonT(60), <1>4, <2>1, UnblockLemma
  <2>9. proc'[q].wasStopped = P.wasStopped
    BY ZenonT(60), <1>4, <2>1, UnblockLemma
  <2>10. proc'[q].vforkStopped = FALSE /\ proc'[q].stopped = FALSE
    BY ZenonT(60), <1>4, <2>1, UnblockLemma
  <2>. QED
    BY Zenon, <1>4, <1>5, <2>2, <2>3, <2>4, <2>5, <2>6, <2>7, <2>8, <2>9, <2>10 DEF T
<1>6. CASE ~Holds(p, q)
  <2>1. proc'[q] = P
    BY Zenon, <1>1, <1>2, <1>6
  <2>. QED
    BY Zenon, <1>4, <1>6, <2>1 DEF T
<1>. QED
  BY ZenonT(60), <1>5, <1>6

(* What the end of p makes of p. *)
LEMMA TerminateSelf ==
  ASSUME LifeInv, NEW p \in Pid, Terminate(p)
  PROVE  /\ ProcTypeOK' /\ proc[p].state = "DYING" /\ p # init /\ proc[p].vforkStopped = FALSE
         /\ \/ proc'[p] = Blank
            \/ proc'[p] = [proc[p] EXCEPT !.state = "ZOMBIE"] /\ ~ReapedAtExit(p)
         /\ proc'[p].state \in {"FREE", "ZOMBIE"} /\ proc'[p].vforkStopped = FALSE
         /\ proc'[p].parent # p /\ proc'[p].req \in {NoRequest, proc[p].req}
<1>1. proc[p].state = "DYING" /\ p # init /\ proc[p] \in ProcessRecord
  BY ZenonT(60) DEF Terminate, LifeInv, InitLives, ProcTypeOK
<1>2. proc[p].vforkStopped = FALSE /\ proc[p].parent # p
  BY Zenon, <1>1, RecordLemma DEF LifeInv, VforkHolds, ParentIsOther
<1> DEFINE Z == [proc[p] EXCEPT !.state = "ZOMBIE"]
<1>3. /\ Z \in ProcessRecord /\ Z.state = "ZOMBIE" /\ Z.vforkStopped = proc[p].vforkStopped
      /\ Z.parent = proc[p].parent /\ Z.req = proc[p].req
  BY Zenon, <1>1 DEF ProcessRecord
<1>4. proc'[p] = IF ReapedAtExit(p) THEN Blank ELSE Z
  BY ZenonT(60) DEF Terminate
<1>5. ProcTypeOK'
  <2>1. proc'[p] \in ProcessRecord
    BY Zenon, <1>3, <1>4, BlankLemma
  <2>2. \A q \in Pid : proc'[q] \in ProcessRecord
    BY ZenonT(60), <2>1, TerminateOther
  <2>3. proc' = [q \in Pid |-> proc'[q]]
    BY ZenonT(60) DEF Terminate
  <2>. QED
    BY Zenon, <2>2, <2>3 DEF ProcTypeOK
<1>6. proc'[p] = Blank \/ (proc'[p] = Z /\ ~ReapedAtExit(p))
  BY Zenon, <1>4
<1>7. CASE proc'[p] = Blank
  BY Zenon, <1>1, <1>2, <1>5, <1>7, BlankLemma
<1>8. CASE proc'[p] = Z /\ ~ReapedAtExit(p)
  <2>1. /\ proc'[p].state = "ZOMBIE" /\ proc'[p].vforkStopped = FALSE
        /\ proc'[p].parent # p /\ proc'[p].req = proc[p].req
    BY Zenon, <1>2, <1>3, <1>8
  <2>. QED
    BY Zenon, <1>1, <1>2, <1>5, <1>8, <2>1
<1>. QED
  BY ZenonT(60), <1>6, <1>7, <1>8

(* The end of p, for the others, in terms of what they were. *)
LEMMA TerminateFields ==
  ASSUME LifeInv, NEW p \in Pid, Terminate(p), NEW q \in Pid, q # p
  PROVE  /\ proc'[q].vforked = proc[q].vforked /\ proc'[q].pgid = proc[q].pgid
         /\ proc'[q].wasStopped = proc[q].wasStopped /\ proc'[q].req = proc[q].req
         /\ proc'[q].moved = proc[q].moved
         /\ proc'[q].state \in {proc[q].state, "RUNNABLE"}
         /\ proc[q].state # "SLEEPING" => proc'[q].state = proc[q].state
         /\ proc'[q].stopped => proc[q].stopped
         /\ proc'[q].vforkStopped <=> (proc[q].vforkStopped /\ ~Holds(p, q))
         /\ proc'[q].vforkStopped =>
              proc'[q].state = "RUNNABLE" /\ proc'[q].stopped /\ proc'[q].pc = "vfork"
         /\ Holds(p, q) => ~proc'[q].stopped
<1>1. /\ Heard(p, q).vforked = proc[q].vforked /\ Heard(p, q).pgid = proc[q].pgid
      /\ Heard(p, q).wasStopped = proc[q].wasStopped /\ Heard(p, q).req = proc[q].req
      /\ Heard(p, q).moved = proc[q].moved
      /\ Heard(p, q).state \in {proc[q].state, "RUNNABLE"}
      /\ proc[q].state # "SLEEPING" => Heard(p, q).state = proc[q].state
      /\ Heard(p, q).stopped => proc[q].stopped
      /\ Heard(p, q).vforkStopped = proc[q].vforkStopped
      /\ proc[q].vforkStopped /\ proc[q].state # "SLEEPING" =>
           Heard(p, q).stopped = proc[q].stopped /\ Heard(p, q).pc = proc[q].pc
  BY SMTT(60), ToldLemma DEF Heard, LifeInv
<1>2. proc[q].vforkStopped =>
        proc[q].state = "RUNNABLE" /\ proc[q].stopped /\ proc[q].pc = "vfork"
  BY Zenon DEF LifeInv, VforkHolds
<1>3. proc'[q].vforked = proc[q].vforked
  BY ZenonT(60), <1>1, TerminateOther
<1>4. proc'[q].pgid = proc[q].pgid
  BY ZenonT(60), <1>1, TerminateOther
<1>5. proc'[q].wasStopped = proc[q].wasStopped
  BY ZenonT(60), <1>1, TerminateOther
<1>6. proc'[q].req = proc[q].req
  BY ZenonT(60), <1>1, TerminateOther
<1>7. proc'[q].moved = proc[q].moved
  BY ZenonT(60), <1>1, TerminateOther
<1>8. /\ proc'[q].state \in {proc[q].state, "RUNNABLE"}
      /\ proc[q].state # "SLEEPING" => proc'[q].state = proc[q].state
  BY ZenonT(60), <1>1, TerminateOther
<1>9. CASE Holds(p, q)
  <2>1. proc'[q].vforkStopped = FALSE /\ proc'[q].stopped = FALSE
    BY ZenonT(60), <1>9, TerminateOther
  <2>. QED
    BY Zenon, <1>3, <1>4, <1>5, <1>6, <1>7, <1>8, <1>9, <2>1
<1>10. CASE ~Holds(p, q)
  <2>1. /\ proc'[q].vforkStopped = proc[q].vforkStopped
        /\ proc'[q].stopped = Heard(p, q).stopped
    BY ZenonT(60), <1>1, <1>10, TerminateOther
  <2>2. proc'[q].pc = Heard(p, q).pc
    BY ZenonT(60), <1>10, TerminateOther
  <2>3. proc[q].vforkStopped =>
          proc'[q].state = "RUNNABLE" /\ proc'[q].stopped /\ proc'[q].pc = "vfork"
    BY Zenon, <1>1, <1>2, <1>8, <2>1, <2>2
  <2>. QED
    BY Zenon, <1>1, <1>3, <1>4, <1>5, <1>6, <1>7, <1>8, <1>10, <2>1, <2>3
<1>. QED
  BY Zenon, <1>9, <1>10

(* The end of p keeps the invariant: its children go to init, and its      *)
(* parent is let go if p still held it.                                    *)
LEMMA LifeTerminate ==
  ASSUME LifeInv, NEW p \in Pid, Terminate(p)
  PROVE  LifeInv'
<1>1. /\ ProcTypeOK' /\ proc[p].state = "DYING" /\ p # init /\ proc[p].vforkStopped = FALSE
      /\ proc'[p].state \in {"FREE", "ZOMBIE"} /\ proc'[p].vforkStopped = FALSE
      /\ proc'[p].parent # p
  BY ZenonT(60), TerminateSelf
<1>2. \A q \in Pid : q # p => proc'[q].parent = NewParent(p, q)
  BY ZenonT(60), TerminateOther
<1>3. \A q \in Pid : q \in Orphans(p) <=> (q # init /\ Exists(q) /\ proc[q].parent = p)
  BY Zenon DEF Orphans, Child
<1>4. InitLives'
  <2>1. proc[init].state \in {"RUNNABLE", "SLEEPING"} /\ init \in Pid
    BY Zenon, ProcessAssumption DEF LifeInv, InitLives
  <2>2. proc'[init].state \in {"RUNNABLE", "SLEEPING"}
    BY Zenon, <1>1, <2>1, TerminateFields
  <2>3. proc'[init].parent = init
    BY Zenon, <1>1, <1>2, <1>3, <2>1 DEF NewParent, LifeInv, InitLives
  <2>4. ~proc'[init].vforked
    BY Zenon, <1>1, <2>1, TerminateFields DEF LifeInv, InitLives
  <2>. QED
    BY Zenon, <2>2, <2>3, <2>4 DEF InitLives
<1>5. ParentIsOther'
  <2>1. \A q \in Pid : q # init /\ q # p => proc'[q].parent # q
    BY Zenon, <1>2, <1>3 DEF NewParent, LifeInv, ParentIsOther
  <2>. QED
    BY Zenon, <1>1, <2>1 DEF ParentIsOther
<1>6. \A q \in Pid : q # p =>
        /\ proc'[q].state = "FREE" <=> proc[q].state = "FREE"
        /\ proc'[q].state = "ZOMBIE" <=> proc[q].state = "ZOMBIE"
  BY SMTT(60), TerminateFields
<1>7. ParentIsThere'
  <2>1. ASSUME NEW q \in Pid, Exists(q)'
        PROVE  proc'[proc'[q].parent].state \notin {"FREE", "ZOMBIE"}
    <3>1. proc'[init].state \notin {"FREE", "ZOMBIE"} /\ Exists(q)
      BY Zenon, <1>1, <1>4, <1>6, <2>1 DEF InitLives, Exists
    <3>2. CASE proc'[q].parent = init
      BY Zenon, <3>1, <3>2
    <3>3. CASE proc'[q].parent # init
      <4>1. proc'[q].parent = proc[q].parent /\ proc[q].parent # p
        <5>1. CASE q = p
          <6>1. proc'[p] = Blank \/ proc'[p] = [proc[p] EXCEPT !.state = "ZOMBIE"]
            BY ZenonT(60), TerminateSelf
          <6>2. proc'[p] # Blank
            BY Zenon, <3>3, <5>1, BlankLemma
          <6>3. proc[p] \in ProcessRecord
            BY Zenon DEF LifeInv, ProcTypeOK
          <6>4. proc'[p].parent = proc[p].parent
            BY Zenon, <6>1, <6>2, <6>3 DEF ProcessRecord
          <6>. QED
            BY Zenon, <1>1, <5>1, <6>4
        <5>2. CASE q # p
          BY Zenon, <1>2, <1>3, <3>1, <3>3, <5>2 DEF NewParent, LifeInv, InitLives
        <5>. QED
          BY Zenon, <5>1, <5>2
      <4>2. proc[q].parent \in Pid /\ proc[proc[q].parent].state \notin {"FREE", "ZOMBIE"}
        BY Zenon, <3>1, RecordLemma DEF LifeInv, ProcTypeOK, ParentIsThere
      <4>3. proc'[proc[q].parent].state \notin {"FREE", "ZOMBIE"}
        BY Zenon, <1>6, <4>1, <4>2
      <4>. QED
        BY Zenon, <4>1, <4>3
    <3>. QED
      BY Zenon, <3>2, <3>3
  <2>. QED
    BY Zenon, <2>1 DEF ParentIsThere
<1>8. \A d, q \in Pid : Holds(d, q)' <=> (Holds(d, q) /\ d # p)
  <2>1. ASSUME NEW d \in Pid, NEW q \in Pid, d # p
        PROVE  Holds(d, q)' <=> Holds(d, q)
    <3>1. /\ proc'[d].vforked = proc[d].vforked
          /\ proc'[d].state \in {"FREE", "ZOMBIE"} <=> proc[d].state \in {"FREE", "ZOMBIE"}
      BY Zenon, <1>6, <2>1, TerminateFields
    <3>2. CASE d \in Orphans(p)
      <4>1. \A x \in Pid : ~Holds(d, x)
        <5>1. ~Holds(d, p)
          BY Zenon, <1>1 DEF LifeInv, VforkHolds
        <5>. QED
          BY Zenon, <1>3, <3>2, <5>1 DEF Holds
      <4>2. ~(proc[d].state \notin {"FREE", "ZOMBIE"} /\ proc[d].vforked)
        BY Zenon, <1>3, <3>2, <4>1 DEF Holds
      <4>. QED
        BY Zenon, <3>1, <4>1, <4>2 DEF Holds
    <3>3. CASE d \notin Orphans(p)
      <4>1. proc'[d].parent = proc[d].parent
        BY Zenon, <1>2, <2>1, <3>3 DEF NewParent
      <4>. QED
        BY Zenon, <3>1, <4>1 DEF Holds
    <3>. QED
      BY Zenon, <3>2, <3>3
  <2>2. \A q \in Pid : ~Holds(p, q)'
    BY Zenon, <1>1 DEF Holds
  <2>. QED
    BY Zenon, <2>1, <2>2
<1>9. ASSUME NEW q \in Pid
      PROVE  /\ proc'[q].vforkStopped <=> (proc[q].vforkStopped /\ ~Holds(p, q))
             /\ proc'[q].vforkStopped =>
                  proc'[q].state = "RUNNABLE" /\ proc'[q].stopped /\ proc'[q].pc = "vfork"
  <2>1. CASE q = p
    BY Zenon, <1>1, <2>1
  <2>2. CASE q # p
    BY Zenon, <2>2, TerminateFields
  <2>. QED
    BY Zenon, <2>1, <2>2
<1>10. VforkHolds'
  BY Zenon, <1>8, <1>9, VforkEnds
<1>. QED
  BY Zenon, <1>1, <1>4, <1>5, <1>7, <1>10 DEF LifeInv

-----------------------------------------------------------------------------
(* Initially there is only init. *)
LEMMA LifeInitInv == ProcInit => LifeInv
<1>1. SUFFICES ASSUME ProcInit
               PROVE  LifeInv
  OBVIOUS
<1> DEFINE I == [Blank EXCEPT !.state = "RUNNABLE", !.execed = TRUE]
<1>2. /\ I \in ProcessRecord /\ I.state = "RUNNABLE" /\ I.parent = init /\ I.vforked = FALSE
      /\ I.vforkStopped = FALSE
  BY ZenonT(60), BlankLemma DEF Blank, ProcessRecord
<1>3. ProcTypeOK /\ proc[init] = I /\ \A q \in Pid : q # init => proc[q] = Blank
  BY Zenon, <1>1, <1>2, BlankLemma, ProcessAssumption DEF ProcInit, ProcTypeOK
<1>. HIDE DEF I
<1>4. \A q \in Pid : /\ proc[q].parent = init /\ proc[q].vforked = FALSE
                     /\ proc[q].vforkStopped = FALSE
  BY Zenon, <1>2, <1>3, BlankLemma
<1>5. InitLives /\ ParentIsOther /\ ParentIsThere
  BY Zenon, <1>2, <1>3, <1>4 DEF InitLives, ParentIsOther, ParentIsThere
<1>6. VforkHolds
  BY Zenon, <1>4 DEF VforkHolds, Holds
<1>. QED
  BY Zenon, <1>3, <1>5, <1>6 DEF LifeInv

(* Each step of a process, of the kernel for it, or of a sender. *)
LEMMA LifeStep ==
  ASSUME LifeInv, [ProcNext]_proc
  PROVE  LifeInv'
<1>1. CASE UNCHANGED proc
  BY SMTT(60), <1>1 DEF LifeInv, ProcTypeOK, InitLives, ParentIsOther, ParentIsThere, VforkHolds, Exists,
              Holds
<1>2. CASE ProcNext
  <2>1. PICK p \in Pid : KernelStep(p) \/ UserStep(p) \/ Event(p) \/ SendContinue(p)
    BY Zenon, <1>2 DEF ProcNext
  <2>2. CASE SelfStep(p)
    BY Zenon, <2>2, LifeSelf
  <2>3. CASE Terminate(p)
    BY Zenon, <2>3, LifeTerminate
  <2>4. CASE Wait4Reports(p)
    BY Zenon, <2>4, LifeReports
  <2>5. CASE \E c \in Pid : Fork(p, c) \/ Vfork(p, c)
    BY Zenon, <2>5, LifeBirth
  <2>6. CASE Execve(p)
    BY Zenon, <2>6, LifeExecve
  <2>7. CASE Sends(p)
    BY Zenon, <2>7, LifePost
  <2>8. CASE SendStop(p) \/ SendContinue(p)
    BY Zenon, <2>8, LifeSets
  <2>9. CASE \E c \in Pid, g \in Group : SetPgid(p, c, g)
    BY Zenon, <2>9, LifeSetPgid
  <2>. QED
    BY Zenon, <2>1, <2>2, <2>3, <2>4, <2>5, <2>6, <2>7, <2>8, <2>9
    DEF KernelStep, UserStep, Event, SelfStep, Sends
<1>. QED
  BY Zenon, <1>1, <1>2

(* Every process has a parent that can wait for it, and vfork holds        *)
(* exactly the parents it should, whatever is forked, ended, waited for    *)
(* and signalled, in any order.                                            *)
THEOREM LifeInvariance == ProcSpec => []LifeInv
<1>1. LifeInv /\ [ProcNext]_proc => LifeInv'
  BY Zenon, LifeStep
<1>. QED
  BY <1>1, LifeInitInv, PTL DEF ProcSpec

(* The part of it about parents. *)
THEOREM ParentsAreThere == ProcSpec => []ParentIsThere
<1>1. LifeInv => ParentIsThere
  BY Zenon DEF LifeInv
<1>. QED
  BY <1>1, LifeInvariance, PTL

(* The part of it about vfork. *)
THEOREM VforkIsRight == ProcSpec => []VforkHolds
<1>1. LifeInv => VforkHolds
  BY Zenon DEF LifeInv
<1>. QED
  BY <1>1, LifeInvariance, PTL

-----------------------------------------------------------------------------
(* A step that leaves the states of the dead alone. *)
LEMMA StillDead ==
  ASSUME NEW d \in Pid,
         proc[d].state \in {"DYING", "ZOMBIE"} => proc'[d].state = proc[d].state
  PROVE  DeathIsFinal(d)
<1>1. CASE proc[d].state = "DYING"
  BY Zenon, <1>1 DEF DeathIsFinal
<1>2. CASE proc[d].state = "ZOMBIE"
  BY Zenon, <1>2 DEF DeathIsFinal
<1>3. CASE proc[d].state \notin {"DYING", "ZOMBIE"}
  BY Zenon, <1>3 DEF DeathIsFinal
<1>. QED
  BY Zenon, <1>1, <1>2, <1>3

(* So do the steps of one process that is alive. *)
LEMMA StillDeadOne ==
  ASSUME LifeInv, NEW p \in Pid, NEW R, proc' = [proc EXCEPT ![p] = R],
         proc[p].state \notin {"DYING", "ZOMBIE"}, NEW d \in Pid
  PROVE  DeathIsFinal(d)
<1>1. d # p => proc'[d] = proc[d]
  BY Zenon DEF LifeInv, ProcTypeOK
<1>. QED
  BY Zenon, <1>1, StillDead

(* fork and vfork: the child takes a pid that is free. *)
LEMMA StillDeadBirth ==
  ASSUME LifeInv, NEW p \in Pid, \E c \in Pid : Fork(p, c) \/ Vfork(p, c), NEW d \in Pid
  PROVE  DeathIsFinal(d)
<1>1. PICK c \in Pid : Fork(p, c) \/ Vfork(p, c)
  BY Zenon
<1>2. proc[p].state = "RUNNABLE" /\ proc[c].state = "FREE"
  BY Zenon, <1>1 DEF Fork, Vfork, InUserMode, Selectable, Exists
<1>3. d # p /\ d # c => proc'[d] = proc[d]
  BY Zenon, <1>1 DEF Fork, Vfork, LifeInv, ProcTypeOK
<1>. QED
  BY Zenon, <1>2, <1>3, StillDead

(* The stop and the continuation of q: the dead hear of them, and stay     *)
(* what they are.                                                          *)
LEMMA StillDeadSets ==
  ASSUME LifeInv, NEW q \in Pid, SendStop(q) \/ SendContinue(q), NEW d \in Pid
  PROVE  DeathIsFinal(d)
<1>1. PICK stops \in BOOLEAN, r \in {"stopped", "continued"} : Sets(q, stops, r)
  BY Zenon DEF SendStop, SendContinue
<1>2. proc[q].state \in {"RUNNABLE", "SLEEPING"}
  BY Zenon, <1>1 DEF Sets, Signalled
<1>3. d # q => proc'[d] = Told(d, {q}, r, Parents)
  BY Zenon, <1>1 DEF Sets
<1>4. proc[d].state # "SLEEPING" => Told(d, {q}, r, Parents).state = proc[d].state
  BY SMTT(60), ToldLemma DEF LifeInv
<1>5. proc[d].state \in {"DYING", "ZOMBIE"} => d # q /\ proc[d].state # "SLEEPING"
  BY Zenon, <1>2
<1>. QED
  BY Zenon, <1>3, <1>4, <1>5, StillDead

(* The report of wait4: a zombie goes only to the parent that waits.       *)
LEMMA StillDeadReports ==
  ASSUME LifeInv, NEW p \in Pid, Wait4Reports(p), NEW d \in Pid
  PROVE  DeathIsFinal(d)
<1>1. PICK c \in Pid :
        /\ Child(p, c) /\ Matches(p, c)
        /\ proc' = [proc EXCEPT ![p] = Returned(p),
                                ![c] = IF proc[c].state = "ZOMBIE" THEN Blank
                                       ELSE [proc[c] EXCEPT !.wasStopped = ~@]]
  BY ZenonT(60) DEF Wait4Reports, Waited
<1>2. InWait4(p) /\ proc[p].state = "RUNNABLE"
  BY Zenon DEF Wait4Reports, InWait4, Selectable
<1>3. c # p /\ proc[c].parent = p
  BY Zenon, <1>1 DEF LifeInv, ParentIsOther, Child
<1> DEFINE C == [proc[c] EXCEPT !.wasStopped = ~@]
           D == IF proc[c].state = "ZOMBIE" THEN Blank ELSE C
<1>4. C.state = proc[c].state
  BY Zenon DEF LifeInv, ProcTypeOK, ProcessRecord
<1>5. proc' = [[proc EXCEPT ![p] = Returned(p)] EXCEPT ![c] = D]
  BY Zenon, <1>1, <1>3 DEF LifeInv, ProcTypeOK
<1>. HIDE DEF C, D
<1>6. /\ proc'[p] = Returned(p) /\ proc'[c] = D
      /\ \A q \in Pid : q # p /\ q # c => proc'[q] = proc[q]
  BY Zenon, <1>3, <1>5 DEF LifeInv, ProcTypeOK
<1>7. CASE d = c /\ proc[c].state = "ZOMBIE"
  <2>1. proc'[d] = Blank
    BY Zenon, <1>6, <1>7 DEF D
  <2>. QED
    BY Zenon, <1>1, <1>2, <1>3, <1>6, <1>7, <2>1 DEF DeathIsFinal
<1>8. CASE d = c /\ proc[c].state # "ZOMBIE"
  <2>1. proc'[d].state = proc[d].state
    BY Zenon, <1>4, <1>6, <1>8 DEF D
  <2>. QED
    BY Zenon, <2>1, StillDead
<1>9. CASE d # c
  BY Zenon, <1>2, <1>6, <1>9, StillDead
<1>. QED
  BY Zenon, <1>7, <1>8, <1>9

(* The end of p, for p and for the other dead, who may get a new parent.   *)
LEMMA StillDeadTerminate ==
  ASSUME LifeInv, NEW p \in Pid, Terminate(p), NEW d \in Pid
  PROVE  DeathIsFinal(d)
<1>1. CASE d = p
  <2>1. proc[p].state = "DYING"
    BY Zenon, TerminateSelf
  <2>2. proc'[p] = IF ReapedAtExit(p) THEN Blank ELSE [proc[p] EXCEPT !.state = "ZOMBIE"]
    BY ZenonT(60) DEF Terminate
  <2>. QED
    BY Zenon, <1>1, <2>1, <2>2 DEF DeathIsFinal
<1>2. CASE d # p
  <2>1. proc[d].state # "SLEEPING" => proc'[d].state = proc[d].state
    BY Zenon, <1>2, TerminateFields
  <2>. QED
    BY Zenon, <2>1, StillDead
<1>. QED
  BY Zenon, <1>1, <1>2

(* Nobody comes back from the dead, and no status of a dead process is     *)
(* lost: a zombie goes only in the wait4 of the process that is its parent *)
(* then, whoever forked it, and whatever signals and exits come between.   *)
THEOREM DeadStayDead == ProcSpec => DeathsAreFinal
<1>1. LifeInv /\ [ProcNext]_proc => [\A p \in Pid : DeathIsFinal(p)]_proc
  <2>1. SUFFICES ASSUME LifeInv, ProcNext, NEW d \in Pid
                 PROVE  DeathIsFinal(d)
    BY Zenon
  <2>2. PICK p \in Pid : KernelStep(p) \/ UserStep(p) \/ Event(p) \/ SendContinue(p)
    BY Zenon, <2>1 DEF ProcNext
  <2>3. CASE SelfStep(p)
    <3>1. PICK R : proc' = [proc EXCEPT ![p] = R]
      BY Zenon, <2>1, <2>3, SelfLemma
    <3>2. proc[p].state = "RUNNABLE"
      BY Zenon, <2>1, <2>3, SelfLemma DEF Selectable
    <3>. QED
      BY Zenon, <2>1, <3>1, <3>2, StillDeadOne
  <2>4. CASE Terminate(p)
    BY Zenon, <2>1, <2>4, StillDeadTerminate
  <2>5. CASE Wait4Reports(p)
    BY Zenon, <2>1, <2>5, StillDeadReports
  <2>6. CASE \E c \in Pid : Fork(p, c) \/ Vfork(p, c)
    BY Zenon, <2>1, <2>6, StillDeadBirth
  <2>7. CASE Execve(p)
    <3>1. proc'[d].state = proc[d].state
      BY Zenon, <2>1, <2>7, ExecveLemma
    <3>. QED
      BY Zenon, <3>1, StillDead
  <2>8. CASE Sends(p)
    <3>1. PICK R : proc' = [proc EXCEPT ![p] = R]
      BY Zenon, <2>8, SendsLemma
    <3>2. proc[p].state \in {"RUNNABLE", "SLEEPING"}
      BY Zenon, <2>8, SendsLemma
    <3>3. proc[p].state \notin {"DYING", "ZOMBIE"}
      BY Zenon, <3>2
    <3>. QED
      BY Zenon, <2>1, <3>1, <3>3, StillDeadOne
  <2>9. CASE SendStop(p) \/ SendContinue(p)
    BY Zenon, <2>1, <2>9, StillDeadSets
  <2>10. CASE \E c \in Pid, g \in Group : SetPgid(p, c, g)
    <3>1. PICK c \in Pid, g \in Group : SetPgid(p, c, g)
      BY Zenon, <2>10
    <3>2. PICK R : proc' = [proc EXCEPT ![c] = R] /\ R.state = proc[c].state
      BY Zenon, <2>1, <3>1, SetPgidLemma
    <3>3. proc'[d].state = proc[d].state
      BY Zenon, <2>1, <3>2 DEF LifeInv, ProcTypeOK
    <3>. QED
      BY Zenon, <3>3, StillDead
  <2>. QED
    BY Zenon, <2>2, <2>3, <2>4, <2>5, <2>6, <2>7, <2>8, <2>9, <2>10
    DEF KernelStep, UserStep, Event, SelfStep, Sends
<1>. QED
  BY <1>1, LifeInvariance, PTL DEF ProcSpec, DeathsAreFinal

-----------------------------------------------------------------------------
(* The target of a wait4 is one of four things. *)
LEMMA TargetLemma ==
  ASSUME NEW w \in WaitTarget
  PROVE  /\ w[1] \in {"pid", "group", "any", "own group"}
         /\ w[1] = "pid" => w = <<"pid", w[2]>>
<1>1. CASE \E c \in Pid : w = <<"pid", c>>
  BY <1>1
<1>2. CASE \E g \in Pid : w = <<"group", g>>
  BY <1>2
<1>3. CASE w = <<"any">>
  BY Zenon, <1>3
<1>4. CASE w = <<"own group">>
  BY ZenonT(60), <1>4
<1>. QED
  BY ZenonT(60), <1>1, <1>2, <1>3, <1>4 DEF WaitTarget

(* What a step that leaves q asleep may do to c: c becomes no dead or      *)
(* stopped child that q waits for, unless c is dead and is moved to the    *)
(* group q waits for, and c does not go when q waits for it.               *)
Spared(q, c) ==
  /\ Child(q, c)' /\ Matches(q, c)' /\ proc'[c].state = "ZOMBIE" =>
       \/ proc'[c].moved /\ proc[q].req.who[1] = "group"
       \/ /\ Child(q, c) /\ Matches(q, c) /\ proc[c].state = "ZOMBIE"
          /\ proc[c].moved => proc'[c].moved
  /\ Child(q, c) /\ Matches(q, c) => Child(q, c)'
  /\ q # init /\ proc[q].req.who[1] \in {"pid", "any"}
       /\ Child(q, c)' /\ Matches(q, c)' /\ NewlyStopped(q, c)' =>
       \/ proc'[c].vforkStopped
       \/ Child(q, c) /\ NewlyStopped(q, c) /\ ~proc[c].vforkStopped

(* A child that lives on with the same parent, and is not newly stopped. *)
LEMMA SparedLemma ==
  ASSUME ProcTypeOK, NEW q \in Pid, NEW c \in Pid,
         proc[q].req.who[1] # "own group", proc'[q].req = proc[q].req,
         proc'[c].parent = proc[c].parent,
         proc'[c].state = "FREE" <=> proc[c].state = "FREE",
         proc'[c].state = "ZOMBIE" =>
           /\ proc[c].state = "ZOMBIE" /\ proc'[c].pgid = proc[c].pgid
           /\ proc'[c].moved = proc[c].moved,
         proc'[c].stopped /\ ~proc'[c].wasStopped =>
           \/ proc'[c].vforkStopped
           \/ proc[c].stopped /\ ~proc[c].wasStopped /\ ~proc[c].vforkStopped
  PROVE  Spared(q, c)
<1>1. Child(q, c)' <=> Child(q, c)
  BY ZenonT(60) DEF Child, Exists
<1>2. proc[q].req.who[1] \in {"pid", "group", "any"}
  BY ZenonT(60), TargetLemma DEF ProcTypeOK, ProcessRecord, WaitRequest
<1>3. proc'[c].state = "ZOMBIE" => (Matches(q, c)' <=> Matches(q, c))
  BY ZenonT(60), <1>2 DEF Matches
<1>4. NewlyStopped(q, c)' =>
        proc'[c].vforkStopped \/ (NewlyStopped(q, c) /\ ~proc[c].vforkStopped)
  BY ZenonT(60) DEF NewlyStopped
<1>. QED
  BY ZenonT(60), <1>1, <1>3, <1>4 DEF Spared

(* Then q may sleep on. *)
LEMMA WaitFrame ==
  ASSUME ProcTypeOK, NEW q \in Pid, proc[q].req.who[1] # "own group",
         ReportsNothing(q), proc'[q].req = proc[q].req, \A c \in Pid : Spared(q, c)
  PROVE  ReportsNothing(q)'
<1>1. \A c \in Waited(q)' : proc'[c].state = "ZOMBIE" =>
        proc'[c].moved /\ proc'[q].req.who[1] = "group"
  BY ZenonT(60) DEF Spared, ReportsNothing, Waited
<1>2. ASSUME proc[q].req.who[1] \in {"pid", "any"}
      PROVE  /\ Waited(q)' # {}
             /\ q # init => \A c \in Waited(q)' :
                              NewlyStopped(q, c)' => proc'[c].vforkStopped
  <2>1. \A c \in Pid : Matches(q, c)' <=> Matches(q, c)
    BY ZenonT(60), <1>2 DEF Matches
  <2>2. PICK c \in Pid : Child(q, c) /\ Matches(q, c)
    BY ZenonT(60), <1>2 DEF ReportsNothing, Waited
  <2>3. Child(q, c)' /\ Matches(q, c)'
    BY ZenonT(60), <2>1, <2>2 DEF Spared
  <2>4. Waited(q)' # {}
    BY ZenonT(60), <2>3 DEF Waited
  <2>5. ASSUME q # init, NEW d \in Waited(q)', NewlyStopped(q, d)', ~proc'[d].vforkStopped
        PROVE  FALSE
    <3>1. d \in Pid /\ Child(q, d)' /\ Matches(q, d)'
      BY ZenonT(60), <2>5 DEF Waited
    <3>2. Child(q, d) /\ NewlyStopped(q, d) /\ ~proc[d].vforkStopped
      BY ZenonT(60), <1>2, <2>5, <3>1 DEF Spared
    <3>. QED
      BY ZenonT(60), <1>2, <2>1, <2>5, <3>1, <3>2 DEF ReportsNothing, Waited
  <2>. QED
    BY ZenonT(60), <2>4, <2>5
<1>. QED
  BY ZenonT(60), <1>1, <1>2 DEF ReportsNothing

(* A step of one running process that only concerns itself: its parent may *)
(* sleep on, and it goes to sleep only if it has nothing to report.        *)
LEMMA WaitSelf ==
  ASSUME LifeInv, WaitInv, NoOwnGroup, NEW p \in Pid, SelfStep(p)
  PROVE  WaitInv'
<1>1. PICK R : proc' = [proc EXCEPT ![p] = R] /\ SelfUpdate(p, R)
  BY Zenon, SelfLemma
<1>2. /\ ProcTypeOK /\ proc'[p] = R /\ \A q \in Pid : q # p => proc'[q] = proc[q]
      /\ proc[p].state = "RUNNABLE"
  BY ZenonT(60), <1>1, SelfLemma, SelectableLemma DEF LifeInv, ProcTypeOK
<1>3. \A q \in Pid : proc'[q].req.who[1] # "own group"
  <2>1. R.req \in {proc[p].req, NoRequest} \cup Request[p]
    BY Zenon, <1>1 DEF SelfUpdate
  <2>2. R.req.who[1] # "own group"
    BY ZenonT(60), <2>1, BlankLemma DEF WaitInv, NoOwnGroup
  <2>. QED
    BY ZenonT(60), <1>2, <2>2 DEF WaitInv
<1>4. ASSUME NEW q \in Pid, proc'[q].state = "SLEEPING"
      PROVE  ReportsNothing(q)'
  <2>1. CASE q = p
    <3>1. Wait4Sleeps(p)
      BY Zenon, <1>1, <1>2, <1>4, <2>1 DEF SelfUpdate
    <3>2. /\ proc'[p].req = proc[p].req /\ proc'[p].parent = proc[p].parent
          /\ proc[p].parent = p => p = init
      BY SMTT(60), <1>2, <3>1 DEF Wait4Sleeps, ProcTypeOK, ProcessRecord, LifeInv, ParentIsOther
    <3>3. \A c \in Pid : Child(p, c) => c # p
      BY Zenon, <3>2 DEF Child
    <3>4. \A c \in Pid : Child(p, c)' => c # p
      BY Zenon, <3>2 DEF Child
    <3>5. \A c \in Pid : c # p => (Child(p, c)' <=> Child(p, c))
      BY Zenon, <1>2 DEF Child, Exists
    <3>6. \A c \in Pid : c # p => (Matches(p, c)' <=> Matches(p, c))
      <4>1. proc[p].req.who[1] \in {"pid", "group", "any"}
        BY ZenonT(60), <1>2, TargetLemma DEF ProcTypeOK, ProcessRecord, WaitRequest, WaitInv
      <4>. QED
        BY Zenon, <1>2, <3>2, <4>1 DEF Matches
    <3>7. Waited(p)' = Waited(p) /\ \A c \in Waited(p) : c \in Pid /\ c # p
      BY Zenon, <3>3, <3>4, <3>5, <3>6 DEF Waited
    <3>8. Waited(p) # {} /\ \A c \in Waited(p) : ~Changed(p, c)
      BY Zenon, <3>1 DEF Wait4Sleeps
    <3>9. \A c \in Waited(p) : proc'[c].state # "ZOMBIE" /\ ~NewlyStopped(p, c)'
      BY Zenon, <1>2, <3>2, <3>7, <3>8 DEF Changed, NewlyStopped
    <3>. QED
      BY Zenon, <2>1, <3>7, <3>8, <3>9 DEF ReportsNothing
  <2>2. CASE q # p
    <3>1. proc'[q] = proc[q] /\ proc[q].req.who[1] # "own group" /\ ReportsNothing(q)
      BY ZenonT(60), <1>2, <1>4, <2>2 DEF WaitInv, NothingToReport
    <3>2. ASSUME NEW c \in Pid, c # p
          PROVE  Spared(q, c)
      <4>1. proc'[c] = proc[c]
        BY Zenon, <1>2, <3>2
      <4>2. proc[c].vforkStopped \in BOOLEAN
        BY Zenon, RecordLemma, <1>2 DEF ProcTypeOK
      <4>. QED
        BY ZenonT(60), <1>2, <3>1, <4>1, <4>2, SparedLemma
    <3>3. Spared(q, p)
      BY ZenonT(60), <1>1, <1>2, <3>1, SparedLemma DEF SelfUpdate
    <3>. QED
      BY ZenonT(60), <1>2, <3>1, <3>2, <3>3, WaitFrame
  <2>. QED
    BY Zenon, <2>1, <2>2
<1>. QED
  BY ZenonT(60), <1>3, <1>4 DEF WaitInv, NothingToReport

(* A signal made pending ends the sleep of its target, and stops nobody. *)
LEMMA WaitPost ==
  ASSUME LifeInv, WaitInv, NEW t \in Pid, Sends(t)
  PROVE  WaitInv'
<1>1. PICK s \in {"SIGKILL", "deadly", "caught"} :
        proc' = [proc EXCEPT ![t] = Post(proc[t], s)]
  BY Zenon, SendsLemma
<1>2. /\ ProcTypeOK /\ proc[t] \in ProcessRecord /\ proc'[t] = Post(proc[t], s)
      /\ \A q \in Pid : q # t => proc'[q] = proc[q]
      /\ proc[t].state \in {"RUNNABLE", "SLEEPING"}
  BY Zenon, <1>1, SendsLemma DEF LifeInv, ProcTypeOK
<1>3. /\ proc'[t].parent = proc[t].parent /\ proc'[t].req = proc[t].req
      /\ proc'[t].state \in {"RUNNABLE", "SLEEPING"}
      /\ proc'[t].wasStopped = proc[t].wasStopped
      /\ proc'[t].vforkStopped = proc[t].vforkStopped
      /\ proc'[t].stopped => proc[t].stopped
      /\ ~proc[t].vforkStopped => proc'[t].state # "SLEEPING"
      /\ proc[t].vforkStopped => proc'[t].state = proc[t].state
  BY SMTT(60), <1>1, <1>2, PostLemma
<1>4. proc'[t].state # "SLEEPING"
  BY Zenon, <1>3 DEF LifeInv, VforkHolds
<1>5. ASSUME NEW q \in Pid, proc'[q].state = "SLEEPING"
      PROVE  ReportsNothing(q)'
  <2>1. /\ proc'[q] = proc[q] /\ proc[q].req.who[1] # "own group" /\ ReportsNothing(q)
    BY ZenonT(60), <1>2, <1>4, <1>5 DEF WaitInv, NothingToReport
  <2>2. ASSUME NEW c \in Pid, c # t
        PROVE  Spared(q, c)
    <3>1. proc'[c] = proc[c]
      BY Zenon, <1>2, <2>2
    <3>2. proc[c].vforkStopped \in BOOLEAN
      BY Zenon, RecordLemma, <1>2 DEF ProcTypeOK
    <3>. QED
      BY ZenonT(60), <1>2, <2>1, <3>1, <3>2, SparedLemma
  <2>3. Spared(q, t)
    BY ZenonT(60), <1>2, <1>3, <2>1, SparedLemma
  <2>. QED
    BY ZenonT(60), <1>2, <2>1, <2>2, <2>3, WaitFrame
<1>6. \A q \in Pid : proc'[q].req.who[1] # "own group"
  BY ZenonT(60), <1>2, <1>3 DEF WaitInv
<1>. QED
  BY ZenonT(60), <1>5, <1>6 DEF WaitInv, NothingToReport

(* setpgid kills and stops nobody; a dead child of q that it moves into    *)
(* the group q waits for is marked.                                        *)
LEMMA WaitSetPgid ==
  ASSUME LifeInv, WaitInv, NEW p \in Pid, NEW c \in Pid, NEW g \in Group, SetPgid(p, c, g)
  PROVE  WaitInv'
<1>1. PICK R \in ProcessRecord :
        /\ proc' = [proc EXCEPT ![c] = R]
        /\ R.state = proc[c].state /\ R.parent = proc[c].parent
        /\ R.vforkStopped = proc[c].vforkStopped
        /\ R.stopped = proc[c].stopped /\ R.wasStopped = proc[c].wasStopped
        /\ R.req = proc[c].req
        /\ R.state = "ZOMBIE" => R.moved
  BY Zenon, SetPgidLemma
<1>2. ProcTypeOK /\ proc'[c] = R /\ \A q \in Pid : q # c => proc'[q] = proc[q]
  BY Zenon, <1>1 DEF LifeInv, ProcTypeOK
<1>3. ASSUME NEW q \in Pid, proc'[q].state = "SLEEPING"
      PROVE  ReportsNothing(q)'
  <2>1. /\ proc'[q].req = proc[q].req /\ proc[q].req.who[1] # "own group"
        /\ ReportsNothing(q)
    BY ZenonT(60), <1>1, <1>2, <1>3 DEF WaitInv, NothingToReport
  <2>2. ASSUME NEW d \in Pid, d # c
        PROVE  Spared(q, d)
    <3>1. proc'[d] = proc[d]
      BY Zenon, <1>2, <2>2
    <3>2. proc[d].vforkStopped \in BOOLEAN
      BY Zenon, RecordLemma, <1>2 DEF ProcTypeOK
    <3>. QED
      BY ZenonT(60), <1>2, <2>1, <3>1, <3>2, SparedLemma
  <2>3. Spared(q, c)
    <3>1. Child(q, c)' <=> Child(q, c)
      BY Zenon, <1>1, <1>2 DEF Child, Exists
    <3>2. proc[q].req.who[1] \in {"pid", "group", "any"}
      BY ZenonT(60), <1>2, <2>1, TargetLemma DEF ProcTypeOK, ProcessRecord, WaitRequest
    <3>3. proc[q].req.who[1] # "group" => (Matches(q, c)' <=> Matches(q, c))
      BY ZenonT(60), <2>1, <3>2 DEF Matches
    <3>4. NewlyStopped(q, c)' <=> NewlyStopped(q, c)
      BY Zenon, <1>1, <1>2, <2>1 DEF NewlyStopped
    <3>5. proc'[c].vforkStopped = proc[c].vforkStopped /\ proc[c].vforkStopped \in BOOLEAN
      BY Zenon, RecordLemma, <1>1, <1>2 DEF ProcTypeOK
    <3>6. proc'[c].state = proc[c].state /\ (proc'[c].state = "ZOMBIE" => proc'[c].moved)
      BY Zenon, <1>1, <1>2
    <3>. QED
      BY ZenonT(60), <3>1, <3>3, <3>4, <3>5, <3>6 DEF Spared
  <2>. QED
    BY ZenonT(60), <1>2, <2>1, <2>2, <2>3, WaitFrame
<1>4. \A q \in Pid : proc'[q].req.who[1] # "own group"
  <2>1. \A q \in Pid : proc'[q].req = proc[q].req
    BY Zenon, <1>1, <1>2
  <2>. QED
    BY ZenonT(60), <2>1 DEF WaitInv
<1>. QED
  BY ZenonT(60), <1>3, <1>4 DEF WaitInv, NothingToReport

(* A stop or a continuation: whoever asked to hear of it is woken. *)
LEMMA WaitSets ==
  ASSUME LifeInv, WaitInv, NEW t \in Pid, SendStop(t) \/ SendContinue(t)
  PROVE  WaitInv'
<1>1. PICK stops \in BOOLEAN, r \in {"stopped", "continued"} :
        Sets(t, stops, r) /\ (stops => r = "stopped")
  BY ZenonT(60) DEF SendStop, SendContinue
<1>2. /\ t # init /\ proc[t].state \in {"RUNNABLE", "SLEEPING"}
      /\ proc' = [s \in Pid |-> IF s = t THEN [proc[t] EXCEPT !.stopped = stops]
                                ELSE Told(s, {t}, r, Parents)]
  BY Zenon, <1>1 DEF Sets, Signalled
<1>3. ProcTypeOK /\ proc[t] \in ProcessRecord
  BY Zenon DEF LifeInv, ProcTypeOK
<1>4. /\ proc'[t].parent = proc[t].parent /\ proc'[t].req = proc[t].req
      /\ proc'[t].state = proc[t].state /\ proc'[t].stopped = stops
  BY Zenon, <1>2, <1>3 DEF ProcessRecord
<1>5. ASSUME NEW s \in Pid, s # t
      PROVE  /\ proc'[s].parent = proc[s].parent /\ proc'[s].pgid = proc[s].pgid
             /\ proc'[s].req = proc[s].req /\ proc'[s].moved = proc[s].moved
             /\ proc'[s].state \in {proc[s].state, "RUNNABLE"}
             /\ proc[s].state # "SLEEPING" => proc'[s].state = proc[s].state
             /\ proc'[s].wasStopped = proc[s].wasStopped
             /\ proc'[s].vforkStopped = proc[s].vforkStopped
             /\ proc'[s].stopped => proc[s].stopped
             /\ proc'[s].state = "SLEEPING" => s \notin WokenBy({t}, r, Parents)
  BY SMTT(60), <1>2, <1>3, <1>5, ToldLemma
<1>6. ASSUME NEW q \in Pid, proc'[q].state = "SLEEPING"
      PROVE  ReportsNothing(q)'
  <2>1. /\ proc[q].state = "SLEEPING" /\ proc'[q].req = proc[q].req
        /\ proc[q].req.who[1] # "own group" /\ ReportsNothing(q)
    BY ZenonT(60), <1>4, <1>5, <1>6 DEF WaitInv, NothingToReport
  <2>2. ASSUME NEW c \in Pid, c # t
        PROVE  Spared(q, c)
    <3>1. proc[c].vforkStopped \in BOOLEAN
      BY Zenon, RecordLemma, <1>3 DEF ProcTypeOK
    <3>2. /\ proc'[c].parent = proc[c].parent
          /\ proc'[c].state = "FREE" <=> proc[c].state = "FREE"
          /\ proc'[c].state = "ZOMBIE" =>
               /\ proc[c].state = "ZOMBIE" /\ proc'[c].pgid = proc[c].pgid
               /\ proc'[c].moved = proc[c].moved
      BY Zenon, <1>5, <2>2
    <3>3. proc'[c].stopped /\ ~proc'[c].wasStopped =>
            \/ proc'[c].vforkStopped
            \/ proc[c].stopped /\ ~proc[c].wasStopped /\ ~proc[c].vforkStopped
      BY Zenon, <1>5, <2>2, <3>1
    <3>. QED
      BY ZenonT(60), <1>3, <2>1, <3>2, <3>3, SparedLemma
  <2>3. Spared(q, t)
    <3>1. Child(q, t)' <=> Child(q, t)
      BY Zenon, <1>4 DEF Child, Exists
    <3>2. ASSUME Child(q, t)', Matches(q, t)', NewlyStopped(q, t)',
                 proc[q].req.who[1] \in {"pid", "any"}
          PROVE  FALSE
      <4>1. q # t
        BY Zenon, <1>2, <3>1, <3>2 DEF Child, LifeInv, ParentIsOther
      <4>2. r = "stopped" /\ IsGoodReason(q, r)
        BY ZenonT(60), <1>1, <1>4, <2>1, <3>2 DEF NewlyStopped, IsGoodReason
      <4>3. \/ proc[q].req.who = <<"pid", t>>
            \/ Parents[t] = q /\ WaitsOnMultiple(q) /\ Matches(q, t)
        <5>1. CASE proc[q].req.who[1] = "pid"
          <6>1. proc[q].req.who \in WaitTarget
            BY Zenon, <1>3 DEF ProcTypeOK, ProcessRecord, WaitRequest
          <6>2. t = proc[q].req.who[2]
            BY Zenon, <2>1, <3>2, <5>1 DEF Matches
          <6>. QED
            BY ZenonT(60), <5>1, <6>1, <6>2, TargetLemma
        <5>2. CASE proc[q].req.who[1] = "any"
          BY ZenonT(60), <3>1, <3>2, <5>2 DEF Matches, WaitsOnMultiple, Parents, Child
        <5>. QED
          BY Zenon, <3>2, <5>1, <5>2
      <4>4. q \in WokenBy({t}, r, Parents)
        BY ZenonT(60), <2>1, <4>2, <4>3 DEF WokenBy
      <4>. QED
        BY Zenon, <1>5, <1>6, <4>1, <4>4
    <3>. QED
      BY Zenon, <1>2, <1>4, <3>1, <3>2 DEF Spared
  <2>. QED
    BY ZenonT(60), <1>3, <2>1, <2>2, <2>3, WaitFrame
<1>7. \A q \in Pid : proc'[q].req.who[1] # "own group"
  <2>1. \A q \in Pid : proc'[q].req = proc[q].req
    BY Zenon, <1>4, <1>5
  <2>. QED
    BY ZenonT(60), <2>1 DEF WaitInv
<1>. QED
  BY ZenonT(60), <1>6, <1>7 DEF WaitInv, NothingToReport

(* A birth: the parent is awake, and its own parent hears nothing. *)
LEMMA WaitBirth ==
  ASSUME LifeInv, WaitInv, NEW p \in Pid, NEW k \in Pid, Fork(p, k) \/ Vfork(p, k)
  PROVE  WaitInv'
<1>1. /\ Selectable(p) /\ ~Exists(k) /\ k # p
  BY ZenonT(60) DEF Fork, Vfork, InUserMode, Selectable, Exists
<1>2. /\ ProcTypeOK /\ proc[p] \in ProcessRecord /\ proc[p].state = "RUNNABLE"
      /\ proc[p].stopped = FALSE
  BY ZenonT(60), <1>1, SelectableLemma, RecordLemma DEF LifeInv
<1>3. PICK v \in BOOLEAN : proc'[k] = Forked(p, v)
  BY ZenonT(60), <1>1, <1>2 DEF Fork, Vfork, ProcTypeOK
<1>4. \A q \in Pid : q # k /\ q # p => proc'[q] = proc[q]
  BY ZenonT(60), <1>1, <1>2 DEF Fork, Vfork, ProcTypeOK
<1>5. /\ proc'[p].parent = proc[p].parent /\ proc'[p].state = "RUNNABLE"
      /\ proc'[p].req = proc[p].req
      /\ proc'[p].stopped => proc'[p].vforkStopped
  <2>1. CASE Fork(p, k)
    <3>1. proc'[p] = proc[p]
      BY ZenonT(60), <1>1, <1>2, <2>1 DEF Fork, ProcTypeOK
    <3>. QED
      BY Zenon, <1>2, <3>1
  <2>2. CASE Vfork(p, k)
    <3>1. proc'[p] = [proc[p] EXCEPT !.stopped = TRUE, !.vforkStopped = TRUE, !.pc = "vfork"]
      BY Zenon, <1>1, <1>2, <2>2 DEF Vfork, ProcTypeOK
    <3>. QED
      BY Zenon, <1>2, <3>1 DEF ProcessRecord
  <2>. QED
    BY Zenon, <2>1, <2>2
<1>6. /\ proc'[k].parent = p /\ proc'[k].state = "RUNNABLE"
      /\ proc'[k].req = proc[p].req
  BY Zenon, <1>2, <1>3 DEF Forked, ProcessRecord
<1>7. ASSUME NEW q \in Pid, proc'[q].state = "SLEEPING"
      PROVE  ReportsNothing(q)'
  <2>1. /\ q # p /\ q # k /\ proc'[q] = proc[q] /\ proc[q].req.who[1] # "own group"
        /\ ReportsNothing(q)
    BY ZenonT(60), <1>4, <1>5, <1>6, <1>7 DEF WaitInv, NothingToReport
  <2>2. ASSUME NEW c \in Pid, c # p, c # k
        PROVE  Spared(q, c)
    <3>1. proc'[c] = proc[c]
      BY Zenon, <1>4, <2>2
    <3>2. proc[c].vforkStopped \in BOOLEAN
      BY Zenon, RecordLemma, <1>2 DEF ProcTypeOK
    <3>. QED
      BY ZenonT(60), <1>2, <2>1, <3>1, <3>2, SparedLemma
  <2>3. Spared(q, p)
    BY ZenonT(60), <1>2, <1>5, <2>1, SparedLemma
  <2>4. Spared(q, k)
    <3>1. ~Child(q, k) /\ ~Child(q, k)'
      BY ZenonT(60), <1>1, <1>6, <2>1 DEF Child
    <3>. QED
      BY Zenon, <3>1 DEF Spared
  <2>. QED
    BY ZenonT(60), <1>2, <2>1, <2>2, <2>3, <2>4, WaitFrame
<1>8. \A q \in Pid : proc'[q].req.who[1] # "own group"
  <2>1. \A q \in Pid : q # k => proc'[q].req = proc[q].req
    BY Zenon, <1>4, <1>5
  <2>. QED
    BY ZenonT(60), <1>6, <2>1 DEF WaitInv
<1>. QED
  BY ZenonT(60), <1>7, <1>8 DEF WaitInv, NothingToReport

(* A report: the child that is removed, or whose stop is noted, has        *)
(* another parent than those who sleep.                                    *)
LEMMA WaitReports ==
  ASSUME LifeInv, WaitInv, NEW p \in Pid, Wait4Reports(p)
  PROVE  WaitInv'
<1>1. PICK k \in Pid :
        /\ Child(p, k)
        /\ proc' = [proc EXCEPT ![p] = Returned(p),
                                ![k] = IF proc[k].state = "ZOMBIE" THEN Blank
                                       ELSE [proc[k] EXCEPT !.wasStopped = ~@]]
  BY ZenonT(60) DEF Wait4Reports, Waited
<1>2. Selectable(p) /\ k # p /\ ProcTypeOK
  BY Zenon, <1>1 DEF Wait4Reports, InWait4, Child, LifeInv, ParentIsOther
<1>3. /\ proc[p] \in ProcessRecord /\ proc[p].state = "RUNNABLE"
      /\ proc[p].stopped = FALSE /\ proc[k] \in ProcessRecord
  BY ZenonT(60), <1>2, SelectableLemma, RecordLemma DEF ProcTypeOK
<1>4. /\ proc'[p] = Returned(p) /\ \A q \in Pid : q # k /\ q # p => proc'[q] = proc[q]
      /\ proc'[k] = IF proc[k].state = "ZOMBIE" THEN Blank
                    ELSE [proc[k] EXCEPT !.wasStopped = ~@]
  BY Zenon, <1>1, <1>2 DEF ProcTypeOK
<1>5. /\ proc'[p].parent = proc[p].parent /\ proc'[p].state = "RUNNABLE"
      /\ proc'[p].req = NoRequest /\ proc'[p].stopped = FALSE
  BY Zenon, <1>3, <1>4 DEF Returned, ProcessRecord
<1>6. /\ proc'[k].state = "FREE" \/ proc'[k].parent = p
      /\ proc'[k].req \in {NoRequest, proc[k].req}
      /\ proc'[k].state = "SLEEPING" =>
           proc[k].state = "SLEEPING" /\ proc'[k].req = proc[k].req
  <2>1. CASE proc[k].state = "ZOMBIE"
    BY Zenon, <1>4, <2>1, BlankLemma
  <2>2. CASE proc[k].state # "ZOMBIE"
    <3>1. proc'[k] = [proc[k] EXCEPT !.wasStopped = ~@] /\ proc[k].parent = p
      BY Zenon, <1>1, <1>4, <2>2 DEF Child
    <3>2. proc'[k].parent = p /\ proc'[k].req = proc[k].req /\ proc'[k].state = proc[k].state
      BY Zenon, <1>3, <3>1 DEF ProcessRecord
    <3>. QED
      BY Zenon, <3>2
  <2>. QED
    BY Zenon, <2>1, <2>2
<1>7. ASSUME NEW q \in Pid, proc'[q].state = "SLEEPING"
      PROVE  ReportsNothing(q)'
  <2>1. /\ q # p /\ proc'[q].req = proc[q].req /\ proc[q].state = "SLEEPING"
    BY ZenonT(60), <1>4, <1>5, <1>6, <1>7
  <2>2. proc[q].req.who[1] # "own group" /\ ReportsNothing(q)
    BY ZenonT(60), <2>1 DEF WaitInv, NothingToReport
  <2>3. ASSUME NEW c \in Pid, c # p, c # k
        PROVE  Spared(q, c)
    <3>1. proc'[c] = proc[c]
      BY Zenon, <1>4, <2>3
    <3>2. proc[c].vforkStopped \in BOOLEAN
      BY Zenon, RecordLemma, <1>2 DEF ProcTypeOK
    <3>. QED
      BY ZenonT(60), <1>2, <2>1, <2>2, <3>1, <3>2, SparedLemma
  <2>4. Spared(q, p)
    BY ZenonT(60), <1>2, <1>3, <1>5, <2>1, <2>2, SparedLemma
  <2>5. Spared(q, k)
    <3>1. ~Child(q, k) /\ ~Child(q, k)'
      BY Zenon, <1>1, <1>6, <2>1 DEF Child, Exists
    <3>. QED
      BY Zenon, <3>1 DEF Spared
  <2>. QED
    BY ZenonT(60), <1>2, <2>1, <2>2, <2>3, <2>4, <2>5, WaitFrame
<1>8. \A q \in Pid : proc'[q].req.who[1] # "own group"
  <2>1. \A q \in Pid : proc'[q].req \in {proc[q].req, NoRequest}
    BY ZenonT(60), <1>4, <1>5, <1>6
  <2>. QED
    BY ZenonT(60), <2>1, BlankLemma DEF WaitInv
<1>. QED
  BY ZenonT(60), <1>7, <1>8 DEF WaitInv, NothingToReport

(* execve stops nobody, and lets go a parent that does not sleep. *)
LEMMA WaitExecve ==
  ASSUME LifeInv, WaitInv, NEW p \in Pid, Execve(p)
  PROVE  WaitInv'
<1>1. ProcTypeOK /\ proc'[p].stopped = FALSE
  BY ZenonT(60), ExecveLemma DEF LifeInv
<1>2. \A q \in Pid : /\ proc'[q].state = proc[q].state /\ proc'[q].parent = proc[q].parent
                     /\ proc'[q].req = proc[q].req /\ proc'[q].pgid = proc[q].pgid
                     /\ proc'[q].moved = proc[q].moved
  BY ZenonT(60), ExecveLemma
<1>3. \A q \in Pid : q # p => proc'[q].stopped = FALSE \/ proc'[q] = proc[q]
  BY ZenonT(60), ExecveLemma
<1>4. ASSUME NEW q \in Pid, proc'[q].state = "SLEEPING"
      PROVE  ReportsNothing(q)'
  <2>1. /\ proc'[q].req = proc[q].req /\ proc[q].req.who[1] # "own group"
        /\ ReportsNothing(q)
    BY ZenonT(60), <1>2, <1>4 DEF WaitInv, NothingToReport
  <2>2. ASSUME NEW c \in Pid
        PROVE  Spared(q, c)
    <3>1. proc[c].vforkStopped \in BOOLEAN
      BY Zenon, <1>1, RecordLemma DEF ProcTypeOK
    <3>2. proc'[c].stopped = FALSE \/ proc'[c] = proc[c]
      BY Zenon, <1>1, <1>3
    <3>. QED
      BY ZenonT(60), <1>1, <1>2, <2>1, <3>1, <3>2, SparedLemma
  <2>. QED
    BY ZenonT(60), <1>1, <2>1, <2>2, WaitFrame
<1>5. \A q \in Pid : proc'[q].req.who[1] # "own group"
  BY ZenonT(60), <1>2 DEF WaitInv
<1>. QED
  BY ZenonT(60), <1>4, <1>5 DEF WaitInv, NothingToReport

(* An end: whoever waits for p, or adopts a dead child it waits for, is    *)
(* woken.                                                                  *)
LEMMA WaitTerminate ==
  ASSUME LifeInv, WaitInv, NEW p \in Pid, Terminate(p)
  PROVE  WaitInv'
<1> DEFINE par == [c \in Pid |-> NewParent(p, c)]
<1>1. /\ ProcTypeOK /\ proc[p].state = "DYING" /\ p # init /\ proc[p] \in ProcessRecord
      /\ proc'[p].state \in {"FREE", "ZOMBIE"}
      /\ proc'[p] = Blank \/ proc'[p] = [proc[p] EXCEPT !.state = "ZOMBIE"]
  BY ZenonT(60), TerminateSelf DEF LifeInv, ProcTypeOK
<1>2. \A q \in Pid : q # p => proc'[q].parent = NewParent(p, q)
  BY ZenonT(60), TerminateOther
<1>3. \A q \in Pid : q \in Orphans(p) <=> (q # init /\ Exists(q) /\ proc[q].parent = p)
  BY Zenon DEF Orphans, Child
<1>4. p \notin Orphans(p)
  BY Zenon, <1>1, <1>3 DEF LifeInv, ParentIsOther
<1>5. /\ proc'[p].state = "ZOMBIE" =>
           proc'[p].parent = proc[p].parent /\ proc'[p].pgid = proc[p].pgid
      /\ proc'[p].req \in {NoRequest, proc[p].req}
  <2>1. CASE proc'[p] = Blank
    BY Zenon, <2>1, BlankLemma
  <2>2. CASE proc'[p] = [proc[p] EXCEPT !.state = "ZOMBIE"]
    BY Zenon, <1>1, <2>2 DEF ProcessRecord
  <2>. QED
    BY Zenon, <1>1, <2>1, <2>2
<1>6. ASSUME NEW q \in Pid, proc'[q].state = "SLEEPING"
      PROVE  ReportsNothing(q)'
  <2>1. q # p
    BY Zenon, <1>1, <1>6
  <2>2. /\ proc[q].state = "SLEEPING" /\ proc'[q].req = proc[q].req
    BY Zenon, <1>6, <2>1, TerminateFields
  <2>3. proc[q].req.who[1] # "own group" /\ ReportsNothing(q)
    BY ZenonT(60), <2>2 DEF WaitInv, NothingToReport
  <2>4. proc[q].req.who \in WaitTarget
    BY Zenon, <1>1 DEF ProcTypeOK, ProcessRecord, WaitRequest
  <2>5. q \notin WokenBy(Dead(p), "died", par)
    <3>1. proc'[q].state = Heard(p, q).state
      BY ZenonT(60), <2>1, TerminateOther
    <3>. QED
      BY SMTT(60), <1>1, <1>6, <3>1, ToldLemma DEF Heard
  <2>6. ASSUME NEW c \in Dead(p), c \in Pid, par[c] = q
        PROVE  ~Matches(q, c)
    <3>1. SUFFICES ASSUME Matches(q, c)
                   PROVE  FALSE
      OBVIOUS
    <3>2. \/ proc[q].req.who = <<"pid", c>>
          \/ WaitsOnMultiple(q)
      BY ZenonT(60), <2>3, <2>4, <3>1, TargetLemma DEF Matches, WaitsOnMultiple
    <3>. QED
      BY Zenon, <2>2, <2>5, <2>6, <3>1, <3>2 DEF WokenBy, IsGoodReason
  <2>7. Spared(q, p)
    <3>1. p \in Dead(p) /\ par[p] = proc[p].parent
      BY Zenon, <1>4 DEF Dead, NewParent
    <3>2. Child(q, p) => ~Matches(q, p)
      BY Zenon, <2>6, <3>1 DEF Child
    <3>3. Child(q, p)' => Child(q, p) /\ (Matches(q, p)' <=> Matches(q, p))
      <4>1. Child(q, p)' => proc'[p].state = "ZOMBIE" /\ Child(q, p)
        BY Zenon, <1>1, <1>5 DEF Child, Exists
      <4>2. proc[q].req.who[1] \in {"pid", "group", "any"}
        BY ZenonT(60), <2>3, <2>4, TargetLemma
      <4>3. proc'[p].state = "ZOMBIE" => (Matches(q, p)' <=> Matches(q, p))
        BY Zenon, <1>5, <2>2, <4>2 DEF Matches
      <4>. QED
        BY Zenon, <4>1, <4>3
    <3>. QED
      BY Zenon, <3>2, <3>3 DEF Spared
  <2>8. ASSUME NEW c \in Pid, c # p, c \notin Orphans(p)
        PROVE  Spared(q, c)
    <3>1. proc'[c].parent = proc[c].parent
      BY Zenon, <1>2, <2>8 DEF NewParent
    <3>2. proc'[c].state = "FREE" <=> proc[c].state = "FREE"
      BY Zenon, <2>8, TerminateFields
    <3>3. proc'[c].state = "ZOMBIE" =>
            /\ proc[c].state = "ZOMBIE" /\ proc'[c].pgid = proc[c].pgid
            /\ proc'[c].moved = proc[c].moved
      BY Zenon, <2>8, TerminateFields
    <3>4. proc'[c].stopped /\ ~proc'[c].wasStopped =>
            \/ proc'[c].vforkStopped
            \/ proc[c].stopped /\ ~proc[c].wasStopped /\ ~proc[c].vforkStopped
      <4>1. /\ proc'[c].stopped => proc[c].stopped /\ ~Holds(p, c)
            /\ proc'[c].wasStopped = proc[c].wasStopped
            /\ proc'[c].vforkStopped <=> (proc[c].vforkStopped /\ ~Holds(p, c))
        BY <2>8, TerminateFields
      <4>. QED
        BY Zenon, <4>1
    <3>. QED
      BY ZenonT(60), <1>1, <2>2, <2>3, <3>1, <3>2, <3>3, <3>4, SparedLemma
  <2>9. ASSUME NEW c \in Orphans(p)
        PROVE  Spared(q, c)
    <3>1. c \in Pid /\ c # p /\ c # init /\ proc[c].parent = p /\ Exists(c)
      BY Zenon, <1>3, <1>4, <2>9 DEF Orphans
    <3>2. ~Child(q, c) /\ proc'[c].parent = init /\ par[c] = init
      BY Zenon, <1>2, <2>1, <2>9, <3>1 DEF Child, NewParent
    <3>3. CASE q # init
      BY Zenon, <3>2, <3>3 DEF Spared, Child
    <3>4. CASE q = init
      <4>1. proc'[c].state = "ZOMBIE" => proc[c].state = "ZOMBIE" /\ proc'[c].pgid = proc[c].pgid
        BY Zenon, <3>1, TerminateFields
      <4>2. proc[c].state = "ZOMBIE" => ~Matches(q, c)
        BY Zenon, <2>6, <2>9, <3>1, <3>2, <3>4 DEF Dead
      <4>3. proc[q].req.who[1] \in {"pid", "group", "any"}
        BY ZenonT(60), <2>3, <2>4, TargetLemma
      <4>4. proc'[c].state = "ZOMBIE" => ~Matches(q, c)'
        BY ZenonT(60), <2>2, <4>1, <4>2, <4>3 DEF Matches
      <4>. QED
        BY Zenon, <3>2, <3>4, <4>4 DEF Spared
    <3>. QED
      BY Zenon, <3>3, <3>4
  <2>. QED
    BY ZenonT(60), <1>1, <2>2, <2>3, <2>7, <2>8, <2>9, WaitFrame
<1>7. \A q \in Pid : proc'[q].req.who[1] # "own group"
  <2>1. \A q \in Pid : proc'[q].req \in {NoRequest, proc[q].req}
    BY <1>5, TerminateFields
  <2>. QED
    BY ZenonT(60), <2>1, BlankLemma DEF WaitInv
<1>. QED
  BY ZenonT(60), <1>6, <1>7 DEF WaitInv, NothingToReport

-----------------------------------------------------------------------------
(* Each step keeps WaitInv. *)
LEMMA WaitStep ==
  ASSUME NoOwnGroup, LifeInv, WaitInv, [ProcNext]_proc
  PROVE  WaitInv'
<1>1. CASE UNCHANGED proc
  BY ZenonT(60), <1>1 DEF WaitInv, NothingToReport, ReportsNothing, Waited, Child, Exists, Matches,
              NewlyStopped
<1>2. CASE ProcNext
  <2>1. PICK p \in Pid : KernelStep(p) \/ UserStep(p) \/ Event(p) \/ SendContinue(p)
    BY Zenon, <1>2 DEF ProcNext
  <2>2. CASE SelfStep(p)
    BY Zenon, <2>2, WaitSelf
  <2>3. CASE Terminate(p)
    BY Zenon, <2>3, WaitTerminate
  <2>4. CASE Wait4Reports(p)
    BY Zenon, <2>4, WaitReports
  <2>5. CASE \E c \in Pid : Fork(p, c) \/ Vfork(p, c)
    BY Zenon, <2>5, WaitBirth
  <2>6. CASE Execve(p)
    BY Zenon, <2>6, WaitExecve
  <2>7. CASE Sends(p)
    BY Zenon, <2>7, WaitPost
  <2>8. CASE SendStop(p) \/ SendContinue(p)
    BY Zenon, <2>8, WaitSets
  <2>9. CASE \E c \in Pid, g \in Group : SetPgid(p, c, g)
    BY Zenon, <2>9, WaitSetPgid
  <2>. QED
    BY ZenonT(60), <2>1, <2>2, <2>3, <2>4, <2>5, <2>6, <2>7, <2>8, <2>9
    DEF KernelStep, UserStep, Event, SelfStep, Sends
<1>. QED
  BY Zenon, <1>1, <1>2

(* Initially nobody sleeps, nor asked for anything. *)
LEMMA WaitInitInv == ProcInit => WaitInv
<1>1. SUFFICES ASSUME ProcInit
               PROVE  WaitInv
  OBVIOUS
<1>2. /\ [Blank EXCEPT !.state = "RUNNABLE", !.execed = TRUE].req = NoRequest
      /\ [Blank EXCEPT !.state = "RUNNABLE", !.execed = TRUE].state = "RUNNABLE"
  BY Zenon DEF Blank
<1>3. \A q \in Pid : proc[q].req = NoRequest /\ proc[q].state # "SLEEPING"
  BY Zenon, <1>1, <1>2, BlankLemma DEF ProcInit
<1>. QED
  BY ZenonT(60), <1>3, BlankLemma DEF WaitInv, NothingToReport

(* As long as nobody calls wait4(0, ...), nobody sleeps in wait4 next to a *)
(* child whose death, or whose stop, it should report, whoever dies, stops *)
(* or is moved by setpgid, but for a child that setpgid moves when it is   *)
(* dead already into the group waited for.                                 *)
THEOREM NobodyMissesAReport ==
  ASSUME NoOwnGroup
  PROVE  ProcSpec => []NothingToReport
<1>1. LifeInv /\ WaitInv /\ [ProcNext]_proc => WaitInv'
  BY Zenon, WaitStep
<1>2. WaitInv => NothingToReport
  BY ZenonT(60) DEF WaitInv
<1>. QED
  BY <1>1, <1>2, WaitInitInv, LifeInvariance, PTL DEF ProcSpec

-----------------------------------------------------------------------------
(* The signals of a process. *)

(* A set of numbers that is not empty has a least element. *)
LEMMA LeastLemma ==
  ASSUME NEW S \in SUBSET Nat, S # {}
  PROVE  \E n \in S : \A m \in S : n <= m
<1> DEFINE R == OpToRel(<, Nat)
<1>1. R = {p \in Nat \X Nat : p[1] < p[2]}
  BY Zenon DEF OpToRel
<1>2. PICK n \in S : \A m \in S : ~(<<m, n>> \in R)
  <2>1. IsWellFoundedOn(R, Nat)
    BY Zenon, NatLessThanWellFounded
  <2> HIDE DEF R
  <2>. QED
    BY ZenonT(60), <2>1, WFMin
<1> HIDE DEF R
<1>3. ASSUME NEW m \in S PROVE n <= m
  <2>1. m \in Nat /\ n \in Nat
    OBVIOUS
  <2>2. m < n => <<m, n>> \in R
    BY Zenon, <1>1, <2>1
  <2>. QED
    BY <1>2, <2>1, <2>2
<1>. QED
  BY Zenon, <1>3

(* What the assumption on the constants says of the sets. *)
LEMMA SigLemma ==
  /\ Sig \subseteq Nat /\ SIGKILL \in Sig
  /\ Deadly \subseteq Sig /\ HwFault \subseteq Sig /\ Caught \subseteq Sig
  /\ Ignored \subseteq Sig /\ Blocked \subseteq Sig
<1>1. \A X \in {Deadly, HwFault, Caught, Ignored, Blocked} : X \subseteq Sig
  BY Zenon, SignalAssumption
<1>2. 1 .. 64 \subseteq Nat
  BY SMTT(60)
<1>. QED
  BY Zenon, <1>1, <1>2, SignalAssumption

Place == {"user", "preempted", "call", "paused", "awake", "dead"}
Action == {"DFL", "IGN", "CUSTOM"}
Call == {NoCall, ExecveCall} \cup (Sig \X Action)

(* The fields of the state. *)
LEMMA FieldsLemma ==
  ASSUME NEW T \in SigState
  PROVE  /\ T.pending \subseteq Sig /\ T.fault \subseteq Sig
         /\ T.mask \subseteq Sig /\ T.oldMask \subseteq Sig
         /\ T.suspend \in BOOLEAN /\ T.nested \in 0 .. 2 /\ T.stack \in BOOLEAN
         /\ T.handler \in [Sig -> Action] /\ T.at \in Place /\ T.call \in Call
BY Zenon DEF SigState, Place, Action, Call

(* get_first_pending_sig finds a signal if there is one to deliver: the    *)
(* first one of its word is not masked.                                    *)
LEMMA FirstPendingLemma ==
  ASSUME NothingHides, NEW T \in SigState,
         T.pending \subseteq Deadly \cup Caught, T.mask \subseteq Blocked,
         ~(T.pending \subseteq T.mask)
  PROVE  FirstPending(T) # -1
<1> DEFINE Leads(s) == \A r \in T.pending : Word(r) = Word(s) => s <= r
           firsts == {s \in T.pending : Leads(s) /\ s \notin T.mask}
<1>0. T.pending \subseteq Nat
  BY ZenonT(60), SignalAssumption, SigLemma, FieldsLemma
<1>1. PICK s \in T.pending : s \notin T.mask
  OBVIOUS
<1>2. PICK r \in {q \in T.pending : Word(q) = Word(s)} :
        \A q \in {q \in T.pending : Word(q) = Word(s)} : r <= q
  BY ZenonT(60), <1>0, <1>1, LeastLemma
<1>3. r \notin T.mask
  <2>1. ASSUME r \in T.mask PROVE FALSE
    <3>1. s <= r /\ r <= s
      BY Zenon, <1>1, <1>2, <2>1 DEF NothingHides
    <3>2. s = r
      BY SMTT(60), <1>0, <3>1
    <3>. QED
      BY Zenon, <1>1, <2>1, <3>2
  <2>. QED
    BY Zenon, <2>1
<1>4. r \in firsts
  BY Zenon, <1>2, <1>3
<1>5. \E f \in firsts : \A q \in firsts : f <= q
  BY ZenonT(60), <1>0, <1>4, LeastLemma
<1>6. FirstPending(T) \in firsts
  BY Zenon, <1>4, <1>5 DEF FirstPending
<1>. QED
  BY SMTT(60), <1>0, <1>6

(* Updates keep the type of the state. *)
LEMMA ForgetLemma ==
  ASSUME NEW T \in SigState
  PROVE  [T EXCEPT !.pending = {}, !.fault = {}] \in SigState
BY ZenonT(60) DEF SigState

(* So do the ones of the end of a process. *)
LEMMA ResetLemma ==
  ASSUME NEW T \in SigState
  PROVE  [T EXCEPT !.nested = 0, !.call = NoCall] \in SigState
<1>1. ASSUME NEW U \in SigState PROVE [U EXCEPT !.call = NoCall] \in SigState
  BY Zenon DEF SigState
<1>2. [T EXCEPT !.nested = 0] \in SigState
  BY DEF SigState
<1>. QED
  BY ZenonT(60), <1>1, <1>2

(* kill_task_now_or_later. *)
LEMMA KilledLemma ==
  ASSUME NEW T \in SigState, NEW R, R = Killed(T)
  PROVE  /\ R \in SigState
         /\ R.pending = {} /\ R.fault = {} /\ R.mask = T.mask /\ R.oldMask = T.oldMask
         /\ R.suspend = T.suspend /\ R.nested = 0 /\ R.handler = T.handler
         /\ R.at = "dead" /\ R.call = NoCall
<1> DEFINE T1 == [T EXCEPT !.at = "dead"]
           T2 == [T1 EXCEPT !.pending = {}, !.fault = {}]
           T3 == [T2 EXCEPT !.nested = 0, !.call = NoCall]
<1>1. T1 \in SigState
  BY Zenon DEF SigState
<1>4. T2 \in SigState
  <2> HIDE DEF T1
  <2>. QED
    BY ZenonT(60), <1>1, ForgetLemma
<1>5. T3 \in SigState
  <2> HIDE DEF T2
  <2>. QED
    BY ZenonT(60), <1>4, ResetLemma
<1>6. R = T3
  BY Zenon DEF Killed
<1>7. R \in SigState
  <2> HIDE DEF T3
  <2>. QED
    BY Zenon, <1>5, <1>6
<1>8. /\ R.pending = {} /\ R.fault = {} /\ R.mask = T.mask /\ R.oldMask = T.oldMask
      /\ R.suspend = T.suspend
  BY Zenon DEF Killed, SigState
<1>9. /\ R.nested = 0 /\ R.handler = T.handler /\ R.at = "dead" /\ R.call = NoCall
  BY Zenon DEF Killed, SigState
<1>. QED
  BY Zenon, <1>7, <1>8, <1>9

(* setup_sig_handler, when the stack has room for what it needs. *)
LEMMA HandleLemma ==
  ASSUME NEW T \in SigState, T.nested <= 1, ~(T.nested = 0 /\ ~T.stack), NEW s,
         NEW R, R = Handle(T, s)
  PROVE  /\ R \in SigState
         /\ R.pending = T.pending \ {s} /\ R.fault = T.fault \ {s} /\ R.mask = T.mask
         /\ R.oldMask = T.oldMask /\ R.suspend = T.suspend /\ R.nested = T.nested + 1
         /\ R.handler = T.handler /\ R.at = T.at /\ R.call = T.call
<1>1. R = [T EXCEPT !.pending = T.pending \ {s}, !.fault = T.fault \ {s},
                    !.nested = T.nested + 1]
  BY Zenon DEF Handle, SigState
<1>2. T.nested + 1 \in 0 .. 2
  BY FieldsLemma
<1>3. R \in SigState
  BY ZenonT(60), <1>1, <1>2 DEF SigState
<1>. QED
  BY Zenon, <1>1, <1>3 DEF SigState

(* What process_signals does to the fields: what it keeps in any case, and *)
(* the three things that may happen.                                       *)
Kept(R, T) ==
  /\ R.mask = T.mask \ T.fault /\ R.oldMask = T.oldMask
  /\ R.suspend = T.suspend /\ R.handler = T.handler

IsDead(R) ==
  R.at = "dead" /\ R.nested = 0 /\ R.call = NoCall /\ R.pending = {} /\ R.fault = {}

Same(R, T) ==
  R.nested = T.nested /\ R.call = T.call /\ R.pending = T.pending /\ R.fault = T.fault

Handled(R, T) ==
  /\ R.nested = T.nested + 1 /\ R.call = T.call
  /\ \E s : R.pending = T.pending \ {s} /\ R.fault = T.fault \ {s}

(* process_signals: the faults are unmasked, and one of three things       *)
(* happens: the process dies, a handler is set up, or nothing.             *)
LEMMA ProcessLemma ==
  ASSUME NEW T \in SigState, T.nested <= 1, NEW inReturn \in BOOLEAN,
         NEW R, R = ProcessSignals(T, inReturn)
  PROVE  /\ R \in SigState /\ Kept(R, T)
         /\ \/ IsDead(R)
            \/ NothingToProcess(T, inReturn) /\ R.at = T.at /\ Same(R, T)
            \/ /\ ~NothingToProcess(T, inReturn) /\ R.at = T.at /\ Handled(R, T)
               /\ T.nested = 0 \/ inReturn
<1> DEFINE U == [T EXCEPT !.mask = @ \ T.fault]
           s == FirstPending(U)
<1>1. /\ U \in SigState /\ U.mask = T.mask \ T.fault
      /\ U.oldMask = T.oldMask /\ U.suspend = T.suspend /\ U.handler = T.handler
      /\ U.at = T.at /\ U.nested = T.nested /\ U.call = T.call
      /\ U.pending = T.pending /\ U.fault = T.fault
  BY Zenon DEF SigState
<1>2. CASE R = Killed(U)
  <2> HIDE DEF U
  <2>. QED
    BY <1>1, <1>2, KilledLemma DEF Kept, IsDead
<1>3. CASE SIGKILL \notin U.pending /\ NothingToProcess(T, inReturn)
  BY Zenon, <1>1, <1>3 DEF ProcessSignals, Kept, Same
<1>4. CASE R # Killed(U) /\ ~NothingToProcess(T, inReturn)
  <2>1. R = Handle(U, s) /\ (T.nested = 0 \/ inReturn)
    BY <1>1, <1>4, FieldsLemma DEF ProcessSignals, NothingToProcess
  <2> HIDE DEF s, U
  <2>4. ~(U.nested = 0 /\ ~U.stack)
    BY Zenon, <1>4, <2>1 DEF Handle
  <2>2. /\ R \in SigState
        /\ R.pending = U.pending \ {s} /\ R.fault = U.fault \ {s} /\ R.mask = U.mask
        /\ R.oldMask = U.oldMask /\ R.suspend = U.suspend /\ R.nested = U.nested + 1
        /\ R.handler = U.handler /\ R.at = U.at /\ R.call = U.call
    BY SMTT(60), <1>1, <2>1, <2>4, HandleLemma
  <2>3. Kept(R, T) /\ Handled(R, T)
    BY Zenon, <1>1, <2>2 DEF Kept, Handled
  <2>. QED
    BY Zenon, <1>1, <1>4, <2>1, <2>2, <2>3
<1>. QED
  BY Zenon, <1>2, <1>3, <1>4 DEF ProcessSignals, NothingToProcess

(* Nothing is left to deliver, if nothing hides. *)
Exhausted(T) ==
  NothingHides /\ T.pending \subseteq Deadly \cup Caught /\ T.mask \subseteq Blocked =>
    T.pending \subseteq T.mask \ T.fault

(* When process_signals finds nothing outside of a handler, or when one    *)
(* returns, there is nothing to deliver.                                   *)
LEMMA NothingLemma ==
  ASSUME NEW T \in SigState, NEW inReturn \in BOOLEAN, NothingToProcess(T, inReturn),
         T.nested = 0 \/ inReturn
  PROVE  Exhausted(T)
<1> SUFFICES ASSUME NothingHides, T.pending \subseteq Deadly \cup Caught,
                    T.mask \subseteq Blocked
             PROVE  T.pending \subseteq T.mask \ T.fault
  BY Zenon DEF Exhausted
<1> DEFINE U == [T EXCEPT !.mask = @ \ T.fault]
<1>1. U \in SigState /\ U.mask = T.mask \ T.fault /\ U.pending = T.pending
  BY Zenon DEF SigState
<1>2. FirstPending(U) = -1
  BY SMTT(60), FieldsLemma DEF NothingToProcess
<1> HIDE DEF U
<1>. QED
  BY Zenon, <1>1, <1>2, FirstPendingLemma

(* What comes of a call that returns to user mode. *)
LEMMA ReturnsLemma ==
  ASSUME NEW T \in SigState, T.nested <= 1, NEW R, R = Returns(T)
  PROVE  /\ R \in SigState /\ R.nested <= 1 /\ Kept(R, T)
         /\ \/ IsDead(R)
            \/ R.at = "user" /\ Same(R, T) /\ (T.nested > 0 \/ Exhausted(T))
            \/ R.at = "user" /\ Handled(R, T) /\ T.nested = 0
<1> DEFINE U == [T EXCEPT !.at = "user"]
<1>1. /\ U \in SigState /\ U.at = "user" /\ U.nested = T.nested /\ U.call = T.call
      /\ U.pending = T.pending /\ U.fault = T.fault /\ U.mask = T.mask
      /\ U.oldMask = T.oldMask /\ U.suspend = T.suspend /\ U.handler = T.handler
  BY Zenon DEF SigState
<1>2. R = ProcessSignals(U, FALSE)
  BY Zenon DEF Returns
<1>3. T.nested \in 0 .. 2
  BY Zenon, FieldsLemma
<1> HIDE DEF U
<1>4. NothingToProcess(U, FALSE) => T.nested > 0 \/ Exhausted(T)
  <2> SUFFICES ASSUME NothingToProcess(U, FALSE), T.nested = 0 PROVE Exhausted(T)
    BY <1>3
  <2>1. Exhausted(U)
    BY ZenonT(60), <1>1, NothingLemma
  <2>. QED
    BY Zenon, <1>1, <2>1 DEF Exhausted
<1>5. /\ R \in SigState /\ Kept(R, U)
      /\ \/ IsDead(R)
         \/ NothingToProcess(U, FALSE) /\ R.at = U.at /\ Same(R, U)
         \/ R.at = U.at /\ Handled(R, U) /\ U.nested = 0
  BY ZenonT(60), <1>1, <1>2, ProcessLemma
<1>6. /\ Kept(R, U) => Kept(R, T)
      /\ Same(R, U) => Same(R, T)
      /\ Handled(R, U) => Handled(R, T)
  BY Zenon, <1>1 DEF Kept, Same, Handled
<1>7. R.nested <= 1
  <2>1. \/ R.nested = 0 \/ R.nested = T.nested
        \/ T.nested = 0 /\ R.nested = T.nested + 1
    BY <1>1, <1>5, ZenonT(60) DEF IsDead, Same, Handled
  <2>. QED
    BY <1>3, <2>1
<1>. QED
  BY ZenonT(60), <1>1, <1>4, <1>5, <1>6, <1>7

(* sys_pause: who sleeps has found nothing to deliver. *)
LEMMA SleepsLemma ==
  ASSUME NEW T \in SigState, T.nested <= 1, NEW R, R = Sleeps(T)
  PROVE  \/ /\ R = Returns(T) /\ T.nested = 0 /\ ~(T.pending \subseteq T.mask)
         \/ /\ R \in SigState /\ R.at = "paused" /\ Same(R, T)
            /\ R.mask = T.mask /\ R.oldMask = T.oldMask
            /\ R.suspend = T.suspend /\ R.handler = T.handler
            /\ R.nested = 0 => R.pending \subseteq R.mask
<1>1. CASE PendingSignals(T)
  BY Zenon, <1>1 DEF Sleeps, PendingSignals
<1>2. CASE ~PendingSignals(T)
  <2>1. R = [T EXCEPT !.at = "paused"]
    BY Zenon, <1>2 DEF Sleeps
  <2>. QED
    BY Zenon, <1>2, <2>1 DEF SigState, PendingSignals, Same
<1>. QED
  BY Zenon, <1>1, <1>2

(* The updates of the state that the steps make. *)
Pended(T, s, l) ==
  [T EXCEPT !.pending = @ \cup {s}, !.at = l]
Faulted(T, s) ==
  [T EXCEPT !.pending = @ \cup {s}, !.fault = @ \cup {s}]
Began(T, c) ==
  [T EXCEPT !.at = "call", !.call = c]
Acted(T, s, h) ==
  [T EXCEPT !.handler[s] = h, !.call = NoCall]
MovedStack(T, b) ==
  [T EXCEPT !.stack = b]
Masked(T, m) ==
  [T EXCEPT !.mask = m]
Suspended(T, m) ==
  [T EXCEPT !.oldMask = T.mask, !.suspend = TRUE, !.mask = m]
Unnested(T) ==
  [T EXCEPT !.nested = @ - 1]
Execved(T) ==
  [T EXCEPT
     !.call = NoCall,
     !.nested = 0, !.suspend = FALSE, !.oldMask = {}, !.stack = TRUE,
     !.handler = [s \in Sig |-> IF @[s] = "IGN" THEN "IGN" ELSE "DFL"]]

(* Arrive leaves everything but what is pending, and wakes up. *)
LEMMA ArriveLemma ==
  ASSUME NEW T \in SigState, NEW s \in Sig, NEW l \in Place
  PROVE  LET R == Pended(T, s, l)
         IN  /\ R \in SigState /\ R.pending = T.pending \cup {s} /\ R.at = l
             /\ R.fault = T.fault /\ R.mask = T.mask /\ R.oldMask = T.oldMask
             /\ R.suspend = T.suspend /\ R.nested = T.nested /\ R.handler = T.handler
             /\ R.call = T.call
BY ZenonT(60) DEF SigState, Pended, Place

(* handle_fault. *)
LEMMA FaultLemma ==
  ASSUME NEW T \in SigState, NEW s \in Sig
  PROVE  LET R == Faulted(T, s)
         IN  /\ R \in SigState /\ R.pending = T.pending \cup {s} /\ R.at = T.at
             /\ R.fault = T.fault \cup {s} /\ R.mask = T.mask /\ R.oldMask = T.oldMask
             /\ R.suspend = T.suspend /\ R.nested = T.nested /\ R.handler = T.handler
             /\ R.call = T.call
BY ZenonT(60) DEF SigState, Faulted

(* The program moves its stack. *)
LEMMA MoveStackLemma ==
  ASSUME NEW T \in SigState, NEW b \in BOOLEAN
  PROVE  LET R == MovedStack(T, b)
         IN  /\ R \in SigState /\ R.pending = T.pending /\ R.at = T.at
             /\ R.fault = T.fault /\ R.mask = T.mask /\ R.oldMask = T.oldMask
             /\ R.suspend = T.suspend /\ R.nested = T.nested /\ R.handler = T.handler
             /\ R.call = T.call
BY Zenon DEF SigState, MovedStack

(* A call that can be preempted begins. *)
LEMMA BeginLemma ==
  ASSUME NEW T \in SigState, NEW c \in Call
  PROVE  LET R == Began(T, c)
         IN  /\ R \in SigState /\ R.pending = T.pending /\ R.at = "call"
             /\ R.fault = T.fault /\ R.mask = T.mask /\ R.oldMask = T.oldMask
             /\ R.suspend = T.suspend /\ R.nested = T.nested /\ R.handler = T.handler
             /\ R.call = c
BY ZenonT(60) DEF SigState, Began, Call, Action

(* sigaction_int. *)
LEMMA ActionLemma ==
  ASSUME NEW T \in SigState, NEW s \in Sig, NEW h \in Action
  PROVE  LET R == Acted(T, s, h)
         IN  /\ R \in SigState /\ R.pending = T.pending /\ R.at = T.at
             /\ R.fault = T.fault /\ R.mask = T.mask /\ R.oldMask = T.oldMask
             /\ R.suspend = T.suspend /\ R.nested = T.nested
             /\ R.handler = [T.handler EXCEPT ![s] = h] /\ R.call = NoCall
<1> DEFINE R == Acted(T, s, h)
<1>1. [T.handler EXCEPT ![s] = h] \in [Sig -> Action]
  BY Zenon, FieldsLemma
<1>2. R = [T EXCEPT !.handler = [T.handler EXCEPT ![s] = h], !.call = NoCall]
  BY Zenon DEF SigState, Acted
<1>. QED
  BY ZenonT(60), <1>1, <1>2 DEF SigState, Action

(* sys_rt_sigprocmask. *)
LEMMA ProcMaskLemma ==
  ASSUME NEW T \in SigState, NEW m \in SUBSET Sig
  PROVE  LET R == Masked(T, m)
         IN  /\ R \in SigState /\ R.pending = T.pending /\ R.at = T.at
             /\ R.fault = T.fault /\ R.mask = m /\ R.oldMask = T.oldMask
             /\ R.suspend = T.suspend /\ R.nested = T.nested /\ R.handler = T.handler
             /\ R.call = T.call
BY Zenon DEF SigState, Masked

(* sys_rt_sigsuspend. *)
LEMMA SuspendLemma ==
  ASSUME NEW T \in SigState, NEW m \in SUBSET Sig
  PROVE  LET R == Suspended(T, m)
         IN  /\ R \in SigState /\ R.pending = T.pending /\ R.at = T.at
             /\ R.fault = T.fault /\ R.mask = m /\ R.oldMask = T.mask
             /\ R.suspend = TRUE /\ R.nested = T.nested /\ R.handler = T.handler
             /\ R.call = T.call
BY ZenonT(60) DEF SigState, Suspended

(* sys_rt_sigreturn. *)
LEMMA RestoredLemma ==
  ASSUME NEW T \in SigState, NEW R, R = Restored(T)
  PROVE  /\ R \in SigState /\ R.pending = T.pending /\ R.at = T.at
         /\ R.fault = T.fault /\ R.mask = (IF T.suspend THEN T.oldMask ELSE T.mask)
         /\ R.oldMask = (IF T.suspend THEN {} ELSE T.oldMask)
         /\ ~R.suspend /\ R.nested = T.nested /\ R.handler = T.handler
         /\ R.call = T.call
<1>1. CASE T.suspend
  <2>1. R = [T EXCEPT !.mask = T.oldMask, !.oldMask = {}, !.suspend = FALSE]
    BY Zenon, <1>1 DEF Restored
  <2>. QED
    BY ZenonT(60), <1>1, <2>1 DEF SigState
<1>2. CASE ~T.suspend
  BY Zenon, <1>2 DEF Restored
<1>. QED
  BY Zenon, <1>1, <1>2

(* ... and, where a handler has ended, one level less. *)
LEMMA UnnestLemma ==
  ASSUME NEW T \in SigState, T.nested > 0
  PROVE  LET R == Unnested(T)
         IN  /\ R \in SigState /\ R.pending = T.pending /\ R.at = T.at
             /\ R.fault = T.fault /\ R.mask = T.mask /\ R.oldMask = T.oldMask
             /\ R.suspend = T.suspend /\ R.nested = T.nested - 1 /\ R.handler = T.handler
             /\ R.call = T.call
<1> DEFINE R == Unnested(T)
<1>1. T.nested - 1 \in 0 .. 2
  BY FieldsLemma
<1>. QED
  BY Zenon, <1>1 DEF SigState, Unnested

(* Leaving the handlers keeps the type of the state. *)
LEMMA QuitLemma ==
  ASSUME NEW T \in SigState
  PROVE  [T EXCEPT !.nested = 0, !.suspend = FALSE] \in SigState
<1>1. ASSUME NEW U \in SigState PROVE [U EXCEPT !.suspend = FALSE] \in SigState
  BY ZenonT(60) DEF SigState
<1>2. [T EXCEPT !.nested = 0] \in SigState
  BY DEF SigState
<1>. QED
  BY ZenonT(60), <1>1, <1>2

(* execve_final_steps. *)
LEMMA SigExecveLemma ==
  ASSUME NEW T \in SigState
  PROVE  LET R == Execved(T)
         IN  /\ R \in SigState /\ R.pending = T.pending /\ R.at = T.at
             /\ R.fault = T.fault /\ R.mask = T.mask /\ R.oldMask = {}
             /\ ~R.suspend /\ R.nested = 0
             /\ \A s \in Sig : R.handler[s] # "CUSTOM"
             /\ R.call = NoCall
<1> DEFINE R == Execved(T)
<1> DEFINE h == [s \in Sig |-> IF T.handler[s] = "IGN" THEN "IGN" ELSE "DFL"]
           T1 == [T EXCEPT !.call = NoCall]
           T2 == [T1 EXCEPT !.nested = 0, !.suspend = FALSE]
           T3 == [T2 EXCEPT !.oldMask = {}, !.stack = TRUE, !.handler = h]
<1>1. T1 \in SigState
  BY Zenon DEF SigState
<1>3. h \in [Sig -> Action]
  BY Zenon DEF Action
<1>4. T2 \in SigState
  <2> HIDE DEF T1
  <2>. QED
    BY ZenonT(60), <1>1, QuitLemma
<1>5. ASSUME NEW U \in SigState
      PROVE  [U EXCEPT !.oldMask = {}, !.stack = TRUE, !.handler = h] \in SigState
  <2> HIDE DEF h
  <2>. QED
    BY ZenonT(60), <1>3 DEF SigState, Action
<1>6. T3 \in SigState
  <2> HIDE DEF T2, h
  <2>. QED
    BY ZenonT(60), <1>4, <1>5
<1>7. R = T3
  BY Zenon DEF Execved
<1>8. R \in SigState
  <2> HIDE DEF T3
  <2>. QED
    BY Zenon, <1>6, <1>7
<1>9. /\ R.pending = T.pending /\ R.at = T.at /\ R.fault = T.fault /\ R.mask = T.mask
      /\ R.oldMask = {} /\ ~R.suspend /\ R.nested = 0 /\ R.call = NoCall /\ R.handler = h
  <2> HIDE DEF h
  <2>1. R = [T EXCEPT !.call = NoCall, !.nested = 0, !.suspend = FALSE, !.oldMask = {},
                      !.stack = TRUE, !.handler = h]
    BY Zenon DEF h, Execved
  <2>2. /\ R.pending = T.pending /\ R.at = T.at /\ R.fault = T.fault /\ R.mask = T.mask
        /\ R.handler = h
    BY Zenon, <2>1 DEF SigState
  <2>3. R.oldMask = {} /\ ~R.suspend /\ R.nested = 0 /\ R.call = NoCall
    BY Zenon, <2>1 DEF SigState
  <2>. QED
    BY Zenon, <2>2, <2>3
<1>10. \A s \in Sig : h[s] # "CUSTOM"
  BY Zenon
<1> HIDE DEF h
<1>. QED
  BY Zenon, <1>8, <1>9, <1>10

(* The invariant of a state that need not be the current one, with a the   *)
(* mask that the program asked for.                                        *)
GoodState(T, a) == ProgramInv(T, a) /\ MaskInv(T, a)

(* The state in which a system call or a fault leaves the process, before  *)
(* process_signals: the faults may still be masked, and sigsuspend may     *)
(* have put its mask only if something ends it.                            *)
Ready(T, a) ==
  /\ ProgramInv(T, a)
  /\ T.fault \subseteq T.pending
  /\ a = IF T.suspend THEN T.oldMask ELSE T.mask \ T.fault
  /\ T.nested = 0 /\ T.suspend => ~(T.pending \subseteq T.mask)

(* process_signals gives a ready state the invariant. *)
LEMMA ReturnsGood ==
  ASSUME NothingHides, NEW T \in SigState, T.nested <= 1, NEW a, Ready(T, a),
         NEW R, R = Returns(T)
  PROVE  GoodState(R, a)
<1>1. /\ R \in SigState /\ R.nested <= 1 /\ Kept(R, T)
      /\ \/ IsDead(R)
         \/ R.at = "user" /\ Same(R, T) /\ (T.nested > 0 \/ Exhausted(T))
         \/ R.at = "user" /\ Handled(R, T) /\ T.nested = 0
  BY Zenon, ReturnsLemma
<1>2. T.nested \in 0 .. 2 /\ T.suspend \in BOOLEAN
  BY Zenon, FieldsLemma
<1>3. /\ R.pending \subseteq T.pending
      /\ R.fault \subseteq R.pending /\ R.fault \subseteq T.fault
      /\ R.call \in {T.call, NoCall}
  BY Zenon, <1>1 DEF Ready, IsDead, Same, Handled
<1>4. ProgramInv(R, a)
  <2>1. \A x : NoCall # <<x, "CUSTOM">>
    BY Zenon DEF NoCall
  <2>2. R.mask \subseteq T.mask /\ R.oldMask = T.oldMask /\ R.handler = T.handler
    BY Zenon, <1>1 DEF Kept
  <2>. QED
    BY Zenon, <1>3, <2>1, <2>2 DEF Ready, ProgramInv
<1>5. R.fault \subseteq R.pending \ R.mask
  BY Zenon, <1>1, <1>3 DEF Kept
<1>6. a = IF R.suspend THEN R.oldMask ELSE R.mask
  BY Zenon, <1>1 DEF Kept, Ready
<1>8. R.at # "dead" /\ R.nested = 0 => R.fault = {} /\ ~R.suspend
  <2> SUFFICES ASSUME R.at # "dead", R.nested = 0 PROVE R.fault = {} /\ ~R.suspend
    BY Zenon
  <2>1. Same(R, T) /\ (T.nested > 0 \/ Exhausted(T))
    BY SMTT(60), <1>1, <1>2 DEF IsDead, Handled
  <2>2. T.nested = 0 /\ Exhausted(T)
    BY SMTT(60), <2>1 DEF Same
  <2>3. T.pending \subseteq T.mask \ T.fault
    BY Zenon, <2>2 DEF Exhausted, Ready, ProgramInv
  <2>4. T.fault = {}
    BY Zenon, <2>3 DEF Ready
  <2>5. ~T.suspend
    BY Zenon, <2>2, <2>3, <2>4 DEF Ready
  <2>. QED
    BY Zenon, <1>1, <2>1, <2>4, <2>5 DEF Same, Kept
<1>. QED
  BY Zenon, <1>4, <1>5, <1>6, <1>8 DEF GoodState, MaskInv

(* A good state outside of sigsuspend is ready. *)
LEMMA GoodIsReady ==
  ASSUME NEW T \in SigState, NEW a, GoodState(T, a), T.at # "dead",
         T.at \in {"user", "preempted", "call"} \/ T.nested > 0
                \/ ~(T.pending \subseteq T.mask)
  PROVE  Ready(T, a)
<1>1. T.nested \in 0 .. 2 /\ T.suspend \in BOOLEAN
  BY Zenon, FieldsLemma
<1>2. T.mask \ T.fault = T.mask /\ T.fault \subseteq T.pending
  BY Zenon DEF GoodState, MaskInv
<1>. QED
  BY SMTT(60), <1>1, <1>2 DEF GoodState, MaskInv, Ready

(* sys_pause keeps the invariant. *)
LEMMA SleepsGood ==
  ASSUME NothingHides, NEW T \in SigState, T.nested <= 1, NEW a, ProgramInv(T, a),
         T.fault \subseteq T.pending \ T.mask,
         T.nested = 0 => T.fault = {},
         a = IF T.suspend THEN T.oldMask ELSE T.mask,
         NEW R, R = Sleeps(T)
  PROVE  GoodState(R, a) /\ R \in SigState /\ R.nested <= 1
           /\ (R.at = "paused" /\ R.nested = 0 => R.pending \subseteq R.mask)
           /\ R.at \in {"paused", "user", "dead"}
<1>1. CASE R = Returns(T) /\ T.nested = 0 /\ ~(T.pending \subseteq T.mask)
  <2>1. Ready(T, a)
    <3>1. T.mask \ T.fault = T.mask /\ T.fault \subseteq T.pending
      BY Zenon
    <3>. QED
      BY ZenonT(60), <1>1, <3>1 DEF Ready
  <2>2. R \in SigState /\ R.nested <= 1 /\ R.at \in {"user", "dead"}
    BY Zenon, <1>1, ReturnsLemma DEF IsDead
  <2>. QED
    BY Zenon, <1>1, <2>1, <2>2, ReturnsGood
<1>2. CASE /\ R \in SigState /\ R.at = "paused" /\ Same(R, T)
           /\ R.mask = T.mask /\ R.oldMask = T.oldMask
           /\ R.suspend = T.suspend /\ R.handler = T.handler
           /\ R.nested = 0 => R.pending \subseteq R.mask
  BY Zenon, <1>2 DEF GoodState, ProgramInv, MaskInv, Same
<1>. QED
  BY Zenon, <1>1, <1>2, SleepsLemma

(* The process has no signals to begin with. *)
LEMMA SigInitInv == SigInit => SigInv
<1> SUFFICES ASSUME SigInit PROVE SigInv
  OBVIOUS
<1> USE DEF SigInit
<1>1. sig \in SigState
  BY SMTT(60) DEF SigState
<1>2. /\ sig.pending = {} /\ sig.fault = {} /\ sig.mask = {} /\ sig.oldMask = {}
      /\ sig.suspend = FALSE /\ sig.nested = 0 /\ sig.handler = [s \in Sig |-> "DFL"]
      /\ sig.at = "user" /\ sig.call = NoCall
  BY Zenon
<1>3. \A s \in Sig : NoCall # <<s, "CUSTOM">>
  BY Zenon DEF NoCall
<1>4. ProgramInv(sig, asked)
  BY Zenon, <1>2, <1>3 DEF ProgramInv
<1>5. MaskInv(sig, asked)
  BY Zenon, <1>2 DEF MaskInv
<1>6. asked \subseteq Sig /\ panic = FALSE
  OBVIOUS
<1> HIDE DEF SigInit
<1>7. asked \in SUBSET Sig /\ panic \in BOOLEAN /\ ~panic
  BY ZenonT(60), <1>6
<1>8. sig.nested <= 1 /\ sig.at # "paused"
  BY SMTT(60), <1>2
<1>. QED
  BY <1>1, <1>4, <1>5, <1>7, <1>8, ZenonT(60) DEF SigInv, SleepInv, SigTypeOK, NoSleepOnSignal

(* SleepInv of a state in which nobody sleeps. *)
AwakeState(T) == T \in SigState /\ T.nested <= 1 /\ T.at # "paused"

(* The process at the entry of a system call. *)
LEMMA EnteredLemma ==
  ASSUME SleepInv, Runs
  PROVE  /\ AwakeState(Entered) /\ Entered.at \in {"user", "dead"}
         /\ Entered.suspend = sig.suspend
<1>1. sig \in SigState /\ sig.nested <= 1
  BY Zenon DEF SleepInv, SigTypeOK
<1>. QED
  BY Zenon, <1>1, ReturnsLemma DEF Entered, AwakeState, Kept, IsDead

(* Every step keeps SleepInv, whatever the constants are. *)
LEMMA SleepStep == SleepInv /\ [SigNext]_sigVars => SleepInv'
<1> SUFFICES ASSUME SleepInv, [SigNext]_sigVars PROVE SleepInv'
  OBVIOUS
<1>0. /\ sig \in SigState /\ sig.nested <= 1 /\ asked \subseteq Sig /\ panic \in BOOLEAN
      /\ NoSleepOnSignal
  BY Zenon DEF SleepInv, SigTypeOK
<1>1. ASSUME sig' \in SigState, sig'.nested <= 1, asked' \subseteq Sig, panic' \in BOOLEAN,
             sig'.at = "paused" /\ sig'.nested = 0 => sig'.pending \subseteq sig'.mask
      PROVE  SleepInv'
  BY Zenon, <1>1 DEF SleepInv, SigTypeOK, NoSleepOnSignal
<1>2. ASSUME AwakeState(sig'), asked' \subseteq Sig, panic' \in BOOLEAN
      PROVE  SleepInv'
  BY Zenon, <1>1, <1>2 DEF AwakeState
<1>3. ASSUME NEW T \in SigState, T.nested <= 1
      PROVE  AwakeState(Returns(T))
  BY Zenon, <1>3, ReturnsLemma DEF AwakeState, IsDead
<1>4. ASSUME NEW T \in SigState, T.nested <= 1
      PROVE  /\ Sleeps(T) \in SigState /\ Sleeps(T).nested <= 1
             /\ Sleeps(T).at = "paused" /\ Sleeps(T).nested = 0 =>
                  Sleeps(T).pending \subseteq Sleeps(T).mask
  BY SMTT(60), <1>3, <1>4, SleepsLemma DEF AwakeState, Same
<1>5. ASSUME NEW s \in Sig, Arrive(s) PROVE SleepInv'
  <2> DEFINE l == CASE sig.at = "user" -> "preempted"
                    [] sig.at = "paused" /\ s \notin sig.mask -> "awake"
                    [] OTHER -> sig.at
  <2>1. /\ l \in Place
        /\ l = "paused" => sig.at = "paused" /\ s \in sig.mask
    BY Zenon, <1>0, FieldsLemma DEF Place
  <2>2. sig' = Pended(sig, s, l)
    BY Zenon, <1>5 DEF Arrive, Pended
  <2> HIDE DEF l
  <2>3. /\ sig' \in SigState /\ sig'.pending = sig.pending \cup {s} /\ sig'.at = l
        /\ sig'.mask = sig.mask /\ sig'.nested = sig.nested
    BY <1>0, <2>1, <2>2, ArriveLemma
  <2>4. asked' = asked /\ panic' = panic
    BY Zenon, <1>5 DEF Arrive
  <2>. QED
    BY Zenon, <1>0, <1>1, <2>1, <2>3, <2>4 DEF NoSleepOnSignal
<1>6. ASSUME NEW s \in HwFault, Fault(s) PROVE SleepInv'
  <2>1. s \in Sig
    BY Zenon, SigLemma
  <2> DEFINE T == Faulted(sig, s)
  <2>2. T \in SigState /\ T.nested <= 1
    BY Zenon, <1>0, <2>1, FaultLemma
  <2>3. sig' = Returns(T) /\ asked' \subseteq asked /\ panic' = panic
    BY Zenon, <1>6 DEF Fault, Faulted
  <2> HIDE DEF T
  <2>. QED
    BY Zenon, <1>0, <1>2, <1>3, <2>2, <2>3
<1>7. ASSUME NEW c \in Call, Begin(c) PROVE SleepInv'
  <2>1. Runs /\ asked' = asked /\ panic' = panic
    BY Zenon, <1>7 DEF Begin, Syscall
  <2>2. AwakeState(Entered)
    BY Zenon, <2>1, EnteredLemma
  <2>3. sig' = Entered \/ sig' = Began(Entered, c)
    BY Zenon, <1>7 DEF Begin, Syscall, Began
  <2>4. AwakeState(sig')
    BY <2>2, <2>3, BeginLemma DEF AwakeState
  <2>. QED
    BY Zenon, <1>0, <1>2, <2>1, <2>4
<1>8. ASSUME NEW s \in Sig, NEW h \in Action, SigAction(s, h) PROVE SleepInv'
  <2> DEFINE T == Acted(sig, s, h)
  <2>1. T \in SigState /\ T.nested <= 1
    <3>1. T \in SigState /\ T.nested = sig.nested
      BY <1>0, ActionLemma, Zenon
    <3> HIDE DEF T
    <3>. QED
      BY Zenon, <1>0, <3>1
  <2>2. sig' = Returns(T) /\ asked' = asked /\ panic' = panic
    BY Zenon, <1>8 DEF SigAction, Acted
  <2> HIDE DEF T
  <2>. QED
    BY Zenon, <1>0, <1>2, <1>3, <2>1, <2>2
<1>9. ASSUME NEW m \in SUBSET Blocked, SigProcMask(m) PROVE SleepInv'
  <2>1. m \in SUBSET Sig
    BY Zenon, SigLemma
  <2>2. Runs /\ asked' \subseteq Sig /\ panic' = panic
    BY Zenon, <1>0, <1>9, <2>1 DEF SigProcMask, Syscall
  <2>3. AwakeState(Entered)
    BY Zenon, <2>2, EnteredLemma
  <2> DEFINE T == Masked(Entered, m)
  <2>4. T \in SigState /\ T.nested <= 1
    BY Zenon, <2>1, <2>3, ProcMaskLemma DEF AwakeState
  <2>5. sig' = Entered \/ sig' = Returns(T)
    BY Zenon, <1>9 DEF SigProcMask, Syscall, Masked
  <2> HIDE DEF T
  <2>6. AwakeState(sig')
    BY Zenon, <1>3, <2>3, <2>4, <2>5
  <2>. QED
    BY Zenon, <1>0, <1>2, <2>2, <2>6
<1>10. ASSUME NEW m \in SUBSET Blocked, SigSuspend(m) PROVE SleepInv'
  <2>1. m \in SUBSET Sig
    BY Zenon, SigLemma
  <2>2. Runs /\ asked' = asked /\ panic' \in BOOLEAN
    BY Zenon, <1>10 DEF SigSuspend, Syscall
  <2>3. AwakeState(Entered)
    BY Zenon, <2>2, EnteredLemma
  <2> DEFINE T == Suspended(Entered, m)
  <2>4. T \in SigState /\ T.nested <= 1
    <3>1. T \in SigState /\ T.nested = Entered.nested
      BY <2>1, <2>3, SuspendLemma, Zenon DEF AwakeState
    <3> HIDE DEF T
    <3>. QED
      BY Zenon, <2>3, <3>1 DEF AwakeState
  <2>5. sig' = Entered \/ sig' = Returns(Entered) \/ sig' = Sleeps(T)
    BY Zenon, <1>10 DEF SigSuspend, Syscall, Suspends, Suspended
  <2> HIDE DEF T
  <2>6. CASE sig' = Sleeps(T)
    BY Zenon, <1>0, <1>1, <1>4, <2>2, <2>4, <2>6
  <2>7. CASE sig' = Entered \/ sig' = Returns(Entered)
    BY Zenon, <1>0, <1>2, <1>3, <2>2, <2>3, <2>7 DEF AwakeState
  <2>. QED
    BY Zenon, <2>5, <2>6, <2>7
<1>11. CASE Resume
  BY Zenon, <1>0, <1>2, <1>3, <1>11 DEF Resume
<1>12. CASE Pause
  <2>1. Runs /\ asked' = asked /\ panic' = panic
    BY Zenon, <1>12 DEF Pause, Syscall
  <2>2. AwakeState(Entered)
    BY Zenon, <2>1, EnteredLemma
  <2>3. sig' = Entered \/ sig' = Sleeps(Entered)
    BY Zenon, <1>12 DEF Pause, Syscall
  <2>4. CASE sig' = Entered
    BY Zenon, <1>0, <1>2, <2>1, <2>2, <2>4
  <2>5. CASE sig' = Sleeps(Entered)
    BY Zenon, <1>0, <1>1, <1>4, <2>1, <2>2, <2>5 DEF AwakeState
  <2>. QED
    BY Zenon, <2>3, <2>4, <2>5
<1>13. CASE PauseWakes
  BY Zenon, <1>0, <1>1, <1>4, <1>13 DEF PauseWakes
<1>14. CASE SigReturn
  <2> DEFINE T == ProcessSignals(sig, TRUE)
             U == IF NothingToProcess(sig, TRUE) THEN Restored(T) ELSE T
  <2>1. Runs /\ sig.nested = 1 /\ asked' = asked /\ panic' = panic
    BY SMTT(60), <1>0, <1>14, FieldsLemma DEF SigReturn
  <2>2. T \in SigState /\ T.at \in {"user", "dead"} /\ T.nested \in 0 .. 2
        /\ (T.at = "user" => T.nested > 0) /\ (T.at = "dead" => T.nested = 0)
    <3>1. sig.at = "user"
      BY Zenon, <2>1 DEF Runs
    <3>2. /\ T \in SigState /\ Kept(T, sig)
          /\ IsDead(T) \/ (T.at = sig.at /\ (Same(T, sig) \/ Handled(T, sig)))
      BY <1>0, ProcessLemma, ZenonT(60)
    <3>3. T.nested \in 0 .. 2
      BY ZenonT(60), <3>2, FieldsLemma
    <3> HIDE DEF T
    <3>. QED
      BY <2>1, <3>1, <3>2, <3>3 DEF IsDead, Same, Handled
  <2>3. sig' = IF U.at = "dead" THEN U ELSE Unnested(U)
    BY Zenon, <1>14 DEF SigReturn, Unnested
  <2> HIDE DEF T
  <2>4. /\ U \in SigState /\ U.at \in {"user", "dead"} /\ U.nested \in 0 .. 2
        /\ (U.at = "user" => U.nested > 0) /\ (U.at = "dead" => U.nested = 0)
    BY ZenonT(60), <2>2, RestoredLemma
  <2> HIDE DEF U
  <2>5. AwakeState(sig')
    <3>1. CASE U.at = "dead"
      BY <2>3, <2>4, <3>1 DEF AwakeState
    <3>2. CASE U.at = "user"
      BY <2>3, <2>4, <3>2, UnnestLemma DEF AwakeState
    <3>. QED
      BY Zenon, <2>4, <3>1, <3>2
  <2>. QED
    BY Zenon, <1>0, <1>2, <2>1, <2>5
<1>15. CASE SigExecve
  <2> DEFINE T == Execved(sig)
  <2>1. T \in SigState /\ T.nested = 0
    BY Zenon, <1>0, SigExecveLemma
  <2>2. sig' = Returns(T) /\ asked' = sig.mask /\ panic' = panic
    BY Zenon, <1>15 DEF SigExecve, Execved
  <2> HIDE DEF T
  <2>3. sig.mask \subseteq Sig
    BY Zenon, <1>0, FieldsLemma
  <2>. QED
    BY SMTT(60), <1>0, <1>2, <1>3, <2>1, <2>2, <2>3
<1>16. CASE UNCHANGED sigVars
  BY Zenon, <1>0, <1>16 DEF sigVars, SleepInv, SigTypeOK, NoSleepOnSignal
<1>17. /\ ExecveCall \in Call
       /\ \A s \in Caught \cup Ignored, h \in Action : <<s, h>> \in Call
       /\ "CUSTOM" \in Action /\ "IGN" \in Action /\ "DFL" \in Action
  BY Zenon, SigLemma DEF Call, Action
<1>19. ASSUME NEW b \in BOOLEAN, MoveStack(b) PROVE SleepInv'
  <2>1. sig' = MovedStack(sig, b) /\ asked' = asked /\ panic' = panic /\ sig.at = "user"
    BY Zenon, <1>19 DEF MoveStack, MovedStack, Runs
  <2>2. sig' \in SigState /\ sig'.at = sig.at /\ sig'.nested = sig.nested
    BY Zenon, <1>0, <2>1, MoveStackLemma
  <2>. QED
    BY Zenon, <1>0, <1>2, <2>1, <2>2 DEF AwakeState
<1>18. CASE SigNext
  BY ZenonT(60), <1>5, <1>6, <1>7, <1>8, <1>9, <1>10, <1>11, <1>12, <1>13, <1>14, <1>15, <1>17, <1>18,
     <1>19
     DEF SigNext, Action
<1>. QED
  BY Zenon, <1>16, <1>18

(* The state at the entry of a system call keeps the invariant, and the    *)
(* faults and sigsuspend are as they were.                                 *)
LEMMA EnteredGood ==
  ASSUME NothingHides, SigInv, Runs
  PROVE  /\ GoodState(Entered, asked)
         /\ Entered.at # "dead" => Entered.fault = sig.fault
<1>1. /\ sig \in SigState /\ sig.nested <= 1 /\ GoodState(sig, asked) /\ sig.at = "user"
  BY Zenon DEF SigInv, SleepInv, SigTypeOK, GoodState, Runs
<1>2. Ready(sig, asked)
  BY Zenon, <1>1, GoodIsReady
<1>3. GoodState(Entered, asked)
  BY Zenon, <1>1, <1>2, ReturnsGood DEF Entered
<1>4. IsDead(Entered) \/ Same(Entered, sig) \/ (Handled(Entered, sig) /\ sig.nested = 0)
  BY Zenon, <1>1, ReturnsLemma DEF Entered
<1>5. sig.nested = 0 => sig.fault = {}
  BY Zenon, <1>1 DEF GoodState, MaskInv
<1>. QED
  BY Zenon, <1>3, <1>4, <1>5 DEF IsDead, Same, Handled

(* The invariant of a state without faults to deliver depends on the mask  *)
(* asked for only as far as the program is alive.                          *)
LEMMA DeadGood ==
  ASSUME NEW T, NEW a, GoodState(T, a), T.at = "dead", NEW b \in SUBSET Blocked
  PROVE  GoodState(T, b)
BY Zenon DEF GoodState, ProgramInv, MaskInv

(* A signal can become pending only if it is deadly or caught. *)
LEMMA PendsLemma ==
  ASSUME NEW T, NEW a, ProgramInv(T, a), NEW s \in Sig, Pends(T, s)
  PROVE  s \in Deadly \cup Caught
BY Zenon DEF ProgramInv, Pends

(* sys_rt_sigprocmask leaves the process ready. *)
LEMMA MaskReady ==
  ASSUME NEW T \in SigState, NEW a, GoodState(T, a), T.at = "user", NEW m \in SUBSET Blocked
  PROVE  Ready(Masked(T, m), IF T.suspend THEN a ELSE m \ T.fault)
<1> DEFINE R == Masked(T, m)
           c == IF T.suspend THEN a ELSE m \ T.fault
<1>1. m \in SUBSET Sig
  BY Zenon, SigLemma
<1>2. /\ R.pending = T.pending /\ R.at = T.at
      /\ R.fault = T.fault /\ R.mask = m /\ R.oldMask = T.oldMask
      /\ R.suspend = T.suspend /\ R.nested = T.nested /\ R.handler = T.handler
      /\ R.call = T.call
  BY Zenon, <1>1, ProcMaskLemma
<1> HIDE DEF R
<1>3. a \subseteq Blocked /\ c \subseteq Blocked
  BY Zenon DEF GoodState, ProgramInv
<1>4. ProgramInv(R, c)
  <2> HIDE DEF c
  <2>. QED
    BY Zenon, <1>2, <1>3 DEF GoodState, ProgramInv
<1>5. /\ T.fault \subseteq T.pending
      /\ T.nested = 0 => T.fault = {}
      /\ T.suspend => a = T.oldMask
      /\ T.nested = 0 => ~T.suspend
  BY Zenon DEF GoodState, MaskInv
<1>. QED
  BY ZenonT(60), <1>2, <1>4, <1>5 DEF Ready, R

(* sys_rt_sigsuspend keeps the invariant: the mask in force is put aside.  *)
LEMMA SuspendGood ==
  ASSUME NothingHides, NEW T \in SigState, NEW a, GoodState(T, a), T.at = "user",
         T.nested = 0, NEW m \in SUBSET Blocked
  PROVE  GoodState(Sleeps(Suspended(T, m)), a)
<1> DEFINE R == Suspended(T, m)
<1>1. m \in SUBSET Sig
  BY Zenon, SigLemma
<1>2. /\ R \in SigState /\ R.pending = T.pending /\ R.at = T.at
      /\ R.fault = T.fault /\ R.mask = m /\ R.oldMask = T.mask
      /\ R.suspend = TRUE /\ R.nested = T.nested /\ R.handler = T.handler
      /\ R.call = T.call
  BY ZenonT(60), <1>1, SuspendLemma
<1> HIDE DEF R
<1>3. T.fault = {} /\ ~T.suspend /\ a = T.mask
  BY Zenon DEF GoodState, MaskInv
<1>4. ProgramInv(R, a)
  BY Zenon, <1>2 DEF GoodState, ProgramInv
<1>5. R.nested <= 1
  BY <1>2
<1>6. R.fault = {} /\ a = R.oldMask /\ R.suspend
  BY Zenon, <1>2, <1>3
<1>7. GoodState(Sleeps(R), a)
  BY Zenon, <1>2, <1>4, <1>5, <1>6, SleepsGood
<1>. QED
  BY Zenon, <1>7 DEF R

(* sys_rt_sigreturn keeps the invariant: the last handler to return gives  *)
(* back the mask that sigsuspend put aside, and leaves no fault behind.    *)
LEMMA SigReturnGood ==
  ASSUME NothingHides, NEW T \in SigState, NEW a, GoodState(T, a), T.at = "user",
         T.nested = 1
  PROVE  LET P == ProcessSignals(T, TRUE)
             U == IF NothingToProcess(T, TRUE) THEN Restored(P) ELSE P
         IN  GoodState(IF U.at = "dead" THEN U ELSE Unnested(U), a)
<1> DEFINE P == ProcessSignals(T, TRUE)
           U == IF NothingToProcess(T, TRUE) THEN Restored(P) ELSE P
           G == IF U.at = "dead" THEN U ELSE Unnested(U)
<1>1. /\ P \in SigState /\ Kept(P, T)
      /\ \/ IsDead(P)
         \/ NothingToProcess(T, TRUE) /\ P.at = T.at /\ Same(P, T)
         \/ ~NothingToProcess(T, TRUE) /\ P.at = T.at /\ Handled(P, T)
  <2>1. T.nested <= 1 /\ TRUE \in BOOLEAN
    OBVIOUS
  <2>. QED
    BY <2>1, ProcessLemma, Zenon
<1>2. /\ T.fault \subseteq T.pending \ T.mask
      /\ a = IF T.suspend THEN T.oldMask ELSE T.mask
      /\ T.mask \ T.fault = T.mask
  BY Zenon DEF GoodState, MaskInv
<1>3. ProgramInv(T, a)
  BY Zenon DEF GoodState
<1>4. NothingToProcess(T, TRUE) => T.pending \subseteq T.mask
  BY ZenonT(60), <1>3, NothingLemma DEF Exhausted, ProgramInv
<1> HIDE DEF P
<1>5. LET R == Restored(P)
      IN  /\ R \in SigState /\ R.pending = P.pending /\ R.at = P.at
          /\ R.fault = P.fault /\ R.mask = (IF P.suspend THEN P.oldMask ELSE P.mask)
          /\ R.oldMask = (IF P.suspend THEN {} ELSE P.oldMask)
          /\ ~R.suspend /\ R.nested = P.nested /\ R.handler = P.handler
          /\ R.call = P.call
  BY ZenonT(60), <1>1, RestoredLemma
<1>6. ASSUME IsDead(P) PROVE GoodState(G, a)
  <2>1. /\ U.at = "dead" /\ U.pending = {} /\ U.fault = {} /\ U.call = NoCall
        /\ U.handler = T.handler /\ U.mask \subseteq Blocked /\ U.oldMask \subseteq Blocked
    BY ZenonT(60), <1>1, <1>3, <1>5, <1>6 DEF IsDead, Kept, ProgramInv
  <2> HIDE DEF U
  <2>2. \A x : NoCall # <<x, "CUSTOM">>
    BY Zenon DEF NoCall
  <2>3. GoodState(U, a)
    BY ZenonT(60), <1>3, <2>1, <2>2 DEF GoodState, ProgramInv, MaskInv
  <2>. QED
    BY Zenon, <2>1, <2>3
<1>7. ASSUME NEW V \in SigState, V.nested > 0, V.at # "dead", U = V,
             GoodState(Unnested(V), a)
      PROVE  GoodState(G, a)
  BY ZenonT(60), <1>7
<1>8. ASSUME NothingToProcess(T, TRUE), P.at = T.at, Same(P, T)
      PROVE  GoodState(G, a)
  <2> DEFINE V == Restored(P)
  <2>1. /\ V \in SigState /\ V.pending = T.pending /\ V.at = "user" /\ V.fault = T.fault
        /\ V.mask = a /\ V.oldMask \subseteq Blocked /\ ~V.suspend /\ V.nested = 1
        /\ V.handler = T.handler /\ V.call = T.call
    BY ZenonT(60), <1>1, <1>2, <1>3, <1>5, <1>8 DEF Same, Kept, ProgramInv
  <2>2. U = V
    BY Zenon, <1>8
  <2> HIDE DEF V
  <2>3. LET R == Unnested(V)
        IN  /\ R.pending = V.pending /\ R.at = V.at
            /\ R.fault = V.fault /\ R.mask = V.mask /\ R.oldMask = V.oldMask
            /\ R.suspend = V.suspend /\ R.nested = V.nested - 1 /\ R.handler = V.handler
            /\ R.call = V.call
    BY SMTT(60), <2>1, UnnestLemma
  <2>4. T.fault = {}
    BY Zenon, <1>2, <1>4, <1>8
  <2>5. GoodState(Unnested(V), a)
    BY ZenonT(60), <1>3, <2>1, <2>3, <2>4 DEF GoodState, ProgramInv, MaskInv
  <2> HIDE DEF U
  <2>. QED
    BY Zenon, <1>7, <2>1, <2>2, <2>5
<1>9. ASSUME ~NothingToProcess(T, TRUE), P.at = T.at, Handled(P, T)
      PROVE  GoodState(G, a)
  <2>1. /\ P.at = "user" /\ P.mask = T.mask /\ P.oldMask = T.oldMask
        /\ P.suspend = T.suspend /\ P.nested = 2 /\ P.handler = T.handler
        /\ P.call = T.call
    <3>1. P.nested = T.nested + 1 /\ P.call = T.call
      BY Zenon, <1>9 DEF Handled
    <3>2. /\ P.mask = T.mask \ T.fault /\ P.oldMask = T.oldMask
          /\ P.suspend = T.suspend /\ P.handler = T.handler
      BY Zenon, <1>1 DEF Kept
    <3>. QED
      BY SMTT(60), <1>2, <1>9, <3>1, <3>2
  <2>2. P.pending \subseteq T.pending /\ P.fault \subseteq P.pending \ T.mask
        /\ P.fault \subseteq T.fault
    BY Zenon, <1>2, <1>9 DEF Handled
  <2>3. U = P
    BY Zenon, <1>9
  <2>4. LET R == Unnested(P)
        IN  /\ R.pending = P.pending /\ R.at = P.at
            /\ R.fault = P.fault /\ R.mask = P.mask /\ R.oldMask = P.oldMask
            /\ R.suspend = P.suspend /\ R.nested = P.nested - 1 /\ R.handler = P.handler
            /\ R.call = P.call
    BY SMTT(60), <1>1, <2>1, UnnestLemma
  <2>5. Unnested(P).nested # 0
    BY SMTT(60), <2>1, <2>4
  <2>6. GoodState(Unnested(P), a)
    <3> DEFINE R == Unnested(P)
    <3>1. /\ R.pending \subseteq T.pending /\ R.fault \subseteq R.pending \ R.mask
          /\ R.fault \subseteq T.fault /\ R.mask = T.mask /\ R.oldMask = T.oldMask
          /\ R.suspend = T.suspend /\ R.nested # 0 /\ R.handler = T.handler /\ R.call = T.call
      BY Zenon, <2>1, <2>2, <2>4, <2>5
    <3> HIDE DEF R
    <3>2. ProgramInv(R, a)
      BY Zenon, <1>3, <3>1 DEF ProgramInv
    <3>3. MaskInv(R, a)
      BY Zenon, <1>2, <3>1 DEF MaskInv
    <3>. QED
      BY Zenon, <3>2, <3>3 DEF GoodState, R
  <2> HIDE DEF U
  <2>. QED
    BY Zenon, <1>1, <1>7, <2>1, <2>3, <2>6
<1>10. GoodState(G, a)
  <2> HIDE DEF G
  <2>. QED
    BY ZenonT(60), <1>1, <1>6, <1>8, <1>9
<1>. QED
  BY ZenonT(60), <1>10 DEF P

(* Every step keeps the invariant of the masks, if nothing hides. *)
LEMMA SigStep ==
  ASSUME NothingHides
  PROVE  SigInv /\ [SigNext]_sigVars => SigInv'
<1> SUFFICES ASSUME SigInv, [SigNext]_sigVars PROVE SigInv'
  OBVIOUS
<1>0. /\ sig \in SigState /\ sig.nested <= 1 /\ GoodState(sig, asked) /\ ~panic
  BY Zenon DEF SigInv, SleepInv, SigTypeOK, GoodState
<1>1. ASSUME GoodState(sig', asked'), ~panic' PROVE SigInv'
  <2>1. SleepInv'
    BY Zenon, SleepStep DEF SigInv
  <2>. QED
    BY Zenon, <1>1, <2>1 DEF SigInv, GoodState
<1>2. ASSUME Runs PROVE AwakeState(Entered) /\ Entered.at \in {"user", "dead"}
        /\ Entered.suspend = sig.suspend
  BY ZenonT(60), <1>2, EnteredLemma DEF SigInv
<1>3. ASSUME Runs PROVE GoodState(Entered, asked)
        /\ (Entered.at = "user" => Entered.fault = sig.fault)
  BY Zenon, <1>3, EnteredGood
<1>4. sig.at \in Place /\ sig.nested \in 0 .. 2 /\ sig.suspend \in BOOLEAN
  BY Zenon, <1>0, FieldsLemma
<1>5. ASSUME NEW s \in Sig, Arrive(s) PROVE SigInv'
  <2> DEFINE l == CASE sig.at = "user" -> "preempted"
                    [] sig.at = "paused" /\ s \notin sig.mask -> "awake"
                    [] OTHER -> sig.at
  <2>1. /\ l \in Place
        /\ l \in {"user", "preempted", "call"} <=> sig.at \in {"user", "preempted", "call"}
    BY Zenon, <1>4 DEF Place
  <2>2. sig' = Pended(sig, s, l) /\ asked' = asked /\ panic' = panic /\ sig.at # "dead"
    BY Zenon, <1>5 DEF Arrive, Pended
  <2> HIDE DEF l
  <2>3. /\ sig'.pending = sig.pending \cup {s} /\ sig'.at = l
        /\ sig'.fault = sig.fault /\ sig'.mask = sig.mask /\ sig'.oldMask = sig.oldMask
        /\ sig'.suspend = sig.suspend /\ sig'.nested = sig.nested
        /\ sig'.handler = sig.handler /\ sig'.call = sig.call
    BY ZenonT(60), <1>0, <2>1, <2>2, ArriveLemma
  <2>4. s \in Deadly \cup Caught
    BY Zenon, <1>0, <1>5, PendsLemma DEF GoodState, Arrive
  <2>5. ProgramInv(sig', asked')
    BY ZenonT(60), <1>0, <2>2, <2>3, <2>4 DEF GoodState, ProgramInv
  <2>6. MaskInv(sig', asked')
    <3>1. MaskInv(sig, asked)
      BY Zenon, <1>0 DEF GoodState
    <3>2. sig'.fault \subseteq sig'.pending \ sig'.mask
      BY Zenon, <2>3, <3>1 DEF MaskInv
    <3>3. /\ sig'.nested = 0 => sig'.fault = {}
          /\ asked' = IF sig'.suspend THEN sig'.oldMask ELSE sig'.mask
      BY ZenonT(60), <2>2, <2>3, <3>1 DEF MaskInv
    <3>4. sig'.at \in {"user", "preempted", "call"} /\ sig'.nested = 0 => ~sig'.suspend
      BY ZenonT(60), <2>1, <2>2, <2>3, <3>1 DEF MaskInv
    <3>. QED
      BY ZenonT(60), <3>2, <3>3, <3>4 DEF MaskInv
  <2>. QED
    BY Zenon, <1>0, <1>1, <2>2, <2>5, <2>6 DEF GoodState
<1>6. ASSUME NEW s \in HwFault, Fault(s) PROVE SigInv'
  <2>1. s \in Sig
    BY Zenon, SigLemma
  <2> DEFINE T == Faulted(sig, s)
  <2>2. /\ T \in SigState /\ T.pending = sig.pending \cup {s} /\ T.at = sig.at
        /\ T.fault = sig.fault \cup {s} /\ T.mask = sig.mask /\ T.oldMask = sig.oldMask
        /\ T.suspend = sig.suspend /\ T.nested = sig.nested /\ T.handler = sig.handler
        /\ T.call = sig.call
    BY Zenon, <1>0, <2>1, FaultLemma
  <2> DEFINE a == IF sig.suspend THEN asked ELSE asked \ {s}
  <2>3. sig' = Returns(T) /\ asked' = a /\ panic' = panic /\ sig.at = "user"
    BY Zenon, <1>6 DEF Fault, Faulted, Runs
  <2> HIDE DEF T
  <2>4. s \in Deadly \cup Caught
    BY Zenon, <1>0, <1>6, <2>1, PendsLemma DEF GoodState, Fault
  <2>5. /\ sig.fault \subseteq sig.pending \ sig.mask
        /\ asked = IF sig.suspend THEN sig.oldMask ELSE sig.mask
        /\ sig.nested = 0 => ~sig.suspend
    <3>1. MaskInv(sig, asked)
      BY Zenon, <1>0 DEF GoodState
    <3>. QED
      BY ZenonT(60), <2>3, <3>1 DEF MaskInv
  <2>6. ProgramInv(T, a)
    <3>1. a \subseteq asked
      BY Zenon
    <3> HIDE DEF a
    <3>. QED
      BY Zenon, <1>0, <2>2, <2>4, <3>1 DEF GoodState, ProgramInv
  <2>7. Ready(T, a)
    <3>1. a = IF T.suspend THEN T.oldMask ELSE T.mask \ T.fault
      BY Zenon, <2>2, <2>5
    <3> HIDE DEF a
    <3>. QED
      BY Zenon, <2>2, <2>5, <2>6, <3>1 DEF Ready
  <2> HIDE DEF a
  <2>8. GoodState(Returns(T), a)
    BY Zenon, <1>0, <2>2, <2>7, ReturnsGood
  <2>. QED
    BY Zenon, <1>0, <1>1, <2>3, <2>8
<1>7. ASSUME NEW c \in Call, \A s \in Sig : c = <<s, "CUSTOM">> => s \in Caught, Begin(c)
      PROVE  SigInv'
  <2>1. Runs /\ asked' = asked /\ panic' = panic
    BY Zenon, <1>7 DEF Begin, Syscall
  <2>2. CASE sig' = Entered
    BY Zenon, <1>0, <1>1, <1>3, <2>1, <2>2
  <2>3. CASE sig' = Began(Entered, c) /\ Entered.at # "dead"
    <3>1. /\ sig'.pending = Entered.pending /\ sig'.at = "call"
          /\ sig'.fault = Entered.fault /\ sig'.mask = Entered.mask
          /\ sig'.oldMask = Entered.oldMask /\ sig'.suspend = Entered.suspend
          /\ sig'.nested = Entered.nested /\ sig'.handler = Entered.handler
          /\ sig'.call = c
      BY Zenon, <1>2, <2>1, <2>3, BeginLemma DEF AwakeState
    <3>2. Entered.at = "user"
      BY Zenon, <1>2, <2>1, <2>3
    <3>3. ProgramInv(sig', asked')
      BY Zenon, <1>3, <1>7, <2>1, <3>1 DEF GoodState, ProgramInv
    <3>4. MaskInv(sig', asked')
      BY ZenonT(60), <1>3, <2>1, <3>1, <3>2 DEF GoodState, MaskInv
    <3>. QED
      BY Zenon, <1>0, <1>1, <2>1, <3>3, <3>4 DEF GoodState
  <2>. QED
    BY Zenon, <1>7, <2>2, <2>3 DEF Begin, Syscall, Began
<1>8. ASSUME NEW s \in Sig, NEW h \in Action, SigAction(s, h) PROVE SigInv'
  <2> DEFINE T == Acted(sig, s, h)
  <2>1. /\ T \in SigState /\ T.pending = sig.pending /\ T.at = sig.at
        /\ T.fault = sig.fault /\ T.mask = sig.mask /\ T.oldMask = sig.oldMask
        /\ T.suspend = sig.suspend /\ T.nested = sig.nested
        /\ T.handler = [sig.handler EXCEPT ![s] = h] /\ T.call = NoCall
    BY Zenon, <1>0, ActionLemma
  <2>2. /\ sig' = Returns(T) /\ asked' = asked /\ panic' = panic
        /\ sig.at = "call" /\ sig.call = <<s, h>>
    BY Zenon, <1>8 DEF SigAction, Acted, InCall
  <2> HIDE DEF T
  <2>3. \A r \in Sig : T.handler[r] = "CUSTOM" => r \in Caught
    <3>1. h = "CUSTOM" => s \in Caught
      BY Zenon, <1>0, <2>2 DEF GoodState, ProgramInv
    <3>2. \A r \in Sig : sig.handler[r] = "CUSTOM" => r \in Caught
      BY Zenon, <1>0 DEF GoodState, ProgramInv
    <3>3. sig.handler \in [Sig -> Action]
      BY Zenon, <1>0, FieldsLemma
    <3>. QED
      BY Zenon, <2>1, <3>1, <3>2, <3>3
  <2>4. \A x : NoCall # <<x, "CUSTOM">>
    BY Zenon DEF NoCall
  <2>5. ProgramInv(T, asked)
    BY Zenon, <1>0, <2>1, <2>3, <2>4 DEF GoodState, ProgramInv
  <2>6. Ready(sig, asked)
    BY Zenon, <1>0, <2>2, GoodIsReady
  <2>7. Ready(T, asked)
    BY Zenon, <2>1, <2>5, <2>6 DEF Ready
  <2>8. GoodState(Returns(T), asked)
    BY Zenon, <1>0, <2>1, <2>7, ReturnsGood
  <2>. QED
    BY Zenon, <1>0, <1>1, <2>2, <2>8
<1>9. ASSUME NEW m \in SUBSET Blocked, SigProcMask(m) PROVE SigInv'
  <2>1. m \in SUBSET Sig
    BY Zenon, SigLemma
  <2>2. Runs /\ asked' = (IF sig.suspend THEN asked ELSE m \ sig.fault) /\ panic' = panic
    BY Zenon, <1>9 DEF SigProcMask, Syscall
  <2>3. asked' \subseteq Blocked
    BY Zenon, <1>0, <2>2 DEF GoodState, ProgramInv
  <2>4. CASE sig' = Entered /\ Entered.at = "dead"
    BY Zenon, <1>0, <1>1, <1>3, <2>2, <2>3, <2>4, DeadGood
  <2>5. CASE sig' = Returns(Masked(Entered, m)) /\ Entered.at # "dead"
    <3> DEFINE T == Masked(Entered, m)
    <3>1. Entered.at = "user" /\ Entered \in SigState /\ Entered.nested <= 1
      BY Zenon, <1>2, <2>2, <2>5 DEF AwakeState
    <3>2. Entered.suspend = sig.suspend /\ Entered.fault = sig.fault
      BY Zenon, <1>2, <1>3, <2>2, <3>1
    <3>3. Ready(T, asked')
      BY Zenon, <1>3, <2>2, <3>1, <3>2, MaskReady
    <3>4. T \in SigState /\ T.nested <= 1
      BY Zenon, <2>1, <3>1, ProcMaskLemma
    <3> HIDE DEF T
    <3>5. GoodState(Returns(T), asked')
      BY Zenon, <3>3, <3>4, ReturnsGood
    <3>. QED
      BY Zenon, <1>0, <1>1, <2>2, <2>5, <3>5 DEF T
  <2>. QED
    BY Zenon, <1>9, <2>4, <2>5 DEF SigProcMask, Syscall, Masked
<1>10. ASSUME NEW m \in SUBSET Blocked, SigSuspend(m) PROVE SigInv'
  <2>1. /\ Runs /\ asked' = asked
        /\ panic' = (Entered.at = "user" /\ Entered.nested = 0 /\ Entered.suspend)
    BY Zenon, <1>10 DEF SigSuspend, Syscall
  <2>2. GoodState(Entered, asked) /\ Entered \in SigState /\ Entered.nested <= 1
        /\ Entered.at \in {"user", "dead"}
    BY Zenon, <1>2, <1>3, <2>1 DEF AwakeState
  <2>3. ~panic'
    BY ZenonT(60), <2>1, <2>2 DEF GoodState, MaskInv
  <2>4. CASE sig' = Entered
    BY Zenon, <1>1, <2>1, <2>2, <2>3, <2>4
  <2>5. CASE sig' = Returns(Entered) /\ Entered.at # "dead"
    <3>1. Ready(Entered, asked)
      BY Zenon, <2>2, <2>5, GoodIsReady
    <3>2. GoodState(Returns(Entered), asked)
      BY Zenon, <2>2, <3>1, ReturnsGood
    <3>. QED
      BY Zenon, <1>1, <2>1, <2>3, <2>5, <3>2
  <2>6. CASE sig' = Sleeps(Suspended(Entered, m)) /\ Entered.at # "dead"
             /\ ~(Entered.nested > 0)
    <3>1. Entered.nested = 0 /\ Entered.at = "user"
      BY <2>2, <2>6, FieldsLemma
    <3>2. GoodState(Sleeps(Suspended(Entered, m)), asked)
      BY Zenon, <2>2, <3>1, SuspendGood
    <3>. QED
      BY Zenon, <1>1, <2>1, <2>3, <2>6, <3>2
  <2>. QED
    BY Zenon, <1>10, <2>4, <2>5, <2>6 DEF SigSuspend, Syscall, Suspends, Suspended
<1>11. CASE Resume
  <2>1. sig.at = "preempted" /\ sig' = Returns(sig) /\ asked' = asked /\ panic' = panic
    BY Zenon, <1>11 DEF Resume
  <2>2. Ready(sig, asked)
    BY Zenon, <1>0, <2>1, GoodIsReady
  <2>. QED
    BY Zenon, <1>0, <1>1, <2>1, <2>2, ReturnsGood
<1>12. ASSUME NEW T \in SigState, T.nested <= 1, GoodState(T, asked), T.at # "dead"
       PROVE  GoodState(Sleeps(T), asked)
  BY Zenon, <1>12, SleepsGood DEF GoodState, MaskInv
<1>13. CASE Pause
  <2>1. /\ Runs /\ asked' = asked /\ panic' = panic
        /\ sig' = Entered \/ (sig' = Sleeps(Entered) /\ Entered.at # "dead")
    BY Zenon, <1>13 DEF Pause, Syscall
  <2>2. GoodState(Entered, asked) /\ Entered \in SigState /\ Entered.nested <= 1
    BY Zenon, <1>2, <1>3, <2>1 DEF AwakeState
  <2>3. GoodState(sig', asked)
    BY Zenon, <1>12, <2>1, <2>2
  <2>. QED
    BY Zenon, <1>0, <1>1, <2>1, <2>3
<1>14. CASE PauseWakes
  <2>1. sig.at = "awake" /\ sig' = Sleeps(sig) /\ asked' = asked /\ panic' = panic
    BY Zenon, <1>14 DEF PauseWakes
  <2>2. GoodState(sig', asked)
    BY Zenon, <1>0, <1>12, <2>1
  <2>. QED
    BY Zenon, <1>0, <1>1, <2>1, <2>2
<1>15. CASE SigReturn
  <2>1. sig.at = "user" /\ sig.nested = 1 /\ asked' = asked /\ panic' = panic
    BY <1>0, <1>4, <1>15 DEF SigReturn, Runs
  <2>2. GoodState(sig', asked)
    BY ZenonT(60), <1>0, <1>15, <2>1, SigReturnGood DEF SigReturn, Unnested
  <2>. QED
    BY Zenon, <1>0, <1>1, <2>1, <2>2
<1>16. CASE SigExecve
  <2> DEFINE T == Execved(sig)
  <2>1. /\ T \in SigState /\ T.pending = sig.pending /\ T.at = sig.at
        /\ T.fault = sig.fault /\ T.mask = sig.mask /\ T.oldMask = {}
        /\ ~T.suspend /\ T.nested = 0
        /\ \A s \in Sig : T.handler[s] # "CUSTOM"
        /\ T.call = NoCall
    BY Zenon, <1>0, SigExecveLemma
  <2>2. sig' = Returns(T) /\ asked' = sig.mask /\ panic' = panic
    BY Zenon, <1>16 DEF SigExecve, Execved
  <2> HIDE DEF T
  <2>3. \A x : NoCall # <<x, "CUSTOM">>
    BY Zenon DEF NoCall
  <2>4. ProgramInv(T, sig.mask)
    BY Zenon, <1>0, <2>1, <2>3 DEF GoodState, ProgramInv
  <2>5. sig.fault \subseteq sig.pending /\ sig.mask = sig.mask \ sig.fault
    BY Zenon, <1>0 DEF GoodState, MaskInv
  <2>6. Ready(T, sig.mask)
    BY Zenon, <2>1, <2>4, <2>5 DEF Ready
  <2>7. T.nested <= 1
    BY SMTT(60), <2>1
  <2>8. GoodState(Returns(T), sig.mask)
    BY Zenon, <2>1, <2>6, <2>7, ReturnsGood
  <2>. QED
    BY Zenon, <1>0, <1>1, <2>2, <2>8
<1>17. CASE UNCHANGED sigVars
  BY Zenon, <1>0, <1>1, <1>17 DEF sigVars
<1>18. ASSUME NEW s \in Sig, NEW h \in Action, h = "CUSTOM" => s \in Caught, Begin(<<s, h>>)
       PROVE  SigInv'
  <2>1. <<s, h>> \in Call
    BY Zenon DEF Call
  <2>2. \A r \in Sig : <<s, h>> = <<r, "CUSTOM">> => r \in Caught
    BY Zenon, <1>18
  <2>. QED
    BY Zenon, <1>7, <1>18, <2>1, <2>2
<1>19. ASSUME Begin(ExecveCall) PROVE SigInv'
  <2>1. ExecveCall \in Call /\ \A r \in Sig : ExecveCall # <<r, "CUSTOM">>
    BY Zenon DEF Call, ExecveCall
  <2>. QED
    BY Zenon, <1>7, <1>19, <2>1
<1>21. ASSUME NEW b \in BOOLEAN, MoveStack(b) PROVE SigInv'
  <2>1. sig' = MovedStack(sig, b) /\ asked' = asked /\ panic' = panic
    BY Zenon, <1>21 DEF MoveStack, MovedStack
  <2>2. /\ sig'.pending = sig.pending /\ sig'.at = sig.at
        /\ sig'.fault = sig.fault /\ sig'.mask = sig.mask /\ sig'.oldMask = sig.oldMask
        /\ sig'.suspend = sig.suspend /\ sig'.nested = sig.nested
        /\ sig'.handler = sig.handler /\ sig'.call = sig.call
    BY Zenon, <1>0, <2>1, MoveStackLemma
  <2>3. GoodState(sig', asked')
    BY Zenon, <1>0, <2>1, <2>2 DEF GoodState, ProgramInv, MaskInv
  <2>. QED
    BY Zenon, <1>0, <1>1, <2>1, <2>3
<1>20. CASE SigNext
  <2>1. Caught \subseteq Sig /\ Ignored \subseteq Sig
    BY Zenon, SigLemma
  <2>. QED
    BY ZenonT(60), <1>5, <1>6, <1>8, <1>9, <1>10, <1>11, <1>13, <1>14, <1>15, <1>16, <1>18, <1>19,
       <1>20, <1>21, <2>1 DEF SigNext, Action
<1>. QED
  BY Zenon, <1>17, <1>20

(***************************************************************************)
(* When no handler is under way nobody sleeps in pause or sigsuspend on a  *)
(* signal that could be delivered, whatever signals the program masks,     *)
(* catches and ignores: between the change of the mask and the sleep no    *)
(* signal is lost.                                                         *)
(***************************************************************************)
THEOREM SignalsNoSleepOnSignal == SigSpec => []NoSleepOnSignal
<1>1. SigInit => SleepInv
  BY Zenon, SigInitInv DEF SigInv
<1>2. SleepInv => NoSleepOnSignal
  BY Zenon DEF SleepInv
<1>. QED
  BY <1>1, <1>2, SleepStep, PTL DEF SigSpec

(* The state of the signals has its type, and handlers do not nest.        *)
THEOREM SignalsTypeCorrect == SigSpec => [](SigTypeOK /\ sig.nested <= 1)
<1>1. SigInit => SleepInv
  BY Zenon, SigInitInv DEF SigInv
<1>2. SleepInv => SigTypeOK /\ sig.nested <= 1
  BY Zenon DEF SleepInv
<1>. QED
  BY <1>1, <1>2, SleepStep, PTL DEF SigSpec

(***************************************************************************)
(* The program runs with the mask it asked for and sigsuspend's is gone    *)
(* once the handlers have returned, for all the signals it masks and       *)
(* catches that do not hide each other: NothingHides, without which        *)
(* sys_rt_sigreturn gives the mask back with a signal still pending.       *)
(***************************************************************************)
THEOREM SignalsMaskIsRestored ==
  ASSUME NothingHides
  PROVE  SigSpec => []MaskIsRestored
<1>1. SigInit => SigInv
  BY Zenon, SigInitInv
<1>2. SigInv => MaskIsRestored
  BY Zenon DEF SigInv, SleepInv, MaskInv, MaskIsRestored
<1>3. SigInv /\ [SigNext]_sigVars => SigInv'
  BY SMTT(60), SigStep
<1>. QED
  BY <1>1, <1>2, <1>3, PTL DEF SigSpec

(***************************************************************************)
(* sigsuspend never finds the mask of an earlier one in force: its         *)
(* assertion holds (signal.c:782) under NothingHides.                      *)
(***************************************************************************)
THEOREM SignalsNoNestedSuspend ==
  ASSUME NothingHides
  PROVE  SigSpec => []NoNestedSuspend
<1>1. SigInit => SigInv
  BY Zenon, SigInitInv
<1>2. SigInv => NoNestedSuspend
  BY Zenon DEF SigInv, NoNestedSuspend
<1>3. SigInv /\ [SigNext]_sigVars => SigInv'
  BY Zenon, SigStep
<1>. QED
  BY <1>1, <1>2, <1>3, PTL DEF SigSpec
=============================================================================
