----------------------------- MODULE JobProofs -----------------------------
(***************************************************************************)
(* What runs beside the API: the stream queue, for any items, passes,      *)
(* priorities and number of crashes, and the service supervisor, for any   *)
(* services, commands and pids.                                            *)
(*                                                                         *)
(* The stream queue implements the work queue.  Its invariant says in      *)
(* whose hands an item is and which status the pass at it has left it      *)
(* with; each step of the queue is then a step of the work queue, or none. *)
(***************************************************************************)
EXTENDS StreamQueue, Orchestrator, TLAPS

-----------------------------------------------------------------------------
(* The stream queue                                                        *)

Admin ==
    \/ \E i \in Items : Add(i) \/ Remove(i) \/ Retry(i)
    \/ Clear
    \/ CmdQueue

(* The invariant holds at the start. *)
LEMMA InitInv == Init => IInv
  BY MaxCrashesType DEF Init, IInv, TypeOK, OneHolder, AsLeft, ProcessingIsHeld, Holds, Statuses

(* What is cleared is given by a set of statuses. *)
LEMMA Deletes ==
  Clear \/ CmdQueue => \E ss \in SUBSET (Statuses \cup {"completed"}) : DeleteRows(ss)
  BY DEF Clear, CmdQueue, Statuses

(* An administrator's operation keeps the types. *)
LEMMA AdminType == TypeOK /\ Admin => TypeOK'
<1> SUFFICES ASSUME TypeOK, Admin PROVE TypeOK'
  OBVIOUS
<1>1. ASSUME NEW i \in Items, Add(i) PROVE TypeOK'
  BY <1>1 DEF TypeOK, Add, Statuses
<1>2. ASSUME NEW i \in Items, Remove(i) PROVE TypeOK'
  BY <1>2 DEF TypeOK, Remove, Statuses
<1>3. ASSUME NEW i \in Items, Retry(i) PROVE TypeOK'
  BY <1>3 DEF TypeOK, Retry, Statuses
<1>4. ASSUME NEW ss \in SUBSET (Statuses \cup {"completed"}), DeleteRows(ss) PROVE TypeOK'
  BY <1>4 DEF TypeOK, DeleteRows, Statuses
<1> QED
  BY <1>1, <1>2, <1>3, <1>4, Deletes DEF Admin

(* So does a step of a pass, and its death. *)
LEMMA PassType ==
  ASSUME TypeOK, NEW p \in Passes, Pass(p) \/ Crash(p)
  PROVE  TypeOK'
<1>1. CASE BeginPass(p)
  BY <1>1 DEF TypeOK, BeginPass
<1>2. CASE Claim(p)
  <2> PICK i \in todo[p] : \/ Row(i) /\ status' = [status EXCEPT ![i] = "processing"] /\ Reach(p, i)
                           \/ Abort(p) /\ UNCHANGED status
    BY <1>2 DEF Claim
  <2> i \in Items
    BY DEF TypeOK
  <2> QED
    BY <1>2 DEF TypeOK, Claim, Reach, Abort, Statuses
<1>3. CASE Finish(p)
  <2> PICK i \in cur[p] :
         \/ /\ Row(i) /\ status' = [status EXCEPT ![i] = "failed"]
            /\ cur' = [cur EXCEPT ![p] = {}] /\ UNCHANGED todo
         \/ Abort(p) /\ UNCHANGED status
    BY <1>3 DEF Finish
  <2> QED
    BY <1>3 DEF TypeOK, Finish, Abort, Statuses
<1>4. CASE Crash(p)
  BY <1>4, MaxCrashesType DEF TypeOK, Crash, Abort
<1> QED
  BY <1>1, <1>2, <1>3, <1>4 DEF Pass

(* Administrators move no item between passes; what they change under a    *)
(* pass is disturbed or gone.                                              *)
LEMMA AdminKeeps == IInv /\ Admin => OneHolder' /\ AsLeft' /\ ProcessingIsHeld'
<1> SUFFICES ASSUME IInv, Admin PROVE OneHolder' /\ AsLeft' /\ ProcessingIsHeld'
  OBVIOUS
<1> USE DEF IInv, TypeOK, OneHolder, AsLeft, ProcessingIsHeld, Holds, Statuses, Row
<1>1. ASSUME NEW i \in Items, Add(i) PROVE OneHolder' /\ AsLeft' /\ ProcessingIsHeld'
  BY <1>1 DEF Add
<1>2. ASSUME NEW i \in Items, Remove(i) PROVE OneHolder' /\ AsLeft' /\ ProcessingIsHeld'
  BY <1>2 DEF Remove
<1>3. ASSUME NEW i \in Items, Retry(i) PROVE OneHolder' /\ AsLeft' /\ ProcessingIsHeld'
  BY <1>3 DEF Retry, Held
<1>4. ASSUME NEW ss \in SUBSET (Statuses \cup {"completed"}), DeleteRows(ss)
      PROVE  OneHolder' /\ AsLeft' /\ ProcessingIsHeld'
  BY <1>4 DEF DeleteRows
<1> QED
  BY <1>1, <1>2, <1>3, <1>4, Deletes DEF Admin

(* A pass takes what nobody holds, or disturbs it, and leaves the status   *)
(* the invariant names.                                                    *)
LEMMA PassKeeps ==
  ASSUME IInv, NEW p \in Passes, Pass(p) \/ Crash(p)
  PROVE  OneHolder' /\ AsLeft' /\ ProcessingIsHeld'
<1> USE DEF IInv, TypeOK, OneHolder, AsLeft, ProcessingIsHeld, Holds, Statuses, Row
<1>1. CASE BeginPass(p)
  BY <1>1 DEF BeginPass, Idle, Held
<1>2. CASE Claim(p)
  <2> PICK i \in todo[p] : \/ Row(i) /\ status' = [status EXCEPT ![i] = "processing"] /\ Reach(p, i)
                           \/ Abort(p) /\ UNCHANGED status
    BY <1>2 DEF Claim
  <2> i \in Items /\ cur[p] = {} /\ UNCHANGED <<abandoned, disturbed>>
    BY <1>2 DEF Claim
  <2>1. CASE status' = [status EXCEPT ![i] = "processing"] /\ Reach(p, i)
    BY <2>1 DEF Reach
  <2>2. CASE Abort(p) /\ UNCHANGED status
    BY <2>2 DEF Abort
  <2> QED
    BY <2>1, <2>2
<1>3. CASE Finish(p)
  <2> PICK i \in cur[p] :
         \/ /\ Row(i) /\ status' = [status EXCEPT ![i] = "failed"]
            /\ cur' = [cur EXCEPT ![p] = {}] /\ UNCHANGED todo
         \/ ~Row(i) /\ Abort(p) /\ UNCHANGED status
    BY <1>3 DEF Finish
  <2> i \in Items /\ cur[p] = {i} /\ UNCHANGED <<abandoned, disturbed>>
    BY <1>3 DEF Finish
  <2>1. CASE status' = [status EXCEPT ![i] = "failed"] /\ cur' = [cur EXCEPT ![p] = {}] /\ UNCHANGED todo
    BY <2>1
  <2>2. CASE ~Row(i) /\ Abort(p) /\ UNCHANGED status
    BY <2>2 DEF Abort
  <2> QED
    BY <2>1, <2>2
<1>4. CASE Crash(p)
  BY <1>4 DEF Crash, Abort
<1> QED
  BY <1>1, <1>2, <1>3, <1>4 DEF Pass

(* Every step keeps the invariant. *)
LEMMA NextInv == IInv /\ [Next]_vars => IInv'
<1> SUFFICES ASSUME IInv, [Next]_vars PROVE IInv'
  OBVIOUS
<1>1. CASE Admin
  BY <1>1, AdminType, AdminKeeps DEF IInv
<1>2. ASSUME NEW p \in Passes, Pass(p) \/ Crash(p) PROVE IInv'
  <2>1. TypeOK'
    BY <1>2, PassType DEF IInv
  <2>2. OneHolder' /\ AsLeft' /\ ProcessingIsHeld'
    BY <1>2, PassKeeps
  <2> QED
    BY <2>1, <2>2 DEF IInv
<1>3. CASE UNCHANGED vars
  BY <1>3 DEF vars, IInv, TypeOK, OneHolder, AsLeft, ProcessingIsHeld, Holds
<1> QED
  BY <1>1, <1>2, <1>3 DEF Next, Admin

(* The inductive invariant of the queue holds in every state. *)
THEOREM Invariance == Spec => []IInv
  BY InitInv, NextInv, PTL DEF Spec

(* The rows, the lists of the passes and the items at hand have their      *)
(* types.                                                                  *)
THEOREM TypeCorrect == Spec => []TypeOK
<1> IInv => TypeOK
  BY DEF IInv
<1> QED
  BY Invariance, PTL

(* An item stays processing only while a pass is at it, or after the pass  *)
(* at it died.                                                             *)
THEOREM NothingHangs == Spec => []ProcessingIsHeld
<1> IInv => ProcessingIsHeld
  BY DEF IInv
<1> QED
  BY Invariance, PTL

-----------------------------------------------------------------------------

(* The work queue's life of an item, and its change, under the refinement  *)
(* mapping.                                                                *)
LEMMA LifeIs ==
  ASSUME TypeOK, NEW i \in Items
  PROVE  /\ Queue!Present(i) <=> Row(i)
         /\ Life(status[i]) = "waiting" <=> status[i] = "pending"
         /\ Life(status[i]) = "working" <=> status[i] = "processing"
         /\ Life(status[i]) = "unborn" <=> status[i] = "absent"
  BY DEF TypeOK, Statuses, Queue!Present, Life, Row

(* A status written to an item is a step of its life. *)
LEMMA BecomesLife ==
  ASSUME TypeOK, TypeOK', NEW i \in Items, NEW s \in Statuses,
         status' = [status EXCEPT ![i] = s]
  PROVE  /\ s = "pending" => Queue!Become(i, "waiting")
         /\ s = "processing" => Queue!Become(i, "working")
         /\ s = "failed" => Queue!Become(i, "done")
  BY DEF TypeOK, Statuses, Queue!Become, Life

(* So is the deletion of items. *)
LEMMA WithdrawsLife ==
  ASSUME TypeOK, TypeOK', UNCHANGED disturbed, NEW items \in SUBSET Items,
         \A i \in items : Row(i),
         status' = [i \in Items |-> IF i \in items THEN "gone" ELSE status[i]]
  PROVE  Queue!Withdraw(items)
  BY LifeIs DEF TypeOK, Statuses, Queue!Withdraw, Life

(* Every operation of an administrator is one of the work queue. *)
LEMMA AdminRefines == IInv /\ IInv' /\ Admin => Queue!Next \/ UNCHANGED Queue!vars
<1> SUFFICES ASSUME IInv, IInv', Admin PROVE Queue!Next \/ UNCHANGED Queue!vars
  OBVIOUS
<1> TypeOK /\ TypeOK'
  BY DEF IInv
<1>1. ASSUME NEW i \in Items, Add(i) PROVE Queue!Submit(i)
  BY <1>1, BecomesLife, LifeIs DEF Add, Queue!Submit, Statuses
<1>2. ASSUME NEW i \in Items, Remove(i) PROVE Queue!Withdraw({i})
  <2> status' = [j \in Items |-> IF j \in {i} THEN "gone" ELSE status[j]]
    BY <1>2 DEF Remove, TypeOK
  <2> QED
    BY <1>2, WithdrawsLife DEF Remove
<1>3. ASSUME NEW i \in Items, Retry(i) PROVE Queue!Resubmit(i)
  BY <1>3, BecomesLife, LifeIs DEF Retry, Queue!Resubmit, Statuses
<1>4. ASSUME NEW ss \in SUBSET (Statuses \cup {"completed"}), DeleteRows(ss)
      PROVE  \E items \in SUBSET Items : Queue!Withdraw(items)
  <2> DEFINE items == {i \in Items : status[i] \in ss}
  <2>1. \A i \in items : Row(i)
    BY DEF Row, TypeOK, Statuses
  <2>2. status' = [i \in Items |-> IF i \in items THEN "gone" ELSE status[i]]
    BY <1>4 DEF DeleteRows
  <2>3. Queue!Withdraw(items)
    BY <1>4, <2>1, <2>2, WithdrawsLife DEF DeleteRows
  <2> QED
    BY <2>3
<1> QED
  BY <1>1, <1>2, <1>3, <1>4, Deletes DEF Admin, Queue!Next

(* Every step of a pass is one of the work queue, or none of its business. *)
LEMMA PassRefines ==
  ASSUME IInv, IInv', NEW p \in Passes, Pass(p) \/ Crash(p)
  PROVE  Queue!Next \/ UNCHANGED Queue!vars
<1> TypeOK /\ TypeOK'
  BY DEF IInv
<1>0. ASSUME UNCHANGED <<status, disturbed>> PROVE UNCHANGED Queue!vars
  BY <1>0 DEF Queue!vars, Life
<1>1. CASE BeginPass(p)
  <2> DEFINE items == {i \in Items : status[i] = "pending" /\ Held(i)}
  <2>1. disturbed' = disturbed \cup items /\ UNCHANGED status
    BY <1>1 DEF BeginPass
  <2>2. Queue!HandOut(items)
    BY <2>1, LifeIs DEF Queue!HandOut, Life
  <2> QED
    BY <2>2 DEF Queue!Next
<1>2. CASE Claim(p)
  <2> PICK i \in todo[p] : \/ Row(i) /\ status' = [status EXCEPT ![i] = "processing"]
                           \/ UNCHANGED status
    BY <1>2 DEF Claim
  <2> i \in Items /\ UNCHANGED disturbed
    BY <1>2 DEF Claim, TypeOK
  <2>1. CASE Row(i) /\ status' = [status EXCEPT ![i] = "processing"]
    <3>1. status[i] = "pending" \/ i \in disturbed
      BY <2>1 DEF IInv, AsLeft, Row, Statuses
    <3>2. Queue!Take(i)
      BY <2>1, <3>1, LifeIs, BecomesLife DEF Queue!Take, Statuses
    <3> QED
      BY <3>2 DEF Queue!Next
  <2> QED
    BY <1>0, <2>1
<1>3. CASE Finish(p)
  <2> PICK i \in cur[p] : \/ Row(i) /\ status' = [status EXCEPT ![i] = "failed"]
                          \/ UNCHANGED status
    BY <1>3 DEF Finish
  <2> i \in Items /\ UNCHANGED disturbed
    BY <1>3 DEF Finish, TypeOK
  <2>1. CASE Row(i) /\ status' = [status EXCEPT ![i] = "failed"]
    <3>1. status[i] = "processing" \/ i \in disturbed
      BY <2>1 DEF IInv, AsLeft, Row, Statuses
    <3>2. Queue!Finish(i)
      BY <2>1, <3>1, LifeIs, BecomesLife DEF Queue!Finish, Statuses
    <3> QED
      BY <3>2 DEF Queue!Next
  <2> QED
    BY <1>0, <2>1
<1>4. CASE Crash(p)
  BY <1>0, <1>4 DEF Crash
<1> QED
  BY <1>1, <1>2, <1>3, <1>4 DEF Pass

(* The initial states are those of the abstract queue. *)
LEMMA InitRefines == Init => Queue!Init
  BY DEF Init, Queue!Init, Life

(* Every step is a step of the abstract queue or changes nothing of it. *)
LEMMA NextRefines == IInv /\ IInv' /\ [Next]_vars => [Queue!Next]_(Queue!vars)
<1> SUFFICES ASSUME IInv, IInv', [Next]_vars PROVE Queue!Next \/ UNCHANGED Queue!vars
  OBVIOUS
<1>1. CASE Admin
  BY <1>1, AdminRefines
<1>2. ASSUME NEW p \in Passes, Pass(p) \/ Crash(p) PROVE Queue!Next \/ UNCHANGED Queue!vars
  BY <1>2, PassRefines
<1>3. CASE UNCHANGED vars
  BY <1>3 DEF vars, Queue!vars, Life
<1> QED
  BY <1>1, <1>2, <1>3 DEF Next, Admin

(* Whatever items there are, however many passes run and die, the queue of *)
(* the database behaves like the work queue: legal moves, nothing removed  *)
(* comes back, once handed out is once worked on.                          *)
THEOREM Implements == Spec => ImplementsSafety
<1>1. Init => Queue!Init
  BY InitRefines
<1>2. IInv /\ IInv' /\ [Next]_vars => [Queue!Next]_(Queue!vars)
  BY NextRefines
<1> QED
  BY <1>1, <1>2, Invariance, PTL DEF Spec, ImplementsSafety, Queue!Safety

-----------------------------------------------------------------------------
(* The supervisor                                                          *)

(* The invariant holds at the start: nothing runs and nothing is recorded. *)
LEMMA SupervisorInitHolds == SupervisorInit => SupervisorIInv
<1> SUFFICES ASSUME SupervisorInit PROVE SupervisorIInv
  OBVIOUS
<1> USE DEF SupervisorInit
<1>1. SupervisorTypeOK
  BY DEF SupervisorTypeOK, PidFile, NoFile, Pcs, Kinds, Troubles
<1>2. Ours = {}
  BY NoneAndForeign DEF Ours
<1>3. OneAtATime /\ LoopRecords
  BY DEF OneAtATime, LoopRecords, At
<1>4. Found
  BY <1>2 DEF Found, Names, At
<1>5. RecordsHold
  BY NoneAndForeign DEF RecordsHold, NoFile
<1> QED
  BY <1>1, <1>3, <1>4, <1>5 DEF SupervisorIInv

(* A command that ends keeps the types of what is its own. *)
CliOK ==
    /\ pc    \in [Commands -> Pcs]
    /\ kind  \in [Commands -> Kinds]
    /\ state \in [Commands -> PidFile]
    /\ left  \in [Commands -> SUBSET Services]
    /\ turn   \in [Commands -> Services \cup {None}]

(* The end of a command, and of stop_all. *)
LEMMA EndsTyped ==
  ASSUME SupervisorTypeOK, NEW c \in Commands, End(c) \/ Stopped(c)
  PROVE  CliOK'
<1>1. NoFile \in PidFile
  BY DEF NoFile, PidFile
<1> QED
  BY <1>1 DEF SupervisorTypeOK, CliOK, End, Stopped, Goto, Pcs

(* Every step keeps the types. *)
LEMMA TypeKept ==
  ASSUME SupervisorIInv, SupervisorNext
  PROVE  SupervisorTypeOK'
<1>0. SupervisorTypeOK /\ NoFile \in PidFile
  BY DEF SupervisorIInv, NoFile, PidFile
<1> USE DEF SupervisorTypeOK
<1>1. ASSUME NEW c \in Commands, NEW k \in Kinds, Begin(c, k) PROVE SupervisorTypeOK'
  BY <1>0, <1>1 DEF Begin, Goto, Pcs, Kinds, Troubles
<1>2. ASSUME NEW c \in Commands, Step(c) PROVE SupervisorTypeOK'
  <2>1. CASE ReadState(c)
    BY <1>0, <2>1, CriticalIsService DEF ReadState, Goto, Pcs, Scope
  <2>2. CASE PlanNext(c)
    BY <1>0, <2>2 DEF PlanNext, Goto, Pcs
  <2>3. CASE Spawn(c)
    <3>1. PICK p \in Pids : /\ runs' = [runs EXCEPT ![p] = turn[c]]
                            /\ state' = [state EXCEPT ![c][turn[c]] = p]
                            /\ trouble' \in {trouble, trouble \cup {"reuse"}}
      BY <2>3 DEF Spawn
    <3>2. runs' \in [Pids -> Services \cup {None, Foreign}]
      BY <1>0, <3>1
    <3>3. state' \in [Commands -> PidFile]
      BY <1>0, <3>1 DEF PidFile
    <3>4. trouble' \in SUBSET Troubles
      BY <1>0, <3>1 DEF Troubles
    <3> QED
      BY <1>0, <2>3, <3>2, <3>3, <3>4 DEF Spawn, Goto, Pcs
  <2>4. CASE Truncate(c)
    BY <1>0, <2>4 DEF Truncate, Goto, Pcs
  <2>5. CASE Write(c)
    BY <1>0, <2>5, EndsTyped DEF Write, CliOK
  <2>6. CASE StopRead(c)
    <3>1. CASE Stopped(c)
      BY <1>0, <2>6, <3>1, EndsTyped DEF StopRead, CliOK
    <3>2. CASE ~Stopped(c)
      BY <1>0, <2>6, <3>2 DEF StopRead, Goto, Pcs
    <3> QED
      BY <3>1, <3>2
  <2>7. CASE Signal(c)
    <3>1. UNCHANGED <<file, runs, kind, state, turn, trouble>>
      BY <2>7 DEF Signal
    <3>2. pc' \in [Commands -> Pcs] /\ left' \in [Commands -> SUBSET Services]
      BY <1>0, <2>7 DEF Signal, Goto, Pcs
    <3>3. CASE UNCHANGED termed
      BY <1>0, <3>1, <3>2, <3>3
    <3>4. CASE \E s \in left[c] : termed' = termed \cup {p \in {state[c][s]} : IsAlive(p)}
      <4>1. PICK s \in left[c] : termed' = termed \cup {p \in {state[c][s]} : IsAlive(p)}
        BY <3>4
      <4>2. state[c][s] \in Pids \cup {None}
        BY <1>0, <4>1 DEF PidFile
      <4>3. termed' \in SUBSET Pids
        BY <1>0, <4>1, <4>2 DEF IsAlive
      <4> QED
        BY <1>0, <3>1, <3>2, <4>3
    <3> QED
      BY <2>7, <3>3, <3>4 DEF Signal
  <2>8. CASE Unlink(c)
    BY <1>0, <2>8, EndsTyped DEF Unlink, CliOK
  <2> QED
    BY <1>2, <2>1, <2>2, <2>3, <2>4, <2>5, <2>6, <2>7, <2>8 DEF Step
<1>3. ASSUME NEW c \in Commands, Die(c) PROVE SupervisorTypeOK'
  <2>1. CliOK'
    BY <1>0, <1>3, EndsTyped DEF Die
  <2>2. trouble' \in SUBSET Troubles
    BY <1>0, <1>3 DEF Die, Troubles
  <2> QED
    BY <1>0, <1>3, <2>1, <2>2 DEF Die, CliOK
<1>4. ASSUME NEW p \in Pids, Exit(p) \/ ForeignStart(p) PROVE SupervisorTypeOK'
  BY <1>0, <1>4 DEF Exit, ForeignStart, cli, Troubles
<1>5. CASE Reboot
  BY <1>0, <1>5 DEF Reboot, Pcs, Troubles
<1> QED
  BY <1>1, <1>2, <1>3, <1>4, <1>5 DEF SupervisorNext

(* What has gone wrong is not forgotten. *)
LEMMA TroubleStays == SupervisorNext => trouble \subseteq trouble'
  BY DEF SupervisorNext, Begin, Step, ReadState, PlanNext, Spawn, Truncate, Write, StopRead, Signal,
     Unlink, Die, Exit, ForeignStart, Reboot

(* A step of a command leaves the others where they are. *)
LEMMA OthersStay ==
  ASSUME SupervisorTypeOK, NEW c \in Commands, Step(c) \/ Die(c)
  PROVE  /\ ~At(c, "idle")
         /\ \A d \in Commands \ {c} : pc'[d] = pc[d] /\ state'[d] = state[d]
                                     /\ left'[d] = left[d] /\ turn'[d] = turn[d]
         /\ UNCHANGED kind
<1> USE DEF SupervisorTypeOK, At, Goto, End, Stopped
<1>1. CASE ReadState(c) \/ PlanNext(c) \/ Truncate(c) \/ Signal(c)
  BY <1>1 DEF ReadState, PlanNext, Truncate, Signal
<1>2. CASE Spawn(c)
  BY <1>2 DEF Spawn
<1>3. CASE StopRead(c)
  BY <1>3 DEF StopRead
<1>4. CASE Write(c) \/ Unlink(c) \/ Die(c)
  BY <1>4 DEF Write, Unlink, Die
<1> QED
  BY <1>1, <1>2, <1>3, <1>4 DEF Step

(* While nothing overlaps a single command is at work. *)
LEMMA OneKept ==
  ASSUME SupervisorIInv, SupervisorNext
  PROVE  OneAtATime'
<1> SUFFICES ASSUME Calm' PROVE (\A c, d \in Commands : ~At(c, "idle") /\ ~At(d, "idle") => c = d)'
  BY DEF OneAtATime
<1>0. Calm /\ SupervisorTypeOK /\ \A c, d \in Commands : ~At(c, "idle") /\ ~At(d, "idle") => c = d
  BY TroubleStays DEF Calm, SupervisorIInv, OneAtATime
<1>1. ASSUME NEW c \in Commands, NEW k \in Kinds, Begin(c, k)
      PROVE  (\A e, d \in Commands : ~At(e, "idle") /\ ~At(d, "idle") => e = d)'
  <2>1. \A d \in Commands : At(d, "idle")
    BY <1>1 DEF Begin, Calm
  <2> QED
    BY <1>0, <1>1, <2>1 DEF Begin, Goto, At, SupervisorTypeOK
<1>2. ASSUME NEW c \in Commands, Step(c) \/ Die(c)
      PROVE  (\A e, d \in Commands : ~At(e, "idle") /\ ~At(d, "idle") => e = d)'
  BY <1>0, <1>2, OthersStay DEF At
<1>3. ASSUME NEW p \in Pids, Exit(p) \/ ForeignStart(p)
      PROVE  (\A e, d \in Commands : ~At(e, "idle") /\ ~At(d, "idle") => e = d)'
  BY <1>0, <1>3 DEF Exit, ForeignStart, cli, At
<1>4. CASE Reboot
  BY <1>4 DEF Reboot, At
<1> QED
  BY <1>1, <1>2, <1>3, <1>4 DEF SupervisorNext

(* What the invariant says of the one command at work, at the step it has  *)
(* reached.                                                                *)
FoundBy(c) ==
    /\ pc[c] \in {"idle", "read", "stop_read"} => Names(file)
    /\ pc[c] \in {"plan", "spawn", "truncate", "write", "signal"} => Names(state[c])
    /\ At(c, "spawn") => \A p \in Ours : runs[p] # turn[c]
    /\ At(c, "signal") => \A p \in Ours : runs[p] \in left[c]
    /\ At(c, "unlink") => Ours = {}

(* With one command at work, the map that names the processes is the one   *)
(* of its step.                                                            *)
LEMMA FoundIsFoundBy ==
  ASSUME NEW c \in Commands, \A d \in Commands \ {c} : At(d, "idle")
  PROVE  Calm => (Found <=> FoundBy(c))
<1>1. (\A d \in Commands : At(d, "idle")) <=> At(c, "idle")
  OBVIOUS
<1>2. \A d \in Commands \ {c} : pc[d] = "idle"
  BY DEF At
<1> QED
  BY <1>1, <1>2 DEF Found, FoundBy, At

(* Each step of the command hands the processes from one map to the next.  *)
LEMMA FoundStep ==
  ASSUME SupervisorTypeOK, NEW c \in Commands, FoundBy(c), Step(c)
  PROVE  FoundBy(c)'
<1> USE DEF SupervisorTypeOK, At, Goto, Names
<1>1. ASSUME UNCHANGED <<runs, termed>> PROVE Ours' = Ours
  BY <1>1 DEF Ours
<1>2. CASE ReadState(c)
  <2>1. Ours' = Ours /\ UNCHANGED <<runs, termed, file>>
    BY <1>1, <1>2 DEF ReadState
  <2>2. pc[c] = "read" /\ pc'[c] = "plan" /\ state'[c] = file
    BY <1>2 DEF ReadState
  <2> QED
    BY <2>1, <2>2 DEF FoundBy
<1>3. CASE PlanNext(c)
  <2>1. Ours' = Ours /\ UNCHANGED <<runs, termed, file, state>> /\ pc[c] = "plan"
    BY <1>1, <1>3 DEF PlanNext
  <2>2. CASE pc'[c] \in {"plan", "truncate"}
    BY <2>1, <2>2 DEF FoundBy
  <2>3. CASE pc'[c] \notin {"plan", "truncate"}
    <3>1. pc'[c] = "spawn" /\ turn'[c] \in Services /\ ~IsAlive(state[c][turn'[c]])
      BY <1>3, <2>3 DEF PlanNext
    <3>2. \A p \in Ours : runs[p] # turn'[c]
      BY <2>1, <3>1, NoneAndForeign DEF FoundBy, IsAlive, Ours
    <3> QED
      BY <2>1, <3>1, <3>2 DEF FoundBy
  <2> QED
    BY <2>2, <2>3
<1>4. CASE Spawn(c)
  <2>1. PICK p \in Pids : /\ runs' = [runs EXCEPT ![p] = turn[c]]
                          /\ state' = [state EXCEPT ![c][turn[c]] = p]
    BY <1>4 DEF Spawn
  <2>2. pc[c] = "spawn" /\ pc'[c] = "plan" /\ UNCHANGED termed
    BY <1>4 DEF Spawn
  <2>3. ASSUME NEW q \in Ours' PROVE state'[c][runs'[q]] = q
    <3>1. CASE q = p
      BY <2>1, <2>3, <3>1 DEF Ours, PidFile
    <3>2. CASE q # p
      <4>1. q \in Ours /\ runs'[q] = runs[q] /\ runs[q] \in Services
        BY <2>1, <2>2, <2>3, <3>2 DEF Ours
      <4>2. runs[q] # turn[c] /\ state[c][runs[q]] = q
        BY <2>2, <4>1 DEF FoundBy
      <4> QED
        BY <2>1, <4>1, <4>2 DEF PidFile
    <3> QED
      BY <3>1, <3>2
  <2> QED
    BY <2>2, <2>3 DEF FoundBy
<1>5. CASE Truncate(c)
  <2>1. Ours' = Ours /\ UNCHANGED <<runs, state>> /\ pc[c] = "truncate" /\ pc'[c] = "write"
    BY <1>1, <1>5 DEF Truncate
  <2> QED
    BY <2>1 DEF FoundBy
<1>6. CASE Write(c)
  <2>1. /\ Ours' = Ours /\ UNCHANGED runs
        /\ pc[c] = "write" /\ pc'[c] = "idle" /\ file' = state[c]
    BY <1>1, <1>6 DEF Write, End
  <2> QED
    BY <2>1 DEF FoundBy
<1>7. CASE StopRead(c)
  <2>1. Ours' = Ours /\ UNCHANGED <<runs, file>> /\ pc[c] = "stop_read"
    BY <1>1, <1>7 DEF StopRead
  <2>2. Names(file)
    BY <2>1 DEF FoundBy
  <2>3. CASE Stopped(c)
    <3>1. pc'[c] \in {"read", "idle"}
      BY <2>3 DEF Stopped, End
    <3> QED
      BY <2>1, <2>2, <3>1 DEF FoundBy
  <2>4. CASE ~Stopped(c)
    <3>1. /\ pc'[c] = "signal" /\ state'[c] = file
          /\ left'[c] = {s \in Services : file[s] # None}
      BY <1>7, <2>4 DEF StopRead
    <3>2. \A p \in Ours : runs[p] \in left'[c]
      BY <2>2, <3>1, NoneAndForeign DEF Ours
    <3> QED
      BY <2>1, <2>2, <3>1, <3>2 DEF FoundBy
  <2> QED
    BY <2>3, <2>4
<1>8. CASE Signal(c)
  <2>1. UNCHANGED <<runs, file, state>> /\ pc[c] = "signal"
    BY <1>8 DEF Signal
  <2>2. CASE left[c] = {} /\ pc'[c] = "unlink" /\ UNCHANGED termed
    BY <1>1, <2>1, <2>2 DEF FoundBy
  <2>3. CASE ~(left[c] = {} /\ pc'[c] = "unlink" /\ UNCHANGED termed)
    <3>1. PICK s \in left[c] : /\ left' = [left EXCEPT ![c] = @ \ {s}]
                               /\ termed' = termed \cup {p \in {state[c][s]} : IsAlive(p)}
                               /\ UNCHANGED pc
      BY <1>8, <2>3 DEF Signal
    <3>2. ASSUME NEW p \in Ours'
          PROVE  p \in Ours /\ runs[p] # s
      <4>1. p \in Ours /\ runs[p] \in Services
        BY <2>1, <3>1, <3>2 DEF Ours
      <4>2. state[c][runs[p]] = p /\ IsAlive(p)
        BY <2>1, <4>1, NoneAndForeign DEF FoundBy, IsAlive, Ours
      <4>3. p \notin termed'
        BY <3>2 DEF Ours
      <4> QED
        BY <3>1, <4>1, <4>2, <4>3
    <3> QED
      BY <2>1, <3>1, <3>2 DEF FoundBy
  <2> QED
    BY <2>2, <2>3
<1>9. CASE Unlink(c)
  <2>1. Ours' = Ours /\ pc[c] = "unlink" /\ pc'[c] \in {"read", "idle"}
    BY <1>1, <1>9 DEF Unlink, Stopped, End
  <2> QED
    BY <2>1 DEF FoundBy
<1> QED
  BY <1>2, <1>3, <1>4, <1>5, <1>6, <1>7, <1>8, <1>9 DEF Step

(* Every process of ours stays named. *)
LEMMA FoundKept ==
  ASSUME SupervisorIInv, OneAtATime', SupervisorNext
  PROVE  Found'
<1> SUFFICES ASSUME Calm' PROVE Found'
  BY DEF Found
<1>0. Calm /\ SupervisorTypeOK /\ Found
  BY TroubleStays DEF Calm, SupervisorIInv
<1>1. ASSUME NEW c \in Commands, NEW k \in Kinds, Begin(c, k) PROVE Found'
  <2>1. \A d \in Commands : At(d, "idle")
    BY <1>1 DEF Begin, Calm
  <2>2. Names(file)
    BY <1>0, <2>1 DEF Found
  <2>3. /\ Ours' = Ours /\ UNCHANGED <<runs, file>>
        /\ pc'[c] \in {"read", "stop_read"}
        /\ \A d \in Commands \ {c} : pc'[d] = "idle"
    BY <1>0, <1>1, <2>1 DEF Begin, Goto, Ours, At, SupervisorTypeOK
  <2> QED
    BY <2>2, <2>3 DEF Found, Names, At
<1>2. ASSUME NEW c \in Commands, Step(c) PROVE Found'
  <2>1. \A d \in Commands \ {c} : At(d, "idle") /\ At(d, "idle")'
    BY <1>0, <1>2, OthersStay DEF SupervisorIInv, OneAtATime, At
  <2>2. FoundBy(c)
    BY <1>0, <2>1, FoundIsFoundBy
  <2>3. FoundBy(c)'
    BY <1>0, <1>2, <2>2, FoundStep
  <2> QED
    BY <2>1, <2>3 DEF Found, FoundBy, At
<1>3. ASSUME NEW c \in Commands, Die(c) PROVE Found'
  BY <1>3 DEF Die, Calm
<1>4. ASSUME NEW p \in Pids, Exit(p) \/ ForeignStart(p) PROVE Found'
  <2>1. \A q \in Ours' : q \in Ours /\ runs'[q] = runs[q]
    BY <1>0, <1>4, NoneAndForeign DEF Exit, ForeignStart, Ours, SupervisorTypeOK
  <2>2. UNCHANGED <<file, pc, state, left, turn>>
    BY <1>4 DEF Exit, ForeignStart, cli
  <2> QED
    BY <1>0, <2>1, <2>2 DEF Found, Names, At
<1>5. CASE Reboot
  <2>1. Ours' = {}
    BY <1>5, NoneAndForeign DEF Reboot, Ours
  <2> QED
    BY <1>5, <2>1 DEF Reboot, Found, Names, At
<1> QED
  BY <1>1, <1>2, <1>3, <1>4, <1>5 DEF SupervisorNext

(* A record names its service or a dead process, unless a recorded pid is  *)
(* given away.                                                             *)
LEMMA RecordsKept ==
  ASSUME SupervisorIInv, SupervisorNext
  PROVE  RecordsHold'
<1> DEFINE Named(s, p) == file[s] = p \/ \E c \in Commands : state[c][s] = p
<1> SUFFICES ASSUME "reuse" \notin trouble', NEW s \in Services, NEW p \in Pids, Named(s, p)'
             PROVE  runs'[p] \in {s, None}
  BY DEF RecordsHold
<1>0. /\ "reuse" \notin trouble /\ SupervisorTypeOK
      /\ \A t \in Services, q \in Pids : Named(t, q) => runs[q] \in {t, None}
  BY TroubleStays DEF SupervisorIInv, RecordsHold
<1> USE DEF SupervisorTypeOK
<1>a. ASSUME UNCHANGED runs, Named(s, p) PROVE runs'[p] \in {s, None}
  BY <1>0, <1>a
<1>b. NoFile[s] # p
  BY NoneAndForeign DEF NoFile
<1> HIDE DEF Named
<1>1. ASSUME NEW c \in Commands, NEW k \in Kinds, Begin(c, k) PROVE runs'[p] \in {s, None}
  BY <1>a, <1>1 DEF Begin, Named
<1>2. ASSUME NEW c \in Commands, Step(c), ~Spawn(c) PROVE runs'[p] \in {s, None}
  <2>1. CASE ReadState(c)
    BY <1>0, <1>a, <2>1 DEF ReadState, Named
  <2>2. CASE PlanNext(c) \/ Signal(c)
    BY <1>a, <2>2 DEF PlanNext, Signal, Named
  <2>3. CASE Truncate(c)
    BY <1>a, <1>b, <2>3 DEF Truncate, Named
  <2>4. CASE Write(c)
    BY <1>0, <1>a, <1>b, <2>4 DEF Write, End, Named
  <2>5. CASE StopRead(c)
    BY <1>0, <1>a, <1>b, <2>5 DEF StopRead, Stopped, End, Named
  <2>6. CASE Unlink(c)
    BY <1>0, <1>a, <1>b, <2>6 DEF Unlink, Stopped, End, Named
  <2> QED
    BY <1>2, <2>1, <2>2, <2>3, <2>4, <2>5, <2>6 DEF Step
<1>3. ASSUME NEW c \in Commands, Spawn(c) PROVE runs'[p] \in {s, None}
  <2>1. PICK q \in Pids : /\ runs[q] = None
                          /\ runs' = [runs EXCEPT ![q] = turn[c]]
                          /\ state' = [state EXCEPT ![c][turn[c]] = q]
                          /\ trouble' = trouble \cup IF RecordedBeyond(q, c) THEN {"reuse"} ELSE {}
    BY <1>3 DEF Spawn
  <2>2. ~RecordedBeyond(q, c) /\ UNCHANGED file
    BY <1>3, <2>1 DEF Spawn
  <2>3. CASE s = turn[c] /\ p = q
    BY <1>0, <2>1, <2>3
  <2>4. CASE ~(s = turn[c] /\ p = q)
    <3>1. Named(s, p)
      <4>1. CASE file[s] = p
        BY <4>1 DEF Named
      <4>2. CASE \E d \in Commands : state'[d][s] = p
        <5>1. PICK d \in Commands : state'[d][s] = p
          BY <4>2
        <5>2. state'[d][s] = state[d][s] \/ (d = c /\ s = turn[c] /\ state'[d][s] = q)
          BY <1>0, <2>1 DEF PidFile
        <5> QED
          BY <2>4, <5>1, <5>2 DEF Named
      <4> QED
        BY <2>2, <4>1, <4>2 DEF Named
    <3>2. p = q => s = turn[c]
      BY <2>2, <3>1 DEF RecordedBeyond, Named
    <3> QED
      BY <1>0, <2>1, <2>4, <3>1, <3>2
  <2> QED
    BY <2>3, <2>4
<1>4. ASSUME NEW q \in Pids, Exit(q) PROVE runs'[p] \in {s, None}
  BY <1>0, <1>4 DEF Exit, cli, Named
<1>5. ASSUME NEW q \in Pids, ForeignStart(q) PROVE runs'[p] \in {s, None}
  <2>1. Named(s, p)
    BY <1>5 DEF ForeignStart, cli, Named
  <2>2. p # q
    BY <1>5, <2>1 DEF ForeignStart, Recorded, Named
  <2> QED
    BY <1>0, <1>5, <2>1, <2>2 DEF ForeignStart
<1>6. ASSUME NEW c \in Commands, Die(c) PROVE runs'[p] \in {s, None}
  BY <1>0, <1>a, <1>b, <1>6 DEF Die, End, Named
<1>7. CASE Reboot
  BY <1>7 DEF Reboot
<1> QED
  BY <1>1, <1>2, <1>3, <1>4, <1>5, <1>6, <1>7 DEF SupervisorNext

(* What the loop of command c has passed has an entry. *)
Passed(c) ==
    /\ At(c, "spawn") => turn[c] \in Services
    /\ pc[c] \in {"truncate", "write"} => left[c] = {}
    /\ pc[c] \in {"plan", "spawn", "truncate", "write"} =>
          \A s \in Scope(c) \ left[c] : state[c][s] # None \/ (At(c, "spawn") /\ turn[c] = s)

(* A turn of the loop passes a service only with an entry. *)
LEMMA LoopStep ==
  ASSUME SupervisorTypeOK, NEW c \in Commands, Passed(c), Step(c)
  PROVE  Passed(c)'
<1> USE DEF SupervisorTypeOK, At, Goto
<1>0. Scope(c)' = Scope(c) /\ Scope(c) \subseteq Services
  BY OthersStay, CriticalIsService DEF Scope
<1>1. CASE ReadState(c)
  BY <1>0, <1>1 DEF ReadState, Passed
<1>2. CASE PlanNext(c)
  <2>1. CASE left[c] = {} /\ pc'[c] = "truncate"
    BY <1>0, <1>2, <2>1 DEF PlanNext, Passed
  <2>2. CASE pc'[c] # "truncate"
    <3>1. PICK s \in left[c] : /\ left' = [left EXCEPT ![c] = @ \ {s}]
                               /\ \/ IsAlive(state[c][s]) /\ UNCHANGED <<pc, turn>>
                                  \/ turn' = [turn EXCEPT ![c] = s] /\ pc' = [pc EXCEPT ![c] = "spawn"]
      BY <1>2, <2>2 DEF PlanNext
    <3>2. UNCHANGED state /\ pc[c] = "plan"
      BY <1>2 DEF PlanNext
    <3>3. s \in Services
      BY <3>1
    <3> QED
      BY <1>0, <3>1, <3>2, <3>3 DEF Passed, IsAlive
  <2> QED
    BY <1>2, <2>1, <2>2 DEF PlanNext
<1>3. CASE Spawn(c)
  <2>1. PICK p \in Pids : state' = [state EXCEPT ![c][turn[c]] = p]
    BY <1>3 DEF Spawn
  <2>2. /\ pc[c] = "spawn" /\ pc'[c] = "plan" /\ UNCHANGED left
        /\ turn[c] \in Services
    BY <1>3 DEF Spawn, Passed
  <2>3. ASSUME NEW s \in Scope(c) \ left[c] PROVE state'[c][s] # None
    BY <1>0, <2>1, <2>2, <2>3, NoneAndForeign DEF Passed, PidFile
  <2> QED
    BY <1>0, <2>2, <2>3 DEF Passed
<1>4. CASE Truncate(c)
  BY <1>0, <1>4 DEF Truncate, Passed
<1>5. CASE Write(c) \/ Unlink(c) \/ StopRead(c) \/ Signal(c)
  <2>1. pc'[c] \in {"idle", "read", "signal", "unlink"}
    BY <1>5 DEF Write, Unlink, StopRead, Stopped, End, Signal
  <2> QED
    BY <2>1 DEF Passed
<1> QED
  BY <1>1, <1>2, <1>3, <1>4, <1>5 DEF Step

(* No step lets a loop pass a service without an entry. *)
LEMMA LoopKept ==
  ASSUME SupervisorIInv, SupervisorNext
  PROVE  LoopRecords'
<1>0. SupervisorTypeOK /\ \A c \in Commands : Passed(c)
  BY DEF SupervisorIInv, LoopRecords, Passed
<1> SUFFICES ASSUME NEW d \in Commands PROVE Passed(d)'
  BY DEF LoopRecords, Passed
<1>1. ASSUME NEW c \in Commands, NEW k \in Kinds, Begin(c, k) PROVE Passed(d)'
  <2>1. CASE d = c
    <3>1. pc'[c] \in {"stop_read", "read"}
      BY <1>0, <1>1 DEF Begin, Goto, SupervisorTypeOK
    <3> QED
      BY <2>1, <3>1 DEF Passed, At
  <2>2. CASE d # c
    BY <1>0, <1>1, <2>2 DEF Begin, Goto, Passed, At, Scope, SupervisorTypeOK
  <2> QED
    BY <2>1, <2>2
<1>2. ASSUME NEW c \in Commands, Step(c) \/ Die(c) PROVE Passed(d)'
  <2>1. CASE d # c
    BY <1>0, <1>2, <2>1, OthersStay DEF Passed, At, Scope
  <2>2. CASE d = c /\ Step(c)
    BY <1>0, <2>2, LoopStep
  <2>3. CASE d = c /\ Die(c)
    <3>1. pc'[c] = "idle"
      BY <1>0, <2>3 DEF Die, End, Goto, SupervisorTypeOK
    <3> QED
      BY <2>3, <3>1 DEF Passed, At
  <2> QED
    BY <1>2, <2>1, <2>2, <2>3
<1>3. ASSUME NEW p \in Pids, Exit(p) \/ ForeignStart(p) PROVE Passed(d)'
  BY <1>0, <1>3 DEF Exit, ForeignStart, cli, Passed, At, Scope
<1>4. CASE Reboot
  BY <1>4 DEF Reboot, Passed, At
<1> QED
  BY <1>1, <1>2, <1>3, <1>4 DEF SupervisorNext

(* The inductive invariant of the supervisor holds in every state. *)
THEOREM SupervisorInvariance == SupervisorSpec => []SupervisorIInv
<1>1. SupervisorIInv /\ [SupervisorNext]_supervisorVars => SupervisorIInv'
  <2>1. SupervisorIInv /\ SupervisorNext => SupervisorIInv'
    BY TypeKept, OneKept, FoundKept, RecordsKept, LoopKept DEF SupervisorIInv
  <2>2. ASSUME SupervisorIInv, UNCHANGED supervisorVars PROVE SupervisorIInv'
    <3>1. SupervisorTypeOK' /\ OneAtATime' /\ RecordsHold'
      BY <2>2 DEF SupervisorIInv, SupervisorTypeOK, OneAtATime, RecordsHold, Calm, At, supervisorVars
    <3>2. Found'
      <4>1. Ours' = Ours
        BY <2>2 DEF Ours, supervisorVars
      <4> QED
        BY <2>2, <4>1 DEF SupervisorIInv, Found, Names, Calm, At, supervisorVars
    <3>3. LoopRecords'
      BY <2>2 DEF SupervisorIInv, LoopRecords, Scope, At, supervisorVars
    <3> QED
      BY <3>1, <3>2, <3>3 DEF SupervisorIInv
  <2> QED
    BY <2>1, <2>2
<1> QED
  BY <1>1, SupervisorInitHolds, PTL DEF SupervisorSpec

(* The variables of the supervisor have their types. *)
THEOREM SupervisorTypeCorrect == SupervisorSpec => []SupervisorTypeOK
<1>1. SupervisorIInv => SupervisorTypeOK
  BY DEF SupervisorIInv
<1> QED
  BY <1>1, SupervisorInvariance, PTL

(* While no commands overlap and none dies half-way, every process that    *)
(* was started and not told to stop can be found again.                    *)
THEOREM NothingStrays == SupervisorSpec => []NoStray
<1>1. SupervisorIInv => NoStray
  <2> SUFFICES ASSUME SupervisorIInv, Calm, NEW p \in Ours
               PROVE  file[runs[p]] = p \/ \E c \in Commands : state[c][runs[p]] = p
    BY DEF NoStray, Calm
  <2>1. CASE \A c \in Commands : At(c, "idle")
    BY <2>1 DEF SupervisorIInv, Found, Names
  <2>2. ASSUME NEW c \in Commands, ~At(c, "idle")
        PROVE  file[runs[p]] = p \/ state[c][runs[p]] = p
    BY <2>2 DEF SupervisorIInv, SupervisorTypeOK, Pcs, Found, Names, At
  <2> QED
    BY <2>1, <2>2
<1> QED
  BY <1>1, SupervisorInvariance, PTL

(* Nor does a service run twice.                                           *)
THEOREM NoTwins == SupervisorSpec => []OnePerService
<1>1. SupervisorIInv => OnePerService
  <2> SUFFICES ASSUME SupervisorIInv, Calm, NEW p \in Ours, NEW q \in Ours, runs[p] = runs[q]
               PROVE  p = q
    BY DEF OnePerService, Calm
  <2>1. CASE \A c \in Commands : At(c, "idle")
    BY <2>1 DEF SupervisorIInv, Found, Names
  <2>2. ASSUME NEW c \in Commands, ~At(c, "idle") PROVE p = q
    BY <2>2 DEF SupervisorIInv, SupervisorTypeOK, Pcs, Found, Names, At
  <2> QED
    BY <2>1, <2>2
<1> QED
  BY <1>1, SupervisorInvariance, PTL

(* While no recorded pid is given away, a command writes a process for     *)
(* every service of its scope, and that process is the service or dead.    *)
THEOREM RecordsAreTrue == SupervisorSpec => []WritesWhatItChecked
<1>1. SupervisorIInv => WritesWhatItChecked
  <2> SUFFICES ASSUME SupervisorIInv, "reuse" \notin trouble, NEW c \in Commands,
                      pc[c] \in {"truncate", "write"}, NEW s \in Scope(c)
               PROVE  state[c][s] # None /\ runs[state[c][s]] \in {s, None}
    BY DEF WritesWhatItChecked
  <2>1. s \in Services
    BY CriticalIsService DEF Scope
  <2>2. state[c][s] # None
    BY DEF SupervisorIInv, LoopRecords, At
  <2>3. state[c][s] \in Pids
    BY <2>1, <2>2 DEF SupervisorIInv, SupervisorTypeOK, PidFile
  <2> QED
    BY <2>1, <2>2, <2>3 DEF SupervisorIInv, RecordsHold
<1> QED
  BY <1>1, SupervisorInvariance, PTL
=============================================================================
