------------------------- MODULE StreamEngineProofs -------------------------
(***************************************************************************)
(* What the runs of StreamEngine check on two threads and two streams,     *)
(* proved for any sets of threads, streams and pids.                       *)
(*                                                                         *)
(* NoOrphan is not inductive.  IInv adds who claims a stream (ClaimInv,    *)
(* OneCall), what process a thread holds (HoldsProcess, OwnedProcess), and *)
(* how the two dictionaries relate at each point of the one call that may  *)
(* work on a stream without overlap (CallProgress) and outside of calls    *)
(* (AtRest).  One lemma per action shows that the action keeps IInv.       *)
(***************************************************************************)
EXTENDS StreamEngine, TLAPS

(* The initial state: no process, no entry, no call. *)
LEMMA InitEstablishes == Init => IInv
  BY NoneIsApart DEF Init, IInv, TypeOK, Pcs, Ops, Answers, Alive, StartPcs, StopPcs,
     ClaimInv, OneCall, HoldsProcess, OwnedProcess, CallProgress, AtRest, NoOrphan

(* A call begins: it claims its stream, and a stream another call claims joins the raced ones. *)
LEMMA CallKeeps ==
  ASSUME IInv, NEW t \in Threads, NEW o \in Ops, NEW s \in Streams, Call(t, o, s)
  PROVE  IInv'
<1> USE NoneIsApart DEF IInv, TypeOK, ClaimInv, Pcs, Ops, Answers, Alive, StartPcs,
          StopPcs, os, tables, At, Goto, Return, Call, Enter, Claimed, FirstPc
<1>1. TypeOK'
  OBVIOUS
<1>2. ClaimInv' /\ OneCall'
  BY DEF OneCall
<1>3. HoldsProcess' /\ OwnedProcess'
  BY DEF HoldsProcess, OwnedProcess
<1>4. CallProgress'
  BY DEF CallProgress, Progress, OneCall, HoldsProcess, AtRest
<1>5. AtRest'
  BY DEF AtRest, CallProgress, Progress, OneCall, HoldsProcess
<1>6. NoOrphan'
  BY DEF NoOrphan, Launching, CallProgress, Progress, OneCall, HoldsProcess, OwnedProcess
<1> QED
  BY <1>1, <1>2, <1>3, <1>4, <1>5, <1>6

(* stop_all begins: it claims every stream that has a handle. *)
LEMMA CallStopAllKeeps ==
  ASSUME IInv, NEW t \in Threads, CallStopAll(t)
  PROVE  IInv'
<1> USE NoneIsApart DEF IInv, TypeOK, ClaimInv, Pcs, Ops, Answers, Alive, StartPcs,
          StopPcs, os, tables, At, Goto, Return, CallStopAll, Enter, Claimed
<1>1. TypeOK'
  OBVIOUS
<1>2. ClaimInv' /\ OneCall'
  BY DEF OneCall
<1>3. HoldsProcess' /\ OwnedProcess'
  BY DEF HoldsProcess, OwnedProcess
<1>4. CallProgress'
  BY DEF CallProgress, Progress, OneCall, HoldsProcess, AtRest
<1>5. AtRest'
  BY DEF AtRest, CallProgress, Progress, OneCall, HoldsProcess
<1>6. NoOrphan'
  BY DEF NoOrphan, Launching, CallProgress, Progress, OneCall, HoldsProcess, OwnedProcess
<1> QED
  BY <1>1, <1>2, <1>3, <1>4, <1>5, <1>6

(* stop_all goes on to a stream it has claimed, or returns. *)
LEMMA NextOfAllKeeps ==
  ASSUME IInv, NEW t \in Threads, NextOfAll(t)
  PROVE  IInv'
<1> USE NoneIsApart DEF IInv, TypeOK, ClaimInv, Pcs, Ops, Answers, Alive, StartPcs,
          StopPcs, os, tables, At, Goto, Return, NextOfAll
<1>1. TypeOK'
  OBVIOUS
<1>2. ClaimInv' /\ OneCall'
  BY DEF OneCall
<1>3. HoldsProcess' /\ OwnedProcess'
  BY DEF HoldsProcess, OwnedProcess
<1>4. CallProgress'
  BY DEF CallProgress, Progress, OneCall, HoldsProcess, AtRest
<1>5. AtRest'
  BY DEF AtRest, CallProgress, Progress, OneCall, HoldsProcess
<1>6. NoOrphan'
  BY DEF NoOrphan, Launching, CallProgress, Progress, OneCall, HoldsProcess, OwnedProcess
<1> QED
  BY <1>1, <1>2, <1>3, <1>4, <1>5, <1>6

(* start_stream tests for an entry: on a stream without overlap the handle tells the same. *)
LEMMA CheckActiveKeeps ==
  ASSUME IInv, NEW t \in Threads, CheckActive(t)
  PROVE  IInv'
<1> USE NoneIsApart DEF IInv, TypeOK, ClaimInv, Pcs, Ops, Answers, Alive, StartPcs,
          StopPcs, os, tables, At, Goto, Return, CheckActive
<1>1. TypeOK'
  OBVIOUS
<1>2. ClaimInv' /\ OneCall'
  BY DEF OneCall
<1>3. HoldsProcess' /\ OwnedProcess'
  BY DEF HoldsProcess, OwnedProcess
<1>4. CallProgress'
  BY DEF CallProgress, Progress, OneCall, HoldsProcess, AtRest
<1>5. AtRest'
  BY DEF AtRest, CallProgress, Progress, OneCall, HoldsProcess
<1>6. NoOrphan'
  BY DEF NoOrphan, Launching, CallProgress, Progress, OneCall, HoldsProcess, OwnedProcess
<1> QED
  BY <1>1, <1>2, <1>3, <1>4, <1>5, <1>6

(* start_stream returns the pid of the entry. *)
LEMMA ReadPidKeeps ==
  ASSUME IInv, NEW t \in Threads, ReadPid(t)
  PROVE  IInv'
<1> USE NoneIsApart DEF IInv, TypeOK, ClaimInv, Pcs, Ops, Answers, Alive, StartPcs,
          StopPcs, os, tables, At, Goto, Return, ReadPid
<1>1. TypeOK'
  OBVIOUS
<1>2. ClaimInv' /\ OneCall'
  BY DEF OneCall
<1>3. HoldsProcess' /\ OwnedProcess'
  BY DEF HoldsProcess, OwnedProcess
<1>4. CallProgress'
  BY DEF CallProgress, Progress, OneCall, HoldsProcess, AtRest
<1>5. AtRest'
  BY DEF AtRest, CallProgress, Progress, OneCall, HoldsProcess
<1>6. NoOrphan'
  BY DEF NoOrphan, Launching, CallProgress, Progress, OneCall, HoldsProcess, OwnedProcess
<1> QED
  BY <1>1, <1>2, <1>3, <1>4, <1>5, <1>6

(* A process is created: the thread that launches it holds it. *)
LEMMA PopenKeeps ==
  ASSUME IInv, NEW t \in Threads, Popen(t)
  PROVE  IInv'
<1> USE NoneIsApart DEF IInv, TypeOK, ClaimInv, Pcs, Ops, Answers, Alive, StartPcs,
          StopPcs, os, tables, At, Goto, Return, Popen
<1>1. TypeOK'
  <2>1. CASE proc' = proc
    BY <2>1
  <2>2. CASE proc' # proc
    <3>1. PICK p \in Pids :
            /\ proc' = [proc EXCEPT ![p] = "running"]
            /\ owner' = [owner EXCEPT ![p] = sid[t]]
            /\ loc' = [loc EXCEPT ![t] = p]
            /\ pc' = [pc EXCEPT ![t] = "set_handle"]
            /\ UNCHANGED <<answer, claim>>
      BY <2>2
    <3>2. sid[t] \in Streams
      OBVIOUS
    <3> QED
      BY <3>1, <3>2
  <2> QED
    BY <2>1, <2>2
<1>2. ClaimInv' /\ OneCall'
  BY DEF OneCall
<1>3. HoldsProcess' /\ OwnedProcess'
  BY DEF HoldsProcess, OwnedProcess
<1>4. CallProgress'
  BY DEF CallProgress, Progress, OneCall, HoldsProcess, AtRest
<1>5. AtRest'
  BY DEF AtRest, CallProgress, Progress, OneCall, HoldsProcess
<1>6. NoOrphan'
  BY DEF NoOrphan, Launching, CallProgress, Progress, OneCall, HoldsProcess, OwnedProcess
<1> QED
  BY <1>1, <1>2, <1>3, <1>4, <1>5, <1>6

(* The launched process becomes the handle of its stream. *)
LEMMA SetHandleKeeps ==
  ASSUME IInv, NEW t \in Threads, SetHandle(t)
  PROVE  IInv'
<1> USE NoneIsApart DEF IInv, TypeOK, ClaimInv, Pcs, Ops, Answers, Alive, StartPcs,
          StopPcs, os, tables, At, Goto, Return, SetHandle
<1>1. TypeOK'
  OBVIOUS
<1>2. ClaimInv' /\ OneCall'
  BY DEF OneCall
<1>3. HoldsProcess' /\ OwnedProcess'
  BY DEF HoldsProcess, OwnedProcess
<1>4. CallProgress'
  BY DEF CallProgress, Progress, OneCall, HoldsProcess, AtRest
<1>5. AtRest'
  BY DEF AtRest, CallProgress, Progress, OneCall, HoldsProcess
<1>6. NoOrphan'
  BY DEF NoOrphan, Launching, CallProgress, Progress, OneCall, HoldsProcess, OwnedProcess
<1> QED
  BY <1>1, <1>2, <1>3, <1>4, <1>5, <1>6

(* The entry joins the handle. *)
LEMMA SetActiveKeeps ==
  ASSUME IInv, NEW t \in Threads, SetActive(t)
  PROVE  IInv'
<1> USE NoneIsApart DEF IInv, TypeOK, ClaimInv, Pcs, Ops, Answers, Alive, StartPcs,
          StopPcs, os, tables, At, Goto, Return, SetActive
<1>1. TypeOK'
  OBVIOUS
<1>2. ClaimInv' /\ OneCall'
  BY DEF OneCall
<1>3. HoldsProcess' /\ OwnedProcess'
  BY DEF HoldsProcess, OwnedProcess
<1>4. CallProgress'
  BY DEF CallProgress, Progress, OneCall, HoldsProcess, AtRest
<1>5. AtRest'
  BY DEF AtRest, CallProgress, Progress, OneCall, HoldsProcess
<1>6. NoOrphan'
  BY DEF NoOrphan, Launching, CallProgress, Progress, OneCall, HoldsProcess, OwnedProcess
<1> QED
  BY <1>1, <1>2, <1>3, <1>4, <1>5, <1>6

(* stop_stream takes the handle. *)
LEMMA GetProcKeeps ==
  ASSUME IInv, NEW t \in Threads, GetProc(t)
  PROVE  IInv'
<1> USE NoneIsApart DEF IInv, TypeOK, ClaimInv, Pcs, Ops, Answers, Alive, StartPcs,
          StopPcs, os, tables, At, Goto, Return, GetProc, StopReturns
<1>1. TypeOK'
  OBVIOUS
<1>2. ClaimInv' /\ OneCall'
  <2>1. sid' = sid /\ raced' = raced
    OBVIOUS
  <2>2. \A u \in Threads : claim'[u] \subseteq claim[u]
    OBVIOUS
  <2>3. ClaimInv'
    OBVIOUS
  <2>4. OneCall'
    BY ONLY <2>1, <2>2, IInv DEF IInv, OneCall
  <2> QED
    BY ONLY <2>3, <2>4
<1>3. HoldsProcess' /\ OwnedProcess'
  BY DEF HoldsProcess, OwnedProcess
<1>4. CallProgress'
  BY DEF CallProgress, Progress, OneCall, HoldsProcess, AtRest
<1>5. AtRest'
  BY DEF AtRest, CallProgress, Progress, OneCall, HoldsProcess
<1>6. NoOrphan'
  BY DEF NoOrphan, Launching, CallProgress, Progress, OneCall, HoldsProcess, OwnedProcess
<1> QED
  BY <1>1, <1>2, <1>3, <1>4, <1>5, <1>6

(* SIGTERM changes only the state of the process. *)
LEMMA TerminateKeeps ==
  ASSUME IInv, NEW t \in Threads, Terminate(t)
  PROVE  IInv'
<1> USE NoneIsApart DEF IInv, TypeOK, ClaimInv, Pcs, Ops, Answers, Alive, StartPcs,
          StopPcs, os, tables, At, Goto, Return, Terminate
<1>1. TypeOK'
  OBVIOUS
<1>2. ClaimInv' /\ OneCall'
  BY DEF OneCall
<1>3. HoldsProcess' /\ OwnedProcess'
  BY DEF HoldsProcess, OwnedProcess
<1>4. CallProgress'
  BY DEF CallProgress, Progress, OneCall, HoldsProcess, AtRest
<1>5. AtRest'
  BY DEF AtRest, CallProgress, Progress, OneCall, HoldsProcess
<1>6. NoOrphan'
  BY DEF NoOrphan, Launching, CallProgress, Progress, OneCall, HoldsProcess, OwnedProcess
<1> QED
  BY <1>1, <1>2, <1>3, <1>4, <1>5, <1>6

(* SIGKILL changes only the state of the process, and only a dead process lets the stop go on. *)
LEMMA WaitKeeps ==
  ASSUME IInv, NEW t \in Threads, Wait(t)
  PROVE  IInv'
<1> USE NoneIsApart DEF IInv, TypeOK, ClaimInv, Pcs, Ops, Answers, Alive, StartPcs,
          StopPcs, os, tables, At, Goto, Return, Wait
<1>1. TypeOK'
  OBVIOUS
<1>2. ClaimInv' /\ OneCall'
  BY DEF OneCall
<1>3. HoldsProcess' /\ OwnedProcess'
  BY DEF HoldsProcess, OwnedProcess
<1>4. CallProgress'
  BY DEF CallProgress, Progress, OneCall, HoldsProcess, AtRest
<1>5. AtRest'
  BY DEF AtRest, CallProgress, Progress, OneCall, HoldsProcess
<1>6. NoOrphan'
  BY DEF NoOrphan, Launching, CallProgress, Progress, OneCall, HoldsProcess, OwnedProcess
<1> QED
  BY <1>1, <1>2, <1>3, <1>4, <1>5, <1>6

(* The second wait ends when the process has. *)
LEMMA ReapKeeps ==
  ASSUME IInv, NEW t \in Threads, Reap(t)
  PROVE  IInv'
<1> USE NoneIsApart DEF IInv, TypeOK, ClaimInv, Pcs, Ops, Answers, Alive, StartPcs,
          StopPcs, os, tables, At, Goto, Return, Reap
<1>1. TypeOK'
  OBVIOUS
<1>2. ClaimInv' /\ OneCall'
  BY DEF OneCall
<1>3. HoldsProcess' /\ OwnedProcess'
  BY DEF HoldsProcess, OwnedProcess
<1>4. CallProgress'
  BY DEF CallProgress, Progress, OneCall, HoldsProcess, AtRest
<1>5. AtRest'
  BY DEF AtRest, CallProgress, Progress, OneCall, HoldsProcess
<1>6. NoOrphan'
  BY DEF NoOrphan, Launching, CallProgress, Progress, OneCall, HoldsProcess, OwnedProcess
<1> QED
  BY <1>1, <1>2, <1>3, <1>4, <1>5, <1>6

(* The handle of a dead process goes: no live process loses its handle. *)
LEMMA DelHandleKeeps ==
  ASSUME IInv, NEW t \in Threads, DelHandle(t)
  PROVE  IInv'
<1> USE NoneIsApart DEF IInv, TypeOK, ClaimInv, Pcs, Ops, Answers, Alive, StartPcs,
          StopPcs, os, tables, At, Goto, Return, DelHandle, StopReturns
<1>1. TypeOK'
  <2>1. CASE handle[sid[t]] = None
    BY <2>1
  <2>2. CASE handle[sid[t]] # None
    BY <2>2
  <2> QED
    BY <2>1, <2>2
<1>2. ClaimInv' /\ OneCall'
  <2>1. sid' = sid /\ raced' = raced
    OBVIOUS
  <2>2. \A u \in Threads : claim'[u] \subseteq claim[u]
    OBVIOUS
  <2>3. ClaimInv'
    OBVIOUS
  <2>4. OneCall'
    BY ONLY <2>1, <2>2, IInv DEF IInv, OneCall
  <2> QED
    BY ONLY <2>3, <2>4
<1>3. HoldsProcess' /\ OwnedProcess'
  BY DEF HoldsProcess, OwnedProcess
<1>4. CallProgress'
  BY DEF CallProgress, Progress, OneCall, HoldsProcess, AtRest
<1>5. AtRest'
  BY DEF AtRest, CallProgress, Progress, OneCall, HoldsProcess
<1>6. NoOrphan'
  BY DEF NoOrphan, Launching, CallProgress, Progress, OneCall, HoldsProcess, OwnedProcess
<1> QED
  BY <1>1, <1>2, <1>3, <1>4, <1>5, <1>6

(* The entry follows the handle. *)
LEMMA DelActiveKeeps ==
  ASSUME IInv, NEW t \in Threads, DelActive(t)
  PROVE  IInv'
<1> USE NoneIsApart DEF IInv, TypeOK, ClaimInv, Pcs, Ops, Answers, Alive, StartPcs,
          StopPcs, os, tables, At, Goto, Return, DelActive, StopReturns
<1>1. TypeOK'
  OBVIOUS
<1>2. ClaimInv' /\ OneCall'
  <2>1. sid' = sid /\ raced' = raced
    OBVIOUS
  <2>2. \A u \in Threads : claim'[u] \subseteq claim[u]
    OBVIOUS
  <2>3. ClaimInv'
    OBVIOUS
  <2>4. OneCall'
    BY ONLY <2>1, <2>2, IInv DEF IInv, OneCall
  <2> QED
    BY ONLY <2>3, <2>4
<1>3. HoldsProcess' /\ OwnedProcess'
  BY DEF HoldsProcess, OwnedProcess
<1>4. CallProgress'
  BY DEF CallProgress, Progress, OneCall, HoldsProcess, AtRest
<1>5. AtRest'
  BY DEF AtRest, CallProgress, Progress, OneCall, HoldsProcess
<1>6. NoOrphan'
  BY DEF NoOrphan, Launching, CallProgress, Progress, OneCall, HoldsProcess, OwnedProcess
<1> QED
  BY <1>1, <1>2, <1>3, <1>4, <1>5, <1>6

(* restart_stream tests for an entry. *)
LEMMA ReadInfoKeeps ==
  ASSUME IInv, NEW t \in Threads, ReadInfo(t)
  PROVE  IInv'
<1> USE NoneIsApart DEF IInv, TypeOK, ClaimInv, Pcs, Ops, Answers, Alive, StartPcs,
          StopPcs, os, tables, At, Goto, Return, ReadInfo
<1>1. TypeOK'
  <2>1. CASE active[sid[t]] = None
    BY <2>1
  <2>2. CASE active[sid[t]] # None
    BY <2>2
  <2> QED
    BY <2>1, <2>2
<1>2. ClaimInv' /\ OneCall'
  BY DEF OneCall
<1>3. HoldsProcess' /\ OwnedProcess'
  BY DEF HoldsProcess, OwnedProcess
<1>4. CallProgress'
  BY DEF CallProgress, Progress, OneCall, HoldsProcess, AtRest
<1>5. AtRest'
  BY DEF AtRest, CallProgress, Progress, OneCall, HoldsProcess
<1>6. NoOrphan'
  BY DEF NoOrphan, Launching, CallProgress, Progress, OneCall, HoldsProcess, OwnedProcess
<1> QED
  BY <1>1, <1>2, <1>3, <1>4, <1>5, <1>6

(* A process that exits leaves fewer live processes to account for. *)
LEMMA ExitKeeps ==
  ASSUME IInv, NEW p \in Pids, Exit(p)
  PROVE  IInv'
<1> USE NoneIsApart DEF IInv, TypeOK, ClaimInv, Pcs, Ops, Answers, Alive, StartPcs,
          StopPcs, os, tables, At, Goto, Return, Exit
<1>1. TypeOK'
  OBVIOUS
<1>2. ClaimInv' /\ OneCall'
  BY DEF OneCall
<1>3. HoldsProcess' /\ OwnedProcess'
  BY DEF HoldsProcess, OwnedProcess
<1>4. CallProgress'
  BY DEF CallProgress, Progress, OneCall, HoldsProcess, AtRest
<1>5. AtRest'
  BY DEF AtRest, CallProgress, Progress, OneCall, HoldsProcess
<1>6. NoOrphan'
  BY DEF NoOrphan, Launching, CallProgress, Progress, OneCall, HoldsProcess, OwnedProcess
<1> QED
  BY <1>1, <1>2, <1>3, <1>4, <1>5, <1>6

(* A pid nobody refers to becomes free. *)
LEMMA RecycleKeeps ==
  ASSUME IInv, NEW p \in Pids, Recycle(p)
  PROVE  IInv'
<1> USE NoneIsApart DEF IInv, TypeOK, ClaimInv, Pcs, Ops, Answers, Alive, StartPcs,
          StopPcs, os, tables, At, Goto, Return, Recycle, Referenced
<1>1. TypeOK'
  OBVIOUS
<1>2. ClaimInv' /\ OneCall'
  BY DEF OneCall
<1>3. HoldsProcess' /\ OwnedProcess'
  BY DEF HoldsProcess, OwnedProcess
<1>4. CallProgress'
  BY DEF CallProgress, Progress, OneCall, HoldsProcess, AtRest
<1>5. AtRest'
  BY DEF AtRest, CallProgress, Progress, OneCall, HoldsProcess
<1>6. NoOrphan'
  BY DEF NoOrphan, Launching, CallProgress, Progress, OneCall, HoldsProcess, OwnedProcess
<1> QED
  BY <1>1, <1>2, <1>3, <1>4, <1>5, <1>6

(* Every step keeps IInv: one of the actions, or a stutter. *)
LEMMA StepKeeps == IInv /\ [Next]_vars => IInv'
<1> SUFFICES ASSUME IInv, [Next]_vars PROVE IInv'
  OBVIOUS
<1>1. CASE UNCHANGED vars
  BY <1>1 DEF vars, IInv, TypeOK, ClaimInv, OneCall, HoldsProcess, OwnedProcess,
     CallProgress, Progress, AtRest, NoOrphan, Launching, At
<1>2. ASSUME NEW t \in Threads, Invoke(t) PROVE IInv'
  BY <1>2, CallKeeps, CallStopAllKeeps DEF Invoke
<1>3. ASSUME NEW t \in Threads, Step(t) PROVE IInv'
  BY <1>3, NextOfAllKeeps, CheckActiveKeeps, ReadPidKeeps, PopenKeeps, SetHandleKeeps,
     SetActiveKeeps, GetProcKeeps, TerminateKeeps, WaitKeeps, ReapKeeps, DelHandleKeeps,
     DelActiveKeeps, ReadInfoKeeps DEF Step
<1>4. ASSUME NEW p \in Pids, Exit(p) \/ Recycle(p) PROVE IInv'
  BY <1>4, ExitKeeps, RecycleKeeps
<1> QED
  BY <1>1, <1>2, <1>3, <1>4 DEF Next

(* The inductive invariant, from which every safety result below follows.  *)
THEOREM Invariance == Spec => []IInv
  BY InitEstablishes, StepKeeps, PTL DEF Spec

(* The variables keep their types: a table entry is a pid or nothing.      *)
THEOREM TypeCorrect == Spec => []TypeOK
<1>1. IInv => TypeOK
  BY DEF IInv
<1> QED
  BY <1>1, Invariance, PTL

(* A live FFmpeg of a stream whose calls never overlapped is in the table, *)
(* or in the hands of the start that created it.                           *)
THEOREM NoProcessIsOrphaned == Spec => []NoOrphan
<1>1. IInv => NoOrphan
  BY DEF IInv
<1> QED
  BY <1>1, Invariance, PTL

(* Two live FFmpegs of one stream without overlap would both be its handle *)
(* or be launched by the only call that may work on it.                    *)
LEMMA AtMostOne == IInv => OneProcessPerStream
<1> SUFFICES ASSUME IInv, NEW p \in Pids, NEW q \in Pids,
                    proc[p] \in Alive, proc[q] \in Alive,
                    owner[p] = owner[q], owner[p] \notin raced
             PROVE  p = q
  BY DEF OneProcessPerStream
<1> DEFINE s == owner[p]
<1>1. s \in Streams
  BY DEF IInv, OwnedProcess, TypeOK, Alive
<1>2. /\ handle[s] = p \/ \E t \in Threads : Launching(t, s, p)
      /\ handle[s] = q \/ \E t \in Threads : Launching(t, s, q)
  BY DEF IInv, NoOrphan
<1>3. \A t \in Threads, r \in Pids : Launching(t, s, r) => handle[s] = None /\ s \in claim[t]
  BY DEF IInv, CallProgress, Progress, Launching, At, ClaimInv
<1>4. None \notin Pids
  BY NoneIsApart
<1>5. \A t, u \in Threads : (s \in claim[t] /\ s \in claim[u]) => t = u
  BY <1>1 DEF IInv, OneCall
<1> QED
  BY <1>2, <1>3, <1>4, <1>5 DEF Launching

(* At most one live FFmpeg per stream whose calls never overlapped.        *)
THEOREM OneProcess == Spec => []OneProcessPerStream
  BY AtMostOne, Invariance, PTL

(* The dictionaries agree on a stream outside of calls.                    *)
THEOREM DictionariesAgree == Spec => []TablesAgree
<1>1. IInv => TablesAgree
  BY DEF IInv, AtRest, ClaimInv, TablesAgree
<1> QED
  BY <1>1, Invariance, PTL

(* Also under overlap, a stop waits for the process it took to die.        *)
THEOREM StopsWait == Spec => []StopWaits
<1>1. IInv => StopWaits
  BY DEF IInv, HoldsProcess, StopWaits
<1> QED
  BY <1>1, Invariance, PTL

(* Also under overlap, no call ever touches another stream's process.      *)
THEOREM OwnStreamOnly == Spec => []OwnStream
<1>1. IInv => OwnStream
  BY DEF IInv, HoldsProcess, OwnedProcess, OwnStream
<1> QED
  BY <1>1, Invariance, PTL


(* Only SetHandle and DelHandle change a handle: the first fills an empty  *)
(* one, the second drops that of a process which stop has seen exit.       *)
LEMMA HandleChanges ==
  ASSUME IInv, [Next]_vars, NEW s \in Streams \ raced,
         handle[s] # None, handle'[s] # handle[s]
  PROVE  proc[handle[s]] = "exited"
<1>1. PICK t \in Threads : SetHandle(t) \/ DelHandle(t)
  BY DEF Next, Invoke, Step, vars, tables, Call, CallStopAll, NextOfAll, CheckActive, ReadPid,
     Popen, SetActive, GetProc, Terminate, Wait, Reap, DelActive, ReadInfo, Exit, Recycle
<1>2. sid[t] = s
  BY <1>1 DEF SetHandle, DelHandle, IInv, TypeOK
<1>3. CASE SetHandle(t)
  BY <1>2, <1>3 DEF SetHandle, At, IInv, CallProgress, Progress
<1>4. CASE DelHandle(t)
  BY <1>2, <1>4 DEF DelHandle, At, IInv, CallProgress, Progress, HoldsProcess
<1> QED
  BY <1>1, <1>3, <1>4

(* A live FFmpeg never leaves the table of a stream without overlap.       *)
THEOREM LiveProcessesAreKept == Spec => NeverForgetsLive
<1>1. IInv /\ [Next]_vars =>
        [\A s \in Streams \ raced :
            (handle[s] # None /\ handle'[s] # handle[s]) => proc[handle[s]] = "exited"]_vars
  BY HandleChanges
<1> QED
  BY <1>1, Invariance, PTL DEF Spec, NeverForgetsLive
=============================================================================
