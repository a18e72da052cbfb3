---------------------------- MODULE StreamEngine ----------------------------
(***************************************************************************)
(* The FFmpeg process table of one API worker                              *)
(* (src/src/streaming/engine.py, class StreamingEngine), driven by the     *)
(* threads of that worker: the admin start / stop / restart routes and the *)
(* internal API are plain `def' handlers, which FastAPI runs in a thread   *)
(* pool, and the live route calls start_stream from the event loop.        *)
(*                                                                         *)
(* The engine takes no lock.  One dictionary operation is atomic (the GIL) *)
(* and the threads interleave between any two of them, so every action     *)
(* below is one dictionary operation or one system call.                   *)
(*                                                                         *)
(* Abstracted: the command line, container, source URL and output path,    *)
(* and the logging.  A process is its pid; the kernel may give the pid of  *)
(* a reaped process to a later one.                                        *)
(*                                                                         *)
(* An operator X_what beside an action X is X with a bug a maintainer      *)
(* could make; no specification uses it.  It shows that the checks notice. *)
(***************************************************************************)
EXTENDS Naturals, FiniteSets

CONSTANTS
    Threads,  \* threads of the worker that call the engine
    Streams,  \* stream ids
    Pids,     \* pids the kernel has for FFmpeg; bounds the live processes
    None      \* no process, no stream

ASSUME NoneIsApart == None \notin Streams \cup Pids

VARIABLES
    handle,   \* _ffmpeg_processes: stream -> the Popen object, by its pid
    active,   \* _active_streams: stream -> the "pid" field of its entry
    proc,     \* the kernel's view of each pid
    owner,    \* the stream whose FFmpeg runs behind a pid
    pc,       \* where each thread is in the engine's code
    op,       \* the engine operation the thread is in
    sid,      \* the stream_id argument
    loc,      \* the local variable proc of start_stream / stop_stream
    answer,   \* what the thread's last call returned
    claim,    \* the streams the thread's call works on, now or later
    raced     \* history: streams on which two calls have ever overlapped

os     == <<proc, owner>>
tables == <<handle, active>>
vars   == <<handle, active, proc, owner, pc, op, sid, loc, answer, claim, raced>>

Ops == {"start", "stop", "restart", "restart_stream"}
StartPcs == {"check", "read", "popen", "set_handle", "set_active"}
StopPcs  == {"get", "terminate", "wait", "reap", "del_handle", "del_active"}
Pcs == {"idle", "info", "next"} \cup StartPcs \cup StopPcs
Answers == {"none", "pid", "true", "false", "error"}
Alive == {"running", "termed", "killed"}

TypeOK ==
    /\ handle \in [Streams -> Pids \cup {None}]
    /\ active \in [Streams -> Pids \cup {None}]
    /\ proc   \in [Pids -> Alive \cup {"free", "exited"}]
    /\ owner  \in [Pids -> Streams \cup {None}]
    /\ pc     \in [Threads -> Pcs]
    /\ op     \in [Threads -> Ops \cup {"stop_all"}]
    /\ sid    \in [Threads -> Streams \cup {None}]
    /\ loc    \in [Threads -> Pids \cup {None}]
    /\ answer \in [Threads -> Answers]
    /\ claim  \in [Threads -> SUBSET Streams]
    /\ raced  \in SUBSET Streams

Init ==
    /\ handle = [s \in Streams |-> None]
    /\ active = [s \in Streams |-> None]
    /\ proc   = [p \in Pids |-> "free"]
    /\ owner  = [p \in Pids |-> None]
    /\ pc     = [t \in Threads |-> "idle"]
    /\ op     = [t \in Threads |-> "stop"]
    /\ sid    = [t \in Threads |-> None]
    /\ loc    = [t \in Threads |-> None]
    /\ answer = [t \in Threads |-> "none"]
    /\ claim  = [t \in Threads |-> {}]
    /\ raced  = {}

-----------------------------------------------------------------------------
(* Moving a thread, entering and leaving the engine.                       *)

At(t, here) == pc[t] = here
Goto(t, there) == pc' = [pc EXCEPT ![t] = there]

(* Some call of another thread works on stream s. *)
Claimed(t, s) == \E u \in Threads \ {t} : s \in claim[u]

Enter(t, o, ss, there) ==
    /\ At(t, "idle")
    /\ op'     = [op EXCEPT ![t] = o]
    /\ claim'  = [claim EXCEPT ![t] = ss]
    /\ raced'  = raced \cup {s \in ss : Claimed(t, s)}
    /\ answer' = [answer EXCEPT ![t] = "none"]
    /\ loc'    = [loc EXCEPT ![t] = None]
    /\ Goto(t, there)

Return(t, a) ==
    /\ Goto(t, "idle")
    /\ answer' = [answer EXCEPT ![t] = a]
    /\ claim'  = [claim EXCEPT ![t] = {}]

FirstPc == [start |-> "check", stop |-> "get", restart |-> "get", restart_stream |-> "info"]

(* A route or the live handler calls the engine for one stream. *)
Call(t, o, s) ==
    /\ Enter(t, o, {s}, FirstPc[o])
    /\ sid' = [sid EXCEPT ![t] = s]
    /\ UNCHANGED <<tables, os>>

(* stop_all: the keys are copied before the loop. *)
CallStopAll(t) ==
    /\ Enter(t, "stop_all", {s \in Streams : handle[s] # None}, "next")
    /\ sid' = [sid EXCEPT ![t] = None]
    /\ UNCHANGED <<tables, os>>

(* The loop of stop_all, in the dictionary's order, which is any order. *)
NextOfAll(t) ==
    /\ At(t, "next")
    /\ \/ /\ claim[t] = {}
          /\ Return(t, "none")
          /\ UNCHANGED sid
       \/ \E s \in claim[t] :
             /\ sid' = [sid EXCEPT ![t] = s]
             /\ Goto(t, "get")
             /\ UNCHANGED <<answer, claim>>
    /\ UNCHANGED <<tables, os, op, loc, raced>>

-----------------------------------------------------------------------------
(* start_stream *)

CheckActive_noCheck(t) ==
    /\ At(t, "check")
    /\ Goto(t, "popen")
    /\ UNCHANGED <<tables, os, op, sid, loc, answer, claim, raced>>

(* if stream_id in self._active_streams *)
CheckActive(t) ==
    /\ At(t, "check")
    /\ Goto(t, IF active[sid[t]] # None THEN "read" ELSE "popen")
    /\ UNCHANGED <<tables, os, op, sid, loc, answer, claim, raced>>

(* return self._active_streams[stream_id].get("pid"): a KeyError when a    *)
(* stop has removed the entry since the test.                              *)
ReadPid(t) ==
    /\ At(t, "read")
    /\ loc' = [loc EXCEPT ![t] = active[sid[t]]]
    /\ Return(t, IF active[sid[t]] # None THEN "pid" ELSE "error")
    /\ UNCHANGED <<tables, os, op, sid, raced>>

(* subprocess.Popen: a new process, or an exception and the answer None. *)
Popen(t) ==
    /\ At(t, "popen")
    /\ \/ \E p \in Pids :
             /\ proc[p] = "free"
             /\ proc'  = [proc EXCEPT ![p] = "running"]
             /\ owner' = [owner EXCEPT ![p] = sid[t]]
             /\ loc'   = [loc EXCEPT ![t] = p]
             /\ Goto(t, "set_handle")
             /\ UNCHANGED <<answer, claim>>
       \/ /\ Return(t, "none")
          /\ UNCHANGED <<os, loc>>
    /\ UNCHANGED <<tables, op, sid, raced>>

SetHandle_forgets(t) ==
    /\ At(t, "set_handle")
    /\ Goto(t, "set_active")
    /\ UNCHANGED <<tables, os, op, sid, loc, answer, claim, raced>>

SetHandle(t) ==
    /\ At(t, "set_handle")
    /\ handle' = [handle EXCEPT ![sid[t]] = loc[t]]
    /\ Goto(t, "set_active")
    /\ UNCHANGED <<active, os, op, sid, loc, answer, claim, raced>>

SetActive(t) ==
    /\ At(t, "set_active")
    /\ active' = [active EXCEPT ![sid[t]] = loc[t]]
    /\ Return(t, "pid")
    /\ UNCHANGED <<handle, os, op, sid, loc, raced>>

-----------------------------------------------------------------------------
(* stop_stream *)

(* stop_stream returns a: to its caller, to the start that follows it in a *)
(* restart, or to the loop of stop_all.                                    *)
StopReturns(t, a) ==
    /\ loc' = [loc EXCEPT ![t] = None]
    /\ CASE op[t] = "stop" -> Return(t, a)
         [] op[t] = "stop_all" -> /\ Goto(t, "next")
                                  /\ claim' = [claim EXCEPT ![t] = @ \ {sid[t]}]
                                  /\ UNCHANGED answer
         [] OTHER -> /\ Goto(t, "check")
                     /\ UNCHANGED <<answer, claim>>

(* proc = self._ffmpeg_processes.get(stream_id) *)
GetProc(t) ==
    /\ At(t, "get")
    /\ \/ /\ handle[sid[t]] = None
          /\ StopReturns(t, "false")
       \/ /\ handle[sid[t]] # None
          /\ loc' = [loc EXCEPT ![t] = handle[sid[t]]]
          /\ Goto(t, "terminate")
          /\ UNCHANGED <<answer, claim>>
    /\ UNCHANGED <<tables, os, op, sid, raced>>

(* proc.terminate(): polls first, so a reaped pid is never signalled. *)
Terminate(t) ==
    /\ At(t, "terminate")
    /\ proc' = [proc EXCEPT ![loc[t]] = IF @ = "running" THEN "termed" ELSE @]
    /\ Goto(t, "wait")
    /\ UNCHANGED <<tables, owner, op, sid, loc, answer, claim, raced>>

Wait_givesUp(t) ==
    /\ At(t, "wait")
    /\ Goto(t, "del_handle")
    /\ UNCHANGED <<tables, os, op, sid, loc, answer, claim, raced>>

Wait_withoutTimeout(t) ==
    /\ At(t, "wait")
    /\ proc[loc[t]] = "exited"
    /\ Goto(t, "del_handle")
    /\ UNCHANGED <<tables, os, op, sid, loc, answer, claim, raced>>

(* proc.wait(timeout=10): the process is gone, or it outlives the timeout  *)
(* and proc.kill() follows.                                                *)
Wait(t) ==
    /\ At(t, "wait")
    /\ \/ /\ proc[loc[t]] = "exited"
          /\ Goto(t, "del_handle")
          /\ UNCHANGED proc
       \/ /\ proc[loc[t]] # "exited"
          /\ proc' = [proc EXCEPT ![loc[t]] = "killed"]
          /\ Goto(t, "reap")
    /\ UNCHANGED <<tables, owner, op, sid, loc, answer, claim, raced>>

(* The second proc.wait(), without a timeout. *)
Reap(t) ==
    /\ At(t, "reap")
    /\ proc[loc[t]] = "exited"
    /\ Goto(t, "del_handle")
    /\ UNCHANGED <<tables, os, op, sid, loc, answer, claim, raced>>

(* del self._ffmpeg_processes[stream_id]; the KeyError is caught. *)
DelHandle(t) ==
    /\ At(t, "del_handle")
    /\ \/ /\ handle[sid[t]] = None
          /\ StopReturns(t, "false")
          /\ UNCHANGED handle
       \/ /\ handle[sid[t]] # None
          /\ handle' = [handle EXCEPT ![sid[t]] = None]
          /\ Goto(t, "del_active")
          /\ UNCHANGED <<loc, answer, claim>>
    /\ UNCHANGED <<active, os, op, sid, raced>>

DelActive_keepsEntry(t) ==
    /\ At(t, "del_active")
    /\ StopReturns(t, "true")
    /\ UNCHANGED <<tables, os, op, sid, raced>>

(* del self._active_streams[stream_id] *)
DelActive(t) ==
    /\ At(t, "del_active")
    /\ StopReturns(t, IF active[sid[t]] = None THEN "false" ELSE "true")
    /\ active' = [active EXCEPT ![sid[t]] = None]
    /\ UNCHANGED <<handle, os, op, sid, raced>>

(* restart_stream: no entry, no restart. *)
ReadInfo(t) ==
    /\ At(t, "info")
    /\ \/ /\ active[sid[t]] = None
          /\ Return(t, "none")
       \/ /\ active[sid[t]] # None
          /\ Goto(t, "get")
          /\ UNCHANGED <<answer, claim>>
    /\ UNCHANGED <<tables, os, op, sid, loc, raced>>

-----------------------------------------------------------------------------
(* The kernel *)

(* FFmpeg ends: its source is lost, or the signal has reached it. *)
Exit(p) ==
    /\ proc[p] \in Alive
    /\ proc' = [proc EXCEPT ![p] = "exited"]
    /\ UNCHANGED <<tables, owner, pc, op, sid, loc, answer, claim, raced>>

(* A Popen object keeps its zombie; once nothing refers to the object the  *)
(* pid is free.  An entry of _active_streams holds a number, not a Popen.  *)
Referenced(p) ==
    \/ \E s \in Streams : handle[s] = p
    \/ \E t \in Threads : ~At(t, "idle") /\ loc[t] = p

Recycle(p) ==
    /\ proc[p] = "exited"
    /\ ~Referenced(p)
    /\ proc'  = [proc EXCEPT ![p] = "free"]
    /\ owner' = [owner EXCEPT ![p] = None]
    /\ UNCHANGED <<tables, pc, op, sid, loc, answer, claim, raced>>

-----------------------------------------------------------------------------

Step(t) ==
    \/ NextOfAll(t)
    \/ CheckActive(t) \/ ReadPid(t) \/ Popen(t) \/ SetHandle(t) \/ SetActive(t)
    \/ GetProc(t) \/ Terminate(t) \/ Wait(t) \/ Reap(t) \/ DelHandle(t) \/ DelActive(t)
    \/ ReadInfo(t)

Invoke(t) ==
    \/ \E o \in Ops, s \in Streams : Call(t, o, s)
    \/ CallStopAll(t)

Next ==
    \/ \E t \in Threads : Invoke(t) \/ Step(t)
    \/ \E p \in Pids : Exit(p) \/ Recycle(p)

Spec == Init /\ [][Next]_vars

(* The interpreter schedules every thread that is inside a call, and a     *)
(* process sent SIGKILL dies.  No caller has to call, and an FFmpeg that   *)
(* only got SIGTERM may ignore it.                                         *)
Fairness ==
    /\ \A t \in Threads : WF_vars(Step(t))
    /\ \A p \in Pids : WF_vars(Exit(p) /\ proc[p] = "killed")

FairSpec == Spec /\ Fairness

-----------------------------------------------------------------------------
(* Properties *)

(* The thread still holds, in start_stream, the process it has created and *)
(* not yet entered in the table.                                           *)
Launching(t, s, p) == sid[t] = s /\ At(t, "set_handle") /\ loc[t] = p

(* A live FFmpeg can be stopped: it is the handle of its stream, or the    *)
(* start that created it is about to store it.  Holds for every stream     *)
(* whose calls never overlapped, whatever happens on the other streams;    *)
(* two overlapping starts, or two overlapping stops around a start, break  *)
(* it, because the engine has no lock.                                     *)
NoOrphan ==
    \A p \in Pids :
        (proc[p] \in Alive /\ owner[p] \notin raced) =>
            \/ handle[owner[p]] = p
            \/ \E t \in Threads : Launching(t, owner[p], p)

(* Never two live FFmpegs for one stream whose calls never overlapped,     *)
(* restarts included.                                                      *)
OneProcessPerStream ==
    \A p, q \in Pids :
        (proc[p] \in Alive /\ proc[q] \in Alive /\ owner[p] = owner[q]
            /\ owner[p] \notin raced) => p = q

(* Outside of a call the two dictionaries agree on every stream whose      *)
(* calls never overlapped: an entry without a handle would make the stream *)
(* neither startable nor stoppable.                                        *)
TablesAgree ==
    \A s \in Streams :
        (s \notin raced /\ \A t \in Threads : s \notin claim[t]) =>
            handle[s] = active[s]

(* Even when calls overlap: a handle, and the process a thread holds, are  *)
(* an FFmpeg of the same stream.                                           *)
OwnStream ==
    /\ \A s \in Streams : handle[s] # None => owner[handle[s]] = s
    /\ \A t \in Threads :
          pc[t] \in {"terminate", "wait", "reap", "set_handle"} =>
              owner[loc[t]] = sid[t]

(* Even when calls overlap: stop_stream goes on to the tables only when    *)
(* the process it took from them is dead.                                  *)
StopWaits ==
    \A t \in Threads :
        pc[t] \in {"del_handle", "del_active"} => proc[loc[t]] = "exited"

(* A handle is never dropped or replaced while its FFmpeg lives, on the    *)
(* streams whose calls never overlapped.                                   *)
NeverForgetsLive ==
    [][\A s \in Streams \ raced :
          (handle[s] # None /\ handle'[s] # handle[s]) =>
              proc[handle[s]] = "exited"]_vars

(* Every call returns: no stop waits for ever, not even for an FFmpeg that *)
(* ignores SIGTERM, and stop_all comes to the end of its loop.             *)
CallsReturn == \A t \in Threads : pc[t] # "idle" ~> pc[t] = "idle"

-----------------------------------------------------------------------------
(* The inductive invariant behind the safety properties.                   *)

(* Where a call stands, it claims its stream; an idle thread claims none.  *)
ClaimInv ==
    \A t \in Threads :
        /\ pc[t] = "idle" => claim[t] = {}
        /\ pc[t] \notin {"idle", "next"} => sid[t] \in claim[t]

(* On a stream whose calls never overlapped, one call works at a time.     *)
OneCall ==
    \A s \in Streams \ raced : \A t, u \in Threads :
        (s \in claim[t] /\ s \in claim[u]) => t = u

(* The process in a thread's hands is one of its stream, not yet recycled. *)
HoldsProcess ==
    \A t \in Threads :
        /\ pc[t] \in {"terminate", "wait", "reap", "set_handle", "set_active"} =>
              loc[t] \in Pids /\ owner[loc[t]] = sid[t] /\ proc[loc[t]] # "free"
        /\ pc[t] \in {"del_handle", "del_active"} =>
              loc[t] \in Pids /\ proc[loc[t]] = "exited"

(* A handle is a process of its stream that has not been recycled, and     *)
(* exactly the recycled pids have no stream.                               *)
OwnedProcess ==
    /\ \A s \in Streams :
          handle[s] # None => owner[handle[s]] = s /\ proc[handle[s]] # "free"
    /\ \A p \in Pids : proc[p] # "free" => owner[p] \in Streams

(* How far a call that never overlapped has brought the two dictionaries.  *)
Progress(t) ==
    LET h == handle[sid[t]]
        a == active[sid[t]]
    IN  /\ pc[t] \in {"check", "get", "info"} => h = a
        /\ pc[t] = "read" => h = a /\ a # None
        /\ pc[t] \in {"popen", "set_handle"} => h = None /\ a = None
        /\ pc[t] = "set_active" => h = loc[t] /\ a = None
        /\ pc[t] \in {"terminate", "wait", "reap", "del_handle"} => h = loc[t] /\ a = loc[t]
        /\ pc[t] = "del_active" => h = None /\ a = loc[t]

CallProgress ==
    \A t \in Threads :
        (pc[t] \notin {"idle", "next"} /\ sid[t] \notin raced) => Progress(t)

(* Between two calls, and while a stop_all has not reached the stream yet. *)
AtRest ==
    \A s \in Streams \ raced :
        (\A t \in Threads : pc[t] \in {"idle", "next"} \/ sid[t] # s) => handle[s] = active[s]

IInv ==
    /\ TypeOK
    /\ ClaimInv
    /\ OneCall
    /\ HoldsProcess
    /\ OwnedProcess
    /\ CallProgress
    /\ AtRest
    /\ NoOrphan
=============================================================================
