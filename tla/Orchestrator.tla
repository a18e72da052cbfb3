---------------------------- MODULE Orchestrator ----------------------------
(***************************************************************************)
(* The service supervisor (src/src/core/process/orchestrator.py) behind    *)
(* the commands start, stop, restart and heal of src/src/service.py.  It   *)
(* is no daemon: each command is a process of its own, reads the pid file, *)
(* compares it with the kernel, and writes the file back at its end.       *)
(* Nothing locks the file, so commands overlap; a command may die between  *)
(* any two steps; and the file outlives the processes it names.            *)
(*                                                                         *)
(* Abstracted: command lines, the process groups (a group is its leader),  *)
(* the order of the plan (any order), and the moment in which an exited    *)
(* child of a command that still runs is a zombie.                         *)
(*                                                                         *)
(* An operator X_what is X with a bug; no specification uses it.           *)
(***************************************************************************)
EXTENDS Naturals, FiniteSets

CONSTANTS
    Services,  \* process_plan(), by name
    Critical,  \* critical_processes()
    Commands,  \* command invocations that may exist at once
    Pids,      \* pids; bounds the live processes
    None,      \* no entry, no process
    Foreign    \* a process that is not ours

ASSUME CriticalIsService == Critical \subseteq Services
ASSUME NoneAndForeign == /\ None \notin Services \cup Pids
                         /\ Foreign \notin Services \cup {None}

VARIABLES
    file,     \* the pid file: service -> pid; no entry at all when it is absent or torn
    runs,     \* the kernel: pid -> what runs behind it
    termed,   \* pids that were sent SIGTERM and have not exited
    pc,       \* where each command is
    kind,     \* which command it is
    state,    \* the command's copy of the pid file
    left,     \* the services its loop has not reached
    turn,     \* the service its loop is at
    trouble   \* history: what has ever happened that the supervisor does not guard against

cli  == <<pc, kind, state, left, turn>>
supervisorVars == <<file, runs, termed, pc, kind, state, left, turn, trouble>>

Kinds == {"start", "stop", "restart", "heal"}
Pcs == {"idle", "read", "plan", "spawn", "truncate", "write", "stop_read", "signal", "unlink"}
Troubles == {"overlap", "crash", "reuse"}

PidFile == [Services -> Pids \cup {None}]
NoFile  == [s \in Services |-> None]

SupervisorTypeOK ==
    /\ file    \in PidFile
    /\ runs    \in [Pids -> Services \cup {None, Foreign}]
    /\ termed  \in SUBSET Pids
    /\ pc      \in [Commands -> Pcs]
    /\ kind    \in [Commands -> Kinds]
    /\ state   \in [Commands -> PidFile]
    /\ left    \in [Commands -> SUBSET Services]
    /\ turn    \in [Commands -> Services \cup {None}]
    /\ trouble \in SUBSET Troubles

SupervisorInit ==
    /\ file    = NoFile
    /\ runs    = [p \in Pids |-> None]
    /\ termed  = {}
    /\ pc      = [c \in Commands |-> "idle"]
    /\ kind    = [c \in Commands |-> "start"]
    /\ state   = [c \in Commands |-> NoFile]
    /\ left    = [c \in Commands |-> {}]
    /\ turn    = [c \in Commands |-> None]
    /\ trouble = {}

-----------------------------------------------------------------------------

At(c, here) == pc[c] = here
Goto(c, there) == pc' = [pc EXCEPT ![c] = there]

(* The command ends, and its memory with it. *)
End(c) ==
    /\ Goto(c, "idle")
    /\ state' = [state EXCEPT ![c] = NoFile]
    /\ left'  = [left EXCEPT ![c] = {}]
    /\ turn'  = [turn EXCEPT ![c] = None]
    /\ UNCHANGED kind

(* A pid the file, or a command's copy of it, names for some service. *)
Recorded(p) ==
    \/ \E s \in Services : file[s] = p
    \/ \E c \in Commands, s \in Services : state[c][s] = p

(* A pid recorded for another service than the one command c is about to   *)
(* spawn: spawning on it makes the old entry name the wrong service.       *)
RecordedBeyond(p, c) ==
    \E s \in Services \ {turn[c]} :
        \/ file[s] = p
        \/ \E d \in Commands : state[d][s] = p

(* os.kill(pid, 0): any process answers, not only the one that was spawned. *)
IsAlive(p) == p # None /\ runs[p] # None

(* python -m src.service <k> *)
Begin(c, k) ==
    /\ At(c, "idle")
    /\ kind'    = [kind EXCEPT ![c] = k]
    /\ trouble' = trouble \cup IF \E d \in Commands : ~At(d, "idle") THEN {"overlap"} ELSE {}
    /\ Goto(c, IF k \in {"stop", "restart"} THEN "stop_read" ELSE "read")
    /\ UNCHANGED <<file, runs, termed, state, left, turn>>

-----------------------------------------------------------------------------
(* start_all and reconcile *)

Scope(c) == IF kind[c] = "heal" THEN Critical ELSE Services

ReadState(c) ==
    /\ At(c, "read")
    /\ state' = [state EXCEPT ![c] = file]
    /\ left'  = [left EXCEPT ![c] = Scope(c)]
    /\ Goto(c, "plan")
    /\ UNCHANGED <<file, runs, termed, kind, turn, trouble>>

PlanNext_alwaysSpawns(c) ==
    /\ At(c, "plan")
    /\ \/ /\ left[c] = {}
          /\ Goto(c, "truncate")
          /\ UNCHANGED <<left, turn>>
       \/ \E s \in left[c] :
             /\ left' = [left EXCEPT ![c] = @ \ {s}]
             /\ turn' = [turn EXCEPT ![c] = s]
             /\ Goto(c, "spawn")
    /\ UNCHANGED <<file, runs, termed, kind, state, trouble>>

PlanNext_skipsOne(c) ==
    /\ At(c, "plan")
    /\ \/ /\ Cardinality(left[c]) <= 1
          /\ Goto(c, "truncate")
          /\ UNCHANGED <<left, turn>>
       \/ \E s \in left[c] :
             /\ left' = [left EXCEPT ![c] = @ \ {s}]
             /\ \/ /\ IsAlive(state[c][s])
                   /\ UNCHANGED <<pc, turn>>
                \/ /\ ~IsAlive(state[c][s])
                   /\ turn' = [turn EXCEPT ![c] = s]
                   /\ Goto(c, "spawn")
    /\ UNCHANGED <<file, runs, termed, kind, state, trouble>>

(* One turn of the loop: a live entry is left alone, anything else spawns. *)
PlanNext(c) ==
    /\ At(c, "plan")
    /\ \/ /\ left[c] = {}
          /\ Goto(c, "truncate")
          /\ UNCHANGED <<left, turn>>
       \/ \E s \in left[c] :
             /\ left' = [left EXCEPT ![c] = @ \ {s}]
             /\ \/ /\ IsAlive(state[c][s])
                   /\ UNCHANGED <<pc, turn>>
                \/ /\ ~IsAlive(state[c][s])
                   /\ turn' = [turn EXCEPT ![c] = s]
                   /\ Goto(c, "spawn")
    /\ UNCHANGED <<file, runs, termed, kind, state, trouble>>

Spawn_notRecorded(c) ==
    /\ At(c, "spawn")
    /\ \E p \in Pids :
          /\ runs[p] = None
          /\ runs' = [runs EXCEPT ![p] = turn[c]]
          /\ trouble' = trouble \cup IF Recorded(p) THEN {"reuse"} ELSE {}
    /\ turn' = [turn EXCEPT ![c] = None]
    /\ Goto(c, "plan")
    /\ UNCHANGED <<file, termed, kind, state, left>>

Spawn_recordsName(c) ==
    /\ At(c, "spawn")
    /\ \E p \in Pids :
          /\ runs[p] = None
          /\ runs'    = [runs EXCEPT ![p] = turn[c]]
          /\ state'   = [state EXCEPT ![c][turn[c]] = turn[c]]
          /\ trouble' = trouble \cup IF RecordedBeyond(p, c) THEN {"reuse"} ELSE {}
    /\ turn' = [turn EXCEPT ![c] = None]
    /\ Goto(c, "plan")
    /\ UNCHANGED <<file, termed, kind, left>>

(* _spawn: the new pid replaces the entry in the command's copy.  A Popen  *)
(* that raises ends the command (Die).                                     *)
Spawn(c) ==
    /\ At(c, "spawn")
    /\ \E p \in Pids :
          /\ runs[p] = None
          /\ runs'    = [runs EXCEPT ![p] = turn[c]]
          /\ state'   = [state EXCEPT ![c][turn[c]] = p]
          /\ trouble' = trouble \cup IF RecordedBeyond(p, c) THEN {"reuse"} ELSE {}
    /\ turn' = [turn EXCEPT ![c] = None]
    /\ Goto(c, "plan")
    /\ UNCHANGED <<file, termed, kind, left>>

(* _write_state, first half: write_text opens the file with truncation.  A *)
(* reader gets a JSONDecodeError, which _read_state takes for no state.    *)
Truncate(c) ==
    /\ At(c, "truncate")
    /\ file' = NoFile
    /\ Goto(c, "write")
    /\ UNCHANGED <<runs, termed, kind, state, left, turn, trouble>>

Write(c) ==
    /\ At(c, "write")
    /\ file' = state[c]
    /\ End(c)
    /\ UNCHANGED <<runs, termed, trouble>>

-----------------------------------------------------------------------------
(* stop_all *)

(* stop_all returns: to the shell, or to the start of a restart. *)
Stopped(c) ==
    IF kind[c] = "restart"
    THEN /\ Goto(c, "read")
         /\ state' = [state EXCEPT ![c] = NoFile]
         /\ UNCHANGED <<kind, left, turn>>
    ELSE End(c)

StopRead(c) ==
    /\ At(c, "stop_read")
    /\ \/ /\ file = NoFile
          /\ Stopped(c)
       \/ /\ file # NoFile
          /\ state' = [state EXCEPT ![c] = file]
          /\ left'  = [left EXCEPT ![c] = {s \in Services : file[s] # None}]
          /\ Goto(c, "signal")
          /\ UNCHANGED <<kind, turn>>
    /\ UNCHANGED <<file, runs, termed, trouble>>

(* killpg(getpgid(pid), SIGTERM); the exceptions are logged. *)
Signal(c) ==
    /\ At(c, "signal")
    /\ \/ /\ left[c] = {}
          /\ Goto(c, "unlink")
          /\ UNCHANGED <<termed, left>>
       \/ \E s \in left[c] :
             /\ left'   = [left EXCEPT ![c] = @ \ {s}]
             /\ termed' = termed \cup {p \in {state[c][s]} : IsAlive(p)}
             /\ UNCHANGED pc
    /\ UNCHANGED <<file, runs, kind, state, turn, trouble>>

(* pid_file.unlink(missing_ok=True): nothing waits for the processes. *)
Unlink(c) ==
    /\ At(c, "unlink")
    /\ file' = NoFile
    /\ Stopped(c)
    /\ UNCHANGED <<runs, termed, trouble>>

-----------------------------------------------------------------------------
(* The machine *)

(* A command is killed, or raises. *)
Die(c) ==
    /\ ~At(c, "idle")
    /\ End(c)
    /\ trouble' = trouble \cup {"crash"}
    /\ UNCHANGED <<file, runs, termed>>

(* A process ends by itself (watchdog and monitor run once and return), by *)
(* a failure (an api whose port is taken), or by the signal.               *)
Exit(p) ==
    /\ runs[p] # None
    /\ runs'   = [runs EXCEPT ![p] = None]
    /\ termed' = termed \ {p}
    /\ UNCHANGED <<file, cli, trouble>>

(* The kernel gives a free pid to a process of somebody else. *)
ForeignStart(p) ==
    /\ runs[p] = None
    /\ runs'    = [runs EXCEPT ![p] = Foreign]
    /\ trouble' = trouble \cup IF Recorded(p) THEN {"reuse"} ELSE {}
    /\ UNCHANGED <<file, termed, cli>>

(* The machine reboots: the pid file is all that remains.  A command that  *)
(* was running is lost half-way, as in a crash.                            *)
Reboot ==
    /\ runs'    = [p \in Pids |-> None]
    /\ termed'  = {}
    /\ pc'      = [c \in Commands |-> "idle"]
    /\ state'   = [c \in Commands |-> NoFile]
    /\ left'    = [c \in Commands |-> {}]
    /\ turn'    = [c \in Commands |-> None]
    /\ trouble' = trouble \cup IF \E c \in Commands : ~At(c, "idle") THEN {"crash"} ELSE {}
    /\ UNCHANGED <<file, kind>>

-----------------------------------------------------------------------------

Step(c) ==
    \/ ReadState(c) \/ PlanNext(c) \/ Spawn(c) \/ Truncate(c) \/ Write(c)
    \/ StopRead(c) \/ Signal(c) \/ Unlink(c)

SupervisorNext ==
    \/ \E c \in Commands : (\E k \in Kinds : Begin(c, k)) \/ Step(c) \/ Die(c)
    \/ \E p \in Pids : Exit(p) \/ ForeignStart(p)
    \/ Reboot

SupervisorSpec == SupervisorInit /\ [][SupervisorNext]_supervisorVars

-----------------------------------------------------------------------------
(* Properties *)

(* Our processes that nobody has asked to stop. *)
Ours == {p \in Pids : runs[p] \in Services /\ p \notin termed}

(* The supervisor can find every process it has started: the pid file has  *)
(* it, or the command that started it is about to write it there.  Holds   *)
(* as long as no two commands have overlapped and none has died half-way;  *)
(* also across reboots and reused pids.                                    *)
NoStray ==
    trouble \cap {"overlap", "crash"} = {} =>
        \A p \in Ours :
            \/ file[runs[p]] = p
            \/ \E c \in Commands : state[c][runs[p]] = p

(* Under the same condition no service runs twice, except beside a copy of *)
(* itself that has been told to stop.                                      *)
OnePerService ==
    trouble \cap {"overlap", "crash"} = {} =>
        \A p, q \in Ours : runs[p] = runs[q] => p = q

(* What start or heal is about to write names a process for every service  *)
(* in its scope, and that process is the service or has died since: no     *)
(* command reports, or records, a service it has not looked at.  Needs     *)
(* only that no recorded pid was reused.                                   *)
WritesWhatItChecked ==
    "reuse" \notin trouble =>
        \A c \in Commands : pc[c] \in {"truncate", "write"} =>
            \A s \in Scope(c) :
                state[c][s] # None /\ runs[state[c][s]] \in {s, None}

(* Why they hold: until commands overlap or one dies, a single command is  *)
(* at work, and at each of its steps one map names every process of ours:  *)
(* the file before it has read it, its copy from then on.  What it is      *)
(* about to spawn is not running, what it has signalled is no longer ours. *)
Calm == trouble \cap {"overlap", "crash"} = {}
OneAtATime == Calm => \A c, d \in Commands : ~At(c, "idle") /\ ~At(d, "idle") => c = d

Names(map) == \A p \in Ours : map[runs[p]] = p
Found ==
    Calm =>
        /\ (\A c \in Commands : At(c, "idle")) => Names(file)
        /\ \A c \in Commands :
              /\ pc[c] \in {"read", "stop_read"} => Names(file)
              /\ pc[c] \in {"plan", "spawn", "truncate", "write", "signal"} => Names(state[c])
              /\ At(c, "spawn") => \A p \in Ours : runs[p] # turn[c]
              /\ At(c, "signal") => \A p \in Ours : runs[p] \in left[c]
              /\ At(c, "unlink") => Ours = {}

(* As long as no recorded pid is reused, what is recorded is the service   *)
(* or is dead.                                                             *)
RecordsHold ==
    "reuse" \notin trouble =>
        \A s \in Services, p \in Pids :
            (file[s] = p \/ \E c \in Commands : state[c][s] = p) => runs[p] \in {s, None}

(* What a loop has passed has an entry; only the one it spawns may not.    *)
LoopRecords ==
    \A c \in Commands :
        /\ At(c, "spawn") => turn[c] \in Services
        /\ pc[c] \in {"truncate", "write"} => left[c] = {}
        /\ pc[c] \in {"plan", "spawn", "truncate", "write"} =>
              \A s \in Scope(c) \ left[c] : state[c][s] # None \/ (At(c, "spawn") /\ turn[c] = s)

SupervisorIInv == SupervisorTypeOK /\ OneAtATime /\ Found /\ RecordsHold /\ LoopRecords
=============================================================================
