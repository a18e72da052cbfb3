----------------------------- MODULE StreamQueue -----------------------------
(***************************************************************************)
(* The stream queue: the table stream_queue, the admin operations on it    *)
(* (src/src/domain/stream/queue_service.py, `cmd:queue'), and the passes   *)
(* of cron_queue (src/src/cli/console.py) that work it off.  A pass is a   *)
(* process: the queue worker starts one every 30 seconds, the watchdog and *)
(* cron:streams start more, and nothing keeps two from running together.   *)
(* Each commit is one action.  A pass reads the pending items once, at its *)
(* start, and may die between any two commits.                             *)
(*                                                                         *)
(* The call streaming_engine.start_stream(stream.id) lacks the argument    *)
(* source_url, so it raises a TypeError for every item, which the loop     *)
(* turns into `failed'; the commit of `completed' is never reached and has *)
(* no action here.  Deleting a stream deletes its items (ON DELETE CASCADE)*)
(* so the branch `Stream not found' is never reached either.               *)
(*                                                                         *)
(* Abstracted: servers, timestamps and error texts.  An item's priority is *)
(* fixed; a later id was created later.                                    *)
(*                                                                         *)
(* An operator X_what is X with a bug; no specification uses it.           *)
(***************************************************************************)
EXTENDS Naturals, FiniteSets

CONSTANTS
    Items,       \* row ids, in the order of creation; bounds what is ever added
    Passes,      \* cron_queue processes that may run at once
    Priority,    \* item -> priority
    MaxCrashes   \* bounds the passes that die half-way

ASSUME ItemsAreIds == Items \subseteq Nat
ASSUME PriorityType == Priority \in [Items -> Nat]
ASSUME MaxCrashesType == MaxCrashes \in Nat

VARIABLES
    status,     \* item -> status column, or absent / gone
    todo,       \* pass -> the items it has read and not reached
    cur,        \* pass -> the item it is at, as a set of at most one
    crashes,    \* passes that died so far
    abandoned,  \* history: items a dying pass was at
    disturbed   \* history: items two passes held at once, or that were
                \* retried while a pass held them

vars == <<status, todo, cur, crashes, abandoned, disturbed>>

Statuses == {"pending", "processing", "failed"}
Row(i) == status[i] \in Statuses

TypeOK ==
    /\ status    \in [Items -> Statuses \cup {"absent", "gone"}]
    /\ todo      \in [Passes -> SUBSET Items]
    /\ cur       \in [Passes -> SUBSET Items]
    /\ \A p \in Passes : \A i, j \in cur[p] : i = j
    /\ crashes   \in 0 .. MaxCrashes
    /\ abandoned \in SUBSET Items
    /\ disturbed \in SUBSET Items

Init ==
    /\ status    = [i \in Items |-> "absent"]
    /\ todo      = [p \in Passes |-> {}]
    /\ cur       = [p \in Passes |-> {}]
    /\ crashes   = 0
    /\ abandoned = {}
    /\ disturbed = {}

-----------------------------------------------------------------------------
(* QueueService and cmd:queue *)

Held(i) == \E p \in Passes : i \in todo[p] \cup cur[p]

Add(i) ==
    /\ status[i] = "absent"
    /\ \A j \in Items : j < i => status[j] # "absent"
    /\ status' = [status EXCEPT ![i] = "pending"]
    /\ UNCHANGED <<todo, cur, crashes, abandoned, disturbed>>

Remove(i) ==
    /\ Row(i)
    /\ status' = [status EXCEPT ![i] = "gone"]
    /\ UNCHANGED <<todo, cur, crashes, abandoned, disturbed>>

(* Whatever the status is; also while a pass works on the item. *)
Retry(i) ==
    /\ Row(i)
    /\ status'    = [status EXCEPT ![i] = "pending"]
    /\ abandoned' = abandoned \ {i}
    /\ disturbed' = IF Held(i) THEN disturbed \cup {i} ELSE disturbed
    /\ UNCHANGED <<todo, cur, crashes>>

DeleteRows(ss) ==
    /\ status' = [i \in Items |-> IF status[i] \in ss THEN "gone" ELSE status[i]]
    /\ UNCHANGED <<todo, cur, crashes, abandoned, disturbed>>

(* clear(status) and clear() *)
Clear == \E ss \in {{x} : x \in Statuses} \cup {Statuses} : DeleteRows(ss)

(* cmd:queue: `clear' deletes what is done (no row is ever `completed');   *)
(* `add' gives no server_id and always fails; alone it lists the rows.     *)
CmdQueue == DeleteRows({"completed", "failed"})

-----------------------------------------------------------------------------
(* cron_queue *)

Idle(p) == todo[p] = {} /\ cur[p] = {}

(* The pass reads its list; with nothing pending it ends at once. *)
BeginPass(p) ==
    LET pending == {i \in Items : status[i] = "pending"}
    IN  /\ Idle(p)
        /\ pending # {}
        /\ todo' = [todo EXCEPT ![p] = pending]
        /\ disturbed' = disturbed \cup {i \in pending : Held(i)}
        /\ UNCHANGED <<status, cur, crashes, abandoned>>

(* ORDER BY priority DESC, created_at *)
Before(i, j) == Priority[i] > Priority[j] \/ (Priority[i] = Priority[j] /\ i < j)
IsFirst(i, items) == i \in items /\ \A j \in items \ {i} : Before(i, j)

(* The UPDATE matches no row: StaleDataError, and the commit in its handler*)
(* raises too, so the outer handler rolls back and the pass is over.       *)
Abort(p) ==
    /\ todo' = [todo EXCEPT ![p] = {}]
    /\ cur'  = [cur EXCEPT ![p] = {}]

Reach(p, i) ==
    /\ cur'  = [cur EXCEPT ![p] = {i}]
    /\ todo' = [todo EXCEPT ![p] = @ \ {i}]

Claim_mergesRow(p) ==
    /\ cur[p] = {}
    /\ \E i \in todo[p] :
          /\ IsFirst(i, todo[p])
          /\ status' = [status EXCEPT ![i] = "processing"]
          /\ Reach(p, i)
    /\ UNCHANGED <<crashes, abandoned, disturbed>>

(* status = processing and commit, whatever the status has become since    *)
(* the list was read.                                                      *)
Claim(p) ==
    /\ cur[p] = {}
    /\ \E i \in todo[p] :
          /\ IsFirst(i, todo[p])
          /\ \/ /\ Row(i)
                /\ status' = [status EXCEPT ![i] = "processing"]
                /\ Reach(p, i)
             \/ /\ ~Row(i)
                /\ Abort(p)
                /\ UNCHANGED status
    /\ UNCHANGED <<crashes, abandoned, disturbed>>

Finish_skipsCommit(p) ==
    /\ cur[p] # {}
    /\ cur' = [cur EXCEPT ![p] = {}]
    /\ UNCHANGED <<status, todo, crashes, abandoned, disturbed>>

(* start_stream raises; status = failed and commit. *)
Finish(p) ==
    /\ \E i \in cur[p] :
          \/ /\ Row(i)
             /\ status' = [status EXCEPT ![i] = "failed"]
             /\ cur'    = [cur EXCEPT ![p] = {}]
             /\ UNCHANGED todo
          \/ /\ ~Row(i)
             /\ Abort(p)
             /\ UNCHANGED status
    /\ UNCHANGED <<crashes, abandoned, disturbed>>

(* The process is killed: by the SIGTERM its worker's group gets when the  *)
(* services stop, or with the machine.                                     *)
Crash(p) ==
    /\ ~Idle(p)
    /\ crashes < MaxCrashes
    /\ crashes'   = crashes + 1
    /\ abandoned' = abandoned \cup cur[p]
    /\ Abort(p)
    /\ UNCHANGED <<status, disturbed>>

-----------------------------------------------------------------------------

Pass(p) == BeginPass(p) \/ Claim(p) \/ Finish(p)

Next ==
    \/ \E i \in Items : Add(i) \/ Remove(i) \/ Retry(i)
    \/ Clear
    \/ CmdQueue
    \/ \E p \in Passes : Pass(p) \/ Crash(p)

Spec == Init /\ [][Next]_vars

(* The queue worker starts a pass again and again, and a pass that is not  *)
(* killed goes on.  No administrator has to do anything.                   *)
Fairness == \A p \in Passes : WF_vars(Pass(p))
FairSpec == Spec /\ Fairness

-----------------------------------------------------------------------------
(* Properties *)

(* An item stays `processing' only while a pass is at it, or when the pass *)
(* at it died: only a retry brings such an item back.                      *)
ProcessingIsHeld ==
    \A i \in Items :
        status[i] = "processing" => i \in abandoned \/ \E p \in Passes : i \in cur[p]

(* The queue of the database is the work queue an administrator thinks of.*)
Life(s) ==
    IF s = "absent" THEN "unborn"
    ELSE IF s = "pending" THEN "waiting"
    ELSE IF s = "processing" THEN "working"
    ELSE IF s = "failed" THEN "done" ELSE "withdrawn"

Queue == INSTANCE WorkQueue WITH life <- [i \in Items |-> Life(status[i])], again <- disturbed

(* Why it does: an item that was handed out once is in the hands of one    *)
(* pass, and its status is the one that pass has left it with.             *)
Holds(p, i) == i \in todo[p] \cup cur[p]

OneHolder ==
    \A i \in Items \ disturbed : \A p, q \in Passes :
        /\ Holds(p, i) /\ Holds(q, i) => p = q
        /\ i \notin todo[p] \cap cur[p]

AsLeft ==
    \A i \in Items \ disturbed : \A p \in Passes :
        /\ i \in todo[p] => status[i] \in {"pending", "gone"}
        /\ i \in cur[p]  => status[i] \in {"processing", "gone"}

IInv == TypeOK /\ OneHolder /\ AsLeft /\ ProcessingIsHeld

(* However passes, retries, removals and crashes interleave: an item goes  *)
(* from waiting to working to done in this order as long as one pass at a  *)
(* time holds it, whatever the passes commit from lists they read long     *)
(* ago; a removed item never comes back; and a waiting item is taken up,   *)
(* although a removal under way ends a whole pass and passes die.          *)
ImplementsWorkQueue == Queue!Spec

(* The same without its promise that waiting items are taken up. *)
ImplementsSafety == Queue!Safety
=============================================================================
