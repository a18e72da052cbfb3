----------------------------- MODULE Connections -----------------------------
(***************************************************************************)
(* Who may watch: the connection limit of a user, as the API workers       *)
(* enforce it together (src/src/public/controllers/api/streaming_routes.py,*)
(* src/src/streaming/protection/connection_limiter.py, the lines table).   *)
(*                                                                         *)
(* A worker is a process with one event loop and its own limiter; the      *)
(* lines table is shared.  live_stream has no await, so it runs without a  *)
(* break in its worker; between its database statements the other workers  *)
(* run.  live_drm_key awaits the key provider and lets its worker serve    *)
(* other requests meanwhile.  Workers die; what they held in memory is     *)
(* gone, what they had committed stays.                                    *)
(*                                                                         *)
(* Abstracted: the checks that only refuse (password, address, bouquet,    *)
(* user agent, country, output format: a refusal changes nothing), the     *)
(* off-air pages, and what is sent; the age of a line is: may be stale.    *)
(* max_connections does not change, and no line is entered by hand.        *)
(*                                                                         *)
(* An operator X_what is X with a bug; no specification uses it.           *)
(***************************************************************************)
EXTENDS Naturals, FiniteSets

CONSTANTS
    Workers,   \* API worker processes
    Users,
    Requests,  \* requests that may be in flight at once
    Rows,      \* ids of rows of lines; bounds the rows that exist at once
    UserOf,    \* request -> its user
    ConnOf,    \* request -> f"{user.id}_{stream_id}_{client_ip}"
    IsLive,    \* request -> live_stream (TRUE) or live_drm_key (FALSE)
    Max,       \* user -> max_connections
    MaxCrashes,\* bounds the worker crashes
    None

ASSUME RequestsHaveUsers == UserOf \in [Requests -> Users]
ASSUME LiveOrKey == IsLive \in [Requests -> BOOLEAN]
ASSUME MaxType == Max \in [Users -> Nat]
ASSUME FiniteBounds == IsFiniteSet(Workers) /\ IsFiniteSet(Rows) /\ MaxCrashes \in Nat
ASSUME NoneIsNothing == None \notin Users \cup Workers \cup Rows
(* The connection id holds the user's id. *)
ASSUME ConnNamesUser ==
    \A r, q \in Requests : ConnOf[r] = ConnOf[q] => UserOf[r] = UserOf[q]

VARIABLES
    limiter,   \* worker -> the connection ids its ConnectionLimiter holds
    line,      \* lines: row id -> user, or None for no row
    pc,        \* where each request is
    at,        \* the worker that serves it
    mine,      \* the row the request has created
    leaked,    \* history: rows whose worker died before it removed them
    stuck,     \* history: worker -> the ids of its slots that a failed insertion left
    crashes

slots == <<limiter, stuck>>
vars  == <<slots, line, pc, at, mine, leaked, crashes>>

Pcs == {"idle", "admitted", "lined", "leaving", "awaiting"}
Conns == {ConnOf[r] : r \in Requests}

TypeOK ==
    /\ limiter \in [Workers -> SUBSET Conns]
    /\ line    \in [Rows -> Users \cup {None}]
    /\ pc      \in [Requests -> Pcs]
    /\ at      \in [Requests -> Workers \cup {None}]
    /\ mine    \in [Requests -> Rows \cup {None}]
    /\ leaked  \in SUBSET Rows
    /\ stuck   \in [Workers -> SUBSET Conns]
    /\ crashes \in 0 .. MaxCrashes

Init ==
    /\ limiter = [w \in Workers |-> {}]
    /\ line    = [l \in Rows |-> None]
    /\ pc      = [r \in Requests |-> "idle"]
    /\ at      = [r \in Requests |-> None]
    /\ mine    = [r \in Requests |-> None]
    /\ leaked  = {}
    /\ stuck   = [w \in Workers |-> {}]
    /\ crashes = 0

-----------------------------------------------------------------------------

LinesOf(u) == {l \in Rows : line[l] = u}
SlotsOf(w, u) == {c \in limiter[w] : \E r \in Requests : ConnOf[r] = c /\ UserOf[r] = u}
InFlight(r) == pc[r] # "idle"

(* can_connect of the user service and of the worker's limiter *)
Admissible(u, w) ==
    Cardinality(LinesOf(u)) < Max[u] /\ Cardinality(SlotsOf(w, u)) < Max[u]

(* The event loop of w is inside a handler: a live request at any of its   *)
(* statements.  A request that awaits is not.                              *)
Occupied(w) == \E r \in Requests : at[r] = w /\ pc[r] \in {"admitted", "lined", "leaving"}

Done(r) ==
    /\ pc'   = [pc EXCEPT ![r] = "idle"]
    /\ at'   = [at EXCEPT ![r] = None]
    /\ mine' = [mine EXCEPT ![r] = None]

(* remove_connection: a set discards the id, whoever else uses it. *)
Release(r) ==
    /\ limiter' = [limiter EXCEPT ![at[r]] = @ \ {ConnOf[r]}]
    /\ stuck'   = [stuck EXCEPT ![at[r]] = @ \ {ConnOf[r]}]

Enters(r, w) ==
    /\ at' = [at EXCEPT ![r] = w]
    /\ pc' = [pc EXCEPT ![r] = IF IsLive[r] THEN "admitted" ELSE "awaiting"]
    /\ UNCHANGED <<line, mine, leaked, stuck, crashes>>

Admit_userAsSlot(r, w) ==
    /\ ~InFlight(r)
    /\ ~Occupied(w)
    /\ Admissible(UserOf[r], w)
    /\ limiter' = [limiter EXCEPT ![w] = @ \cup {UserOf[r]}]
    /\ Enters(r, w)

Admit_noCount(r, w) ==
    /\ ~InFlight(r)
    /\ ~Occupied(w)
    /\ Cardinality(SlotsOf(w, UserOf[r])) < Max[UserOf[r]]
    /\ limiter' = [limiter EXCEPT ![w] = @ \cup {ConnOf[r]}]
    /\ Enters(r, w)

(* From authenticate to add_connection.  The transaction's snapshot, which *)
(* also serves UserService.can_connect, is taken by its first SELECT; the  *)
(* limiter is the worker's own.                                            *)
Admit(r, w) ==
    /\ ~InFlight(r)
    /\ ~Occupied(w)
    /\ Admissible(UserOf[r], w)
    /\ limiter' = [limiter EXCEPT ![w] = @ \cup {ConnOf[r]}]
    /\ Enters(r, w)

CreateLine_forgetsRow(r) ==
    /\ pc[r] = "admitted"
    /\ \E l \in Rows :
          /\ line[l] = None
          /\ line' = [line EXCEPT ![l] = UserOf[r]]
    /\ pc' = [pc EXCEPT ![r] = "lined"]
    /\ UNCHANGED <<slots, at, mine, leaked, crashes>>

(* create_line commits the row, *)
CreateLine(r) ==
    /\ pc[r] = "admitted"
    /\ \E l \in Rows :
          /\ line[l] = None
          /\ line' = [line EXCEPT ![l] = UserOf[r]]
          /\ mine' = [mine EXCEPT ![r] = l]
    /\ pc' = [pc EXCEPT ![r] = "lined"]
    /\ UNCHANGED <<slots, at, leaked, crashes>>

(* or raises: the user, the stream or server 1 is not there, or the        *)
(* database is not.  The failed flush has expired every object of the      *)
(* session and left its transaction inactive, so `user.id', the first      *)
(* thing the finally clause evaluates, raises as well, and the slot stays. *)
CreateFails(r) ==
    /\ pc[r] = "admitted"
    /\ stuck' = [stuck EXCEPT ![at[r]] = @ \cup {ConnOf[r]}]
    /\ Done(r)
    /\ UNCHANGED <<limiter, line, leaked, crashes>>

Answer_keepsSlot(r) ==
    /\ pc[r] = "lined"
    /\ pc' = [pc EXCEPT ![r] = "leaving"]
    /\ UNCHANGED <<slots, line, at, mine, leaked, crashes>>

(* The answer is decided; the finally clause starts with the slot.         *)
Answer(r) ==
    /\ pc[r] = "lined"
    /\ Release(r)
    /\ pc' = [pc EXCEPT ![r] = "leaving"]
    /\ UNCHANGED <<line, at, mine, leaked, crashes>>

(* remove_line: nothing happens when the row is gone already.  Only now    *)
(* the answer goes out: an error, or a redirect or a playlist, with which  *)
(* the client plays on its own and is counted no more.                     *)
RemoveLine(r) ==
    /\ pc[r] = "leaving"
    /\ line' = [l \in Rows |-> IF l = mine[r] THEN None ELSE line[l]]
    /\ Done(r)
    /\ UNCHANGED <<slots, leaked, crashes>>

(* live_drm_key resumes after the provider's answer or error. *)
KeyAnswer(r) ==
    /\ pc[r] = "awaiting"
    /\ ~Occupied(at[r])
    /\ Release(r)
    /\ Done(r)
    /\ UNCHANGED <<line, leaked, crashes>>

(* live_subtitle, live_thumb, the segment and the rtmp route take a slot   *)
(* and give it back without an await: what is left to see is that the slot *)
(* of another request of the same device has gone.                         *)
Glance(r, w) ==
    /\ ~Occupied(w)
    /\ Admissible(UserOf[r], w)
    /\ limiter' = [limiter EXCEPT ![w] = @ \ {ConnOf[r]}]
    /\ stuck'   = [stuck EXCEPT ![w] = @ \ {ConnOf[r]}]
    /\ UNCHANGED <<line, pc, at, mine, leaked, crashes>>

-----------------------------------------------------------------------------
(* Everybody else *)

(* Ids are never reused: the model reuses an id only when no request       *)
(* remembers it.                                                           *)
Forget(ls) ==
    /\ line'   = [l \in Rows |-> IF l \in ls THEN None ELSE line[l]]
    /\ mine'   = [r \in Requests |-> IF mine[r] \in ls THEN None ELSE mine[r]]
    /\ leaked' = leaked \ ls
    /\ UNCHANGED <<slots, pc, at, crashes>>

(* kill_connection, kill_batch, closeConnection, cmd:kill *)
KillLine(l) == line[l] # None /\ Forget({l})

(* kill_by_user, remove_user_lines, the deletion of the user *)
KillUser(u) == LinesOf(u) # {} /\ Forget(LinesOf(u))

(* cron_connections removes the lines older than five minutes: those of    *)
(* requests that died, and of one that takes that long.                    *)
Prune_onlyServed ==
    \E ls \in SUBSET ({mine[r] : r \in Requests} \cap Rows) : ls # {} /\ Forget(ls)

Prune ==
    \E ls \in SUBSET {l \in Rows : line[l] # None} : ls # {} /\ Forget(ls)

(* A worker dies and a new one takes its place with an empty limiter.      *)
Crash(w) ==
    LET lost == {r \in Requests : at[r] = w}
    IN  /\ crashes < MaxCrashes
        /\ crashes' = crashes + 1
        /\ limiter' = [limiter EXCEPT ![w] = {}]
        /\ stuck'   = [stuck EXCEPT ![w] = {}]
        /\ leaked'  = leaked \cup ({mine[r] : r \in lost} \cap Rows)
        /\ pc'   = [r \in Requests |-> IF r \in lost THEN "idle" ELSE pc[r]]
        /\ at'   = [r \in Requests |-> IF r \in lost THEN None ELSE at[r]]
        /\ mine' = [r \in Requests |-> IF r \in lost THEN None ELSE mine[r]]
        /\ UNCHANGED line

-----------------------------------------------------------------------------

Serve(r) == CreateLine(r) \/ CreateFails(r) \/ Answer(r) \/ RemoveLine(r) \/ KeyAnswer(r)

Next ==
    \/ \E r \in Requests : (\E w \in Workers : Admit(r, w) \/ Glance(r, w)) \/ Serve(r)
    \/ \E l \in Rows : KillLine(l)
    \/ \E u \in Users : KillUser(u)
    \/ Prune
    \/ \E w \in Workers : Crash(w)

Spec == Init /\ [][Next]_vars

(* A worker that is up goes on with its handler; the provider's timeout    *)
(* ends every await; the scheduler runs cron:connections every minute, and *)
(* once workers have stopped dying all lines left behind are five minutes  *)
(* old in the end.                                                         *)
Fairness ==
    /\ \A r \in Requests : WF_vars(Serve(r)) /\ SF_vars(KeyAnswer(r))
    /\ WF_vars(leaked # {} /\ Prune /\ leaked' = {})
FairSpec == Spec /\ Fairness

-----------------------------------------------------------------------------
(* Properties *)

(* No slot outlives its requests: each id in a limiter is that of a        *)
(* request the worker is serving, or an insertion that failed left it.     *)
Served(w, c) == \E r \in Requests : InFlight(r) /\ at[r] = w /\ ConnOf[r] = c
SlotsAreServed ==
    \A w \in Workers : \A c \in limiter[w] : Served(w, c) \/ c \in stuck[w]

(* The workers check the count and insert in different transactions, so    *)
(* together they exceed the limit, but by no more than one line for each   *)
(* worker but one, whatever crashes, is killed or is pruned in between.    *)
OvershootIsBounded ==
    \A u \in Users :
        Max[u] > 0 => Cardinality(LinesOf(u)) <= Max[u] - 1 + Cardinality(Workers)

(* A line exists for a request in flight, or its worker has died: nothing  *)
(* else can lock a user out.                                               *)
LinesAreServed ==
    \A l \in Rows :
        line[l] # None => l \in leaked \/ \E r \in Requests : mine[r] = l

(* Why they hold: a worker is inside one handler at a time, a request has  *)
(* a row only between its insertion and its removal, and one that leaves   *)
(* has given its slot back.                                                *)
Handled(r) == pc[r] \in {"admitted", "lined", "leaving"}
OneHandler ==
    /\ \A r \in Requests : InFlight(r) <=> at[r] \in Workers
    /\ \A r, q \in Requests : Handled(r) /\ Handled(q) /\ at[r] = at[q] => r = q
    /\ \A r \in Requests : InFlight(r) => (pc[r] = "awaiting" <=> ~IsLive[r])

RowInHand == \A r \in Requests : mine[r] # None => pc[r] \in {"lined", "leaving"}

LeftWithoutSlot ==
    \A r \in Requests : pc[r] = "leaving" => ConnOf[r] \notin limiter[at[r]]

(* The workers that have admitted a request of the user and not inserted   *)
(* its row yet: each of them saw a free place, and they may all be right   *)
(* about the same one.                                                     *)
Inserting(u) == {w \in Workers : \E r \in Requests : pc[r] = "admitted" /\ at[r] = w /\ UserOf[r] = u}
PlacesTaken ==
    \A u \in Users : Max[u] > 0 =>
        Cardinality(LinesOf(u)) + Cardinality(Inserting(u)) <= Max[u] - 1 + Cardinality(Workers)

IInv ==
    TypeOK /\ OneHandler /\ RowInHand /\ LeftWithoutSlot
    /\ SlotsAreServed /\ LinesAreServed /\ PlacesTaken

(* No user is locked out for good by what his requests hold and what dead  *)
(* workers left in the table: a worker that refuses him now would admit    *)
(* him later, or a failed insertion has left it with a slot of his.        *)
LockoutEnds ==
    \A u \in Users, w \in Workers :
        Max[u] > 0 /\ ~Admissible(u, w) ~>
            Admissible(u, w) \/ stuck[w] \cap SlotsOf(w, u) # {}
=============================================================================
