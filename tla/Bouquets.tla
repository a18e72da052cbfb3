------------------------------ MODULE Bouquets ------------------------------
(***************************************************************************)
(* The channel lists of the bouquets under the administrators' requests    *)
(* (src/src/public/controllers/admin/bouquet_routes.py and                 *)
(* src/src/domain/bouquet/service.py), and what the users may watch.       *)
(*                                                                         *)
(* add-streams, remove-streams, reorder-channels and PUT read the row,     *)
(* compute a new list, and write it in a later statement; nothing locks    *)
(* the row in between.  Each is a Read and a Commit here.  The ORM writes  *)
(* a column only when its value differs from the one that was read, and    *)
(* an UPDATE that matches no row raises StaleDataError.                    *)
(*                                                                         *)
(* Abstracted: the order in a list and of the bouquets, the name, and the  *)
(* movie, radio and series lists, which only PUT writes, as it writes the  *)
(* channels.  MySQL 8 never gives a bouquet id twice.                      *)
(*                                                                         *)
(* An operator X_what beside an action X is X with a bug a maintainer      *)
(* could make; no specification uses it.                                   *)
(***************************************************************************)
EXTENDS BouquetAccess, Naturals

CONSTANTS
    Admins,   \* requests of administrators that may be in progress
    Users,    \* users who are not administrators
    PutLists, \* the channel lists that PUT, POST and reorder requests give
    None      \* no request

ASSUME PutListsAreLists == PutLists \subseteq SUBSET Streams

VARIABLES
    rows,     \* the table of bouquets
    string,   \* the bouquet column of each user
    req       \* the request each administrator is in

vars == <<rows, string, req>>

(* bid: the bouquet; read: its list as read; list: the list to write;      *)
(* ask: the streams the request names; adds: whether it wants them in.     *)
Requests ==
    [bid : Bids, read : SUBSET Streams, list : SUBSET Streams,
     ask : SUBSET Streams, op : {"add", "remove", "put"}]

TypeOK ==
    /\ rows \in [Bids -> BouquetRow]
    /\ string \in [Users -> BouquetStrings]
    /\ req \in [Admins -> Requests \cup {None}]

Init ==
    /\ rows = [b \in Bids |-> NoBouquet]
    /\ string = [u \in Users |-> {}]
    /\ req = [a \in Admins |-> None]

Watches(u, s) == CheckBouquetAccess(FALSE, string[u], rows, s)

-----------------------------------------------------------------------------
(* Reading: get_by_id finds the row, or the request ends with 404.         *)

Read(a, b, op, ask, list) ==
    /\ req[a] = None
    /\ rows[b].state = "row"
    /\ req' = [req EXCEPT ![a] =
           [bid |-> b, read |-> rows[b].channels, list |-> list, ask |-> ask, op |-> op]]
    /\ UNCHANGED <<rows, string>>

AddStreams_replaces(a) == \E b \in Bids, s \in Streams : Read(a, b, "add", {s}, {s})

AddStreams(a) ==
    \E b \in Bids, s \in Streams : Read(a, b, "add", {s}, rows[b].channels \cup {s})

RemoveStreams(a) ==
    \E b \in Bids, s \in Streams : Read(a, b, "remove", {s}, rows[b].channels \ {s})

(* reorder-channels and PUT: the list of the request replaces the row's. *)
PutChannels(a) == \E b \in Bids, l \in PutLists : Read(a, b, "put", l, l)

-----------------------------------------------------------------------------
(* Writing.                                                                *)

(* setattr and commit: no UPDATE for an unchanged value; a row that is     *)
(* gone makes the UPDATE, or else the refresh, raise, and nothing is       *)
(* written.                                                                *)
Commit(a) ==
    /\ req[a] # None
    /\ req' = [req EXCEPT ![a] = None]
    /\ rows' = IF rows[req[a].bid].state = "row" /\ req[a].list # req[a].read
               THEN [rows EXCEPT ![req[a].bid].channels = req[a].list]
               ELSE rows
    /\ UNCHANGED string

(* POST: a row with a new id. *)
Create ==
    \E b \in Bids, l \in PutLists :
        /\ rows[b].state = "unused"
        /\ rows' = [rows EXCEPT ![b] = [state |-> "row", channels |-> l]]
        /\ UNCHANGED <<string, req>>

Delete_cleansUsers ==
    \E b \in Bids :
        /\ rows[b].state = "row"
        /\ rows' = [rows EXCEPT ![b] = [state |-> "gone", channels |-> {}]]
        /\ string' = [u \in Users |-> string[u] \ {b}]
        /\ UNCHANGED req

(* DELETE, and each id of batch-delete, which commits one by one.  The     *)
(* users keep the id in their strings.                                     *)
Delete ==
    \E b \in Bids :
        /\ rows[b].state = "row"
        /\ rows' = [rows EXCEPT ![b] = [state |-> "gone", channels |-> {}]]
        /\ UNCHANGED <<string, req>>

(* change-bouquet of the mass routes, one UPDATE for all its users, and    *)
(* the user routes, one user each.                                         *)
ChangeBouquet ==
    \E us \in SUBSET Users \ {{}}, t \in BouquetStrings :
        /\ string' = [u \in Users |-> IF u \in us THEN t ELSE string[u]]
        /\ UNCHANGED <<rows, req>>

Next ==
    \/ \E a \in Admins : AddStreams(a) \/ RemoveStreams(a) \/ PutChannels(a) \/ Commit(a)
    \/ Create \/ Delete \/ ChangeBouquet

Spec == Init /\ [][Next]_vars

-----------------------------------------------------------------------------
(* Properties *)

(* The request writes over a list that is no longer the one it has read. *)
Stale(a) == rows[req[a].bid].channels # req[a].read

Ends(a) == req[a] # None /\ req'[a] = None

(* Why a step may open stream s to a user. *)
OpensWithReason(s) ==
    \/ \E a \in Admins : Ends(a) /\ s \in req[a].ask /\ req[a].op # "remove"
    \/ \E a \in Admins : Ends(a) /\ Stale(a)
    \/ \E b \in Bids : rows[b].state = "unused" /\ s \in rows'[b].channels

(* A user comes to watch a stream only because a request or a new bouquet  *)
(* names the stream, or because his own string was changed.  No removal,   *)
(* no deletion of a bouquet and no deletion of a user's last bouquet opens *)
(* anything: an empty right must not turn into an unrestricted one.  The   *)
(* one exception is a request that overlapped another: it puts back what   *)
(* it has read.                                                            *)
WidensOnlyByRequest ==
    [][<<rows, req>>' # <<rows, req>> =>
          \A u \in Users, s \in Streams :
              (~Watches(u, s) /\ Watches(u, s)') => OpensWithReason(s)]_vars

(* A request that no other has overtaken does to the list what it says:    *)
(* the streams it names are in or out, and those it does not name stay as  *)
(* they were.                                                              *)
DoesItsJob(a) ==
    (Ends(a) /\ ~Stale(a) /\ rows[req[a].bid].state = "row") =>
        LET before == rows[req[a].bid].channels
            after  == rows'[req[a].bid].channels
        IN  CASE req[a].op = "add"    -> after = before \cup req[a].ask
              [] req[a].op = "remove" -> after = before \ req[a].ask
              [] OTHER                -> after = req[a].ask

LoneRequestsDoTheirJob == [][\A a \in Admins : DoesItsJob(a)]_vars

(* A deleted bouquet does not come back, whatever requests were in         *)
(* progress: its id is still in the users' strings.                        *)
DeletedStaysDeleted ==
    [][\A b \in Bids : rows[b].state = "gone" => rows'[b] = rows[b]]_vars
=============================================================================
