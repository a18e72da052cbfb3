---------------------------- MODULE SettingLists ----------------------------
(***************************************************************************)
(* The lists that the panel keeps as JSON in a row of the table `settings' *)
(* each (src/src/domain/server/settings_service.py): the tickets of the    *)
(* administrators and of every reseller, access codes, user groups, and    *)
(* the names of blocked providers.                                         *)
(*                                                                         *)
(* A route reads the list, changes its copy and writes the whole copy back *)
(* in a second step; nothing locks the row.  New entries are numbered by   *)
(* the length of the list.  The settings page puts any value under any key *)
(* and deletes rows under the routes.                                      *)
(*                                                                         *)
(* SQLAlchemy decides what the second step does from the row of the first: *)
(* without one it inserts, which fails when there is one by now; an        *)
(* unchanged text is not written; and an UPDATE fails when the row was     *)
(* deleted, also when another has taken its place.                         *)
(*                                                                         *)
(* Abstracted: the rows do not touch each other, so the model has one,     *)
(* whose kind of list is fixed at the start.  Subjects, texts, codes and   *)
(* authors are the number `tag' of the creation; replies are counted.      *)
(*                                                                         *)
(* An operator X_what is X with a bug; no specification uses it.           *)
(***************************************************************************)
EXTENDS Naturals, Sequences, SequencesExt

CONSTANTS
    Requests,   \* requests that may be in progress
    Providers,  \* the names of providers, as numbers
    None,       \* no row, no request
    Junk,       \* a value the routes cannot use: each of them fails
    Gone,       \* a row that a request has read and that was deleted since
    PageLists,  \* lists that the settings page may store
    MaxMade,    \* bounds the entries ever created
    MaxReplies  \* bounds the replies to a ticket

ASSUME Bounds == MaxMade \in Nat /\ MaxReplies \in Nat /\ Providers \subseteq Nat
ASSUME Apart == None # Junk /\ None # Gone /\ Junk # Gone

VARIABLES
    kind,  \* which list the row is for
    row,   \* the list in the row, or None
    req,   \* request -> what it has read and is about to write, or None
    made,  \* entries created so far
    foreign \* history: the page has stored tickets that are not numbered 1 to n

vars == <<kind, row, req, made, foreign>>

Kinds == {"tickets_data", "access_codes", "blocked_isps"}
Entry == [id : Nat, tag : 0..MaxMade, open : BOOLEAN, replies : 0..MaxReplies]
Request == [read : Seq(Entry) \cup {None, Gone}, list : Seq(Entry), drops : Nat]

ASSUME PageListsType == PageLists \subseteq Seq(Entry)
ASSUME NoLists == {None, Junk, Gone} \cap Seq(Entry) = {}
ASSUME NoRequest == None \notin Request

TypeOK ==
    /\ kind \in Kinds
    /\ row \in Seq(Entry) \cup {None, Junk}
    /\ req \in [Requests -> Request \cup {None}]
    /\ made \in 0..MaxMade
    /\ foreign \in BOOLEAN

Init ==
    /\ kind \in Kinds
    /\ row  = None
    /\ req  = [r \in Requests |-> None]
    /\ made = 0
    /\ foreign = FALSE

-----------------------------------------------------------------------------
(* The first half of a route: the list is read and its copy changed.       *)

Usable == row # Junk
List == IF row = None THEN <<>> ELSE row
InOrder(list) == \A i \in DOMAIN list : list[i].id = i

(* The route goes on to svc.set with this list; a delete names what it     *)
(* drops, the others drop nothing.                                         *)
Prepare(r, list, drops) ==
    /\ req[r] = None
    /\ req' = [req EXCEPT ![r] = [read |-> row, list |-> list, drops |-> drops]]
    /\ UNCHANGED <<kind, row, foreign>>

NewEntry == [id |-> Len(List) + 1, tag |-> made + 1, open |-> TRUE, replies |-> 0]

Create(r) ==
    /\ made < MaxMade
    /\ made' = made + 1
    /\ Prepare(r, Append(List, NewEntry), 0)

(* The first ticket with the number is changed; without one it is a 404. *)
Found(n, i) ==
    /\ i \in DOMAIN List
    /\ List[i].id = n
    /\ \A j \in 1..(i - 1) : List[j].id # n

Reply(r, n) ==
    /\ \E i \in DOMAIN List :
          /\ Found(n, i)
          /\ List[i].replies < MaxReplies
          /\ Prepare(r, [List EXCEPT ![i].replies = @ + 1], 0)
    /\ UNCHANGED made

Close_removes(r, n) ==
    /\ \E i \in DOMAIN List :
          /\ Found(n, i)
          /\ Prepare(r, RemoveAt(List, i), 0)
    /\ UNCHANGED made

Close_toggles(r, n) ==
    /\ \E i \in DOMAIN List :
          /\ Found(n, i)
          /\ Prepare(r, [List EXCEPT ![i].open = ~@], 0)
    /\ UNCHANGED made

Close(r, n) ==
    /\ \E i \in DOMAIN List :
          /\ Found(n, i)
          /\ Prepare(r, [List EXCEPT ![i].open = FALSE], 0)
    /\ UNCHANGED made

(* The entries with another number, in their order (a SelectSeq that the   *)
(* proofs can unfold).                                                     *)
Without(list, n) ==
    LET rest[i \in 0..Len(list)] ==
            IF i = 0 THEN <<>>
            ELSE IF list[i].id = n THEN rest[i - 1] ELSE Append(rest[i - 1], list[i])
    IN  rest[Len(list)]

Delete_renumbers(r, n) ==
    /\ LET rest == Without(List, n)
       IN  Prepare(r, [i \in DOMAIN rest |-> [rest[i] EXCEPT !.id = i]], n)
    /\ UNCHANGED made

(* Also when no entry has the number, and when there is no row. *)
Delete(r, n) ==
    /\ Prepare(r, Without(List, n), n)
    /\ UNCHANGED made

Block(r, x) ==
    /\ \A i \in DOMAIN List : List[i].id # x
    /\ Prepare(r, Append(List, [id |-> x, tag |-> 0, open |-> TRUE, replies |-> 0]), 0)
    /\ UNCHANGED made

Unblock(r, x) == Delete(r, x)

(* /reseller/post: its reply goes to the first ticket of the list, and     *)
(* without a ticket it is a 400.                                           *)
PostAlias(r) ==
    \/ Create(r)
    \/ List # <<>> /\ Reply(r, Head(List).id)

Route(r) ==
    /\ Usable
    /\ \/ kind \in {"tickets_data", "access_codes"} /\ Create(r)
       \/ kind = "tickets_data" /\ \E n \in 1..MaxMade : Reply(r, n) \/ Close(r, n)
       \/ kind = "tickets_data" /\ PostAlias(r)
       \/ kind = "access_codes" /\ \E n \in 1..MaxMade : Delete(r, n)
       \/ kind = "blocked_isps" /\ \E x \in Providers : Block(r, x) \/ Unblock(r, x)

-----------------------------------------------------------------------------
(* The second half: SettingsService.set, up to its commit.                 *)

(* A row that was read is updated if it is still the same one, and the     *)
(* list has changed; without a row one is inserted if there still is none. *)
(* Everything else is an exception or no write at all.                     *)
Takes(q) ==
    IF q.read = None THEN row = None ELSE q.read # Gone /\ q.list # q.read

Set(r) ==
    /\ req[r] # None
    /\ row' = IF Takes(req[r]) THEN req[r].list ELSE row
    /\ req' = [req EXCEPT ![r] = None]
    /\ UNCHANGED <<kind, made, foreign>>

(* The settings page: the row is created or overwritten, or another row    *)
(* gets its key, with any value; or it is deleted by id or by key.  A row  *)
(* that gets another key is as good as deleted: a request that has read it *)
(* writes to it without effect on this key.                                *)
Overwrite(v) ==
    /\ row # v
    /\ row' = v
    /\ foreign' = (foreign \/ (kind = "tickets_data" /\ v # Junk /\ ~InOrder(v)))
    /\ UNCHANGED <<kind, req, made>>

DeleteSetting ==
    /\ row # None
    /\ row' = None
    /\ req' = [r \in Requests |->
                  IF req[r] # None /\ req[r].read # None
                  THEN [req[r] EXCEPT !.read = Gone] ELSE req[r]]
    /\ UNCHANGED <<kind, made, foreign>>

Next ==
    \/ \E r \in Requests : Route(r) \/ Set(r)
    \/ \E v \in PageLists \cup {Junk} : Overwrite(v)
    \/ DeleteSetting

Spec == Init /\ [][Next]_vars

-----------------------------------------------------------------------------
(* Properties *)

(* The tickets of a list are numbered 1 to n, whatever overlaps and        *)
(* whatever the settings page deletes, spoils or replaces, unless it has   *)
(* itself stored tickets numbered otherwise: nothing but the whole list    *)
(* ever leaves it, so a number given by the length is always a new one.    *)
(* Where entries are deleted it is not: of two access codes the first is   *)
(* deleted, and the next one gets the number of the last.                  *)
TicketsAreNumbered == kind = "tickets_data" /\ Usable /\ ~foreign => InOrder(List)

(* The request commits, and the row is what it has read; otherwise         *)
(* somebody else has changed the list in between.                          *)
Lone(r) == req[r] # None /\ req'[r] = None /\ req[r].read = row

(* Whatever requests overlap, one that is not overtaken itself lets every  *)
(* ticket keep its number, closed ones closed and replies in place, so     *)
(* that nobody answers the wrong ticket afterwards.                        *)
Follows(old, new) ==
    /\ Len(new) >= Len(old)
    /\ \A i \in DOMAIN old :
          /\ new[i].id = old[i].id /\ new[i].tag = old[i].tag
          /\ ~old[i].open => ~new[i].open
          /\ new[i].replies >= old[i].replies

TicketsStay ==
    [][kind = "tickets_data" =>
          \A r \in Requests : Lone(r) => Follows(List, List')]_vars

(* A request that is not overtaken takes from a list the entries with the  *)
(* number it names, and the others keep theirs; one that is overtaken by a *)
(* deletion of the row brings nothing back.                                *)
OthersStay ==
    [][\A r \in Requests :
          /\ Lone(r) =>
                \A e \in ToSet(List) :
                    e.id = req[r].drops
                    \/ \E f \in ToSet(List') : f.id = e.id /\ f.tag = e.tag
          /\ req[r] # None /\ req'[r] = None /\ req[r].read = Gone => row' = row]_vars
=============================================================================
