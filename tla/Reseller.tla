------------------------------ MODULE Reseller ------------------------------
(***************************************************************************)
(* The credits of the resellers: what their requests to create and extend  *)
(* users cost (src/src/public/controllers/reseller/reseller_api.py) and    *)
(* what the administrators change meanwhile (admin/reseller_routes.py),    *)
(* both through ResellerService (src/src/domain/line/service.py).          *)
(*                                                                         *)
(* A request runs in a thread of some worker, on a database session of its *)
(* own.  Credits are changed by reading the row and writing an absolute    *)
(* value later; nothing locks the row, so each read and each commit is an  *)
(* action, and requests interleave between them.                           *)
(*                                                                         *)
(* Abstracted: tokens, user data other than the owner and whether there is *)
(* an expiry date, disabled resellers and forbidden packages (a refusal    *)
(* changes nothing), max_credits being changed, and the reason for which   *)
(* the INSERT of a user may fail (another request took the name).          *)
(*                                                                         *)
(* An operator X_what is X with a bug; no specification uses it.           *)
(***************************************************************************)
EXTENDS Integers, FiniteSets

CONSTANTS
    Resellers,
    Users,      \* row ids of users; ids are never used twice
    Requests,   \* requests that may be in flight at once
    Costs,      \* official_credits of the packages, which nobody checks
    Amounts,    \* what administrators add, use or set
    Puts,       \* what they put in the form of the reseller, unchecked
    Start,      \* reseller -> credits it is created with
    Max,        \* reseller -> max_credits
    NoOne,      \* owner of a user whose reseller is gone
    Absent,     \* a row that does not exist yet
    Gone,       \* a row that was deleted
    None

ASSUME CostsType   == Costs \subseteq Int
ASSUME AmountsType == Amounts \subseteq Nat /\ Puts \subseteq Int
ASSUME MaxType     == Max \in [Resellers -> Nat]
ASSUME StartType   == /\ Start \in [Resellers -> Nat]
                      /\ \A r \in Resellers : Start[r] <= Max[r]
ASSUME Distinct    == /\ {NoOne, Absent, Gone} \cap Resellers = {}
                      /\ NoOne # Absent /\ NoOne # Gone /\ Absent # Gone
                      /\ None \notin Users

VARIABLES
    credits,  \* reseller -> credits
    there,    \* the resellers that are not deleted
    owner,    \* user -> created_by_reseller_id, or no row
    dated,    \* users with an expiry date
    pc,       \* where each request is
    op,       \* what it does
    res,      \* the reseller whose credits it is about
    usr,      \* the user it has created or is extending
    cost,     \* what it is going to charge
    new,      \* the credits it is going to write
    unpaid,   \* history: resellers who had what has a price for nothing
    raced,    \* history: resellers with two requests at once
    lost,     \* history: resellers who were deleted, or whose request died or
              \* lost the user it was about
    decreed   \* history: resellers whose form was saved with credits out of range

rows    == <<there, owner, dated>>
request == <<pc, op, res, usr, cost, new>>
history == <<unpaid, raced, lost, decreed>>
vars == <<credits, rows, request, history>>

Charged == {"create", "extend"}
Ops == Charged \cup {"add", "use", "set", "put"}
Pcs == {"idle", "insert", "update", "reload", "commit"}

TypeOK ==
    /\ credits \in [Resellers -> Int]
    /\ there   \in SUBSET Resellers
    /\ owner   \in [Users -> Resellers \cup {NoOne, Absent, Gone}]
    /\ dated   \in SUBSET Users
    /\ pc      \in [Requests -> Pcs]
    /\ op      \in [Requests -> Ops]
    /\ res     \in [Requests -> Resellers \cup {None}]
    /\ \A t \in Requests : pc[t] # "idle" => res[t] \in Resellers
    /\ usr     \in [Requests -> Users \cup {None}]
    /\ cost    \in [Requests -> Int \ {0}]
    /\ new     \in [Requests -> Int]
    /\ unpaid  \in SUBSET Resellers
    /\ raced   \in SUBSET Resellers
    /\ lost    \in SUBSET Resellers
    /\ decreed \in SUBSET Resellers

Init ==
    /\ credits = Start
    /\ there   = Resellers
    /\ owner   = [u \in Users |-> Absent]
    /\ dated   = {}
    /\ pc      = [t \in Requests |-> "idle"]
    /\ op      = [t \in Requests |-> "create"]
    /\ res     = [t \in Requests |-> None]
    /\ usr     = [t \in Requests |-> None]
    /\ cost    = [t \in Requests |-> 1]
    /\ new     = [t \in Requests |-> 0]
    /\ unpaid  = {}
    /\ raced   = {}
    /\ lost    = {}
    /\ decreed = {}

-----------------------------------------------------------------------------

InFlight(r) == {t \in Requests : pc[t] # "idle" /\ res[t] = r}
InRange(r, c) == 0 <= c /\ c <= Max[r]

(* official_credits or 1: a package for zero credits costs one. *)
Price(c) == IF c = 0 THEN 1 ELSE c

(* Request t on the credits of r gets as far as `there'. *)
Enter(t, r, o, step) ==
    /\ pc[t] = "idle"
    /\ r \in there
    /\ pc'    = [pc EXCEPT ![t] = step]
    /\ op'    = [op EXCEPT ![t] = o]
    /\ res'   = [res EXCEPT ![t] = r]
    /\ raced' = IF InFlight(r) = {} THEN raced ELSE raced \cup {r}
    /\ UNCHANGED <<unpaid, lost, decreed>>

Goto(t, step) ==
    /\ pc' = [pc EXCEPT ![t] = step]
    /\ UNCHANGED <<op, res>>

(* It ends, by an answer or an error, and forgets everything. *)
End(t) ==
    /\ pc'   = [pc EXCEPT ![t] = "idle"]
    /\ op'   = [op EXCEPT ![t] = "create"]
    /\ res'  = [res EXCEPT ![t] = None]
    /\ usr'  = [usr EXCEPT ![t] = None]
    /\ cost' = [cost EXCEPT ![t] = 1]
    /\ new'  = [new EXCEPT ![t] = 0]

(* It ends without a charge; when there was a price, that is on record.    *)
EndUnpaid(t) ==
    /\ End(t)
    /\ unpaid' = IF op[t] \in Charged /\ pc[t] \in {"reload", "commit"} /\ cost[t] > 0
                 THEN unpaid \cup {res[t]} ELSE unpaid

-----------------------------------------------------------------------------
(* /users/create and /users/extend *)

CreateBegin_checksOne(t, r, c) ==
    /\ Enter(t, r, "create", "insert")
    /\ credits[r] >= 1
    /\ cost' = [cost EXCEPT ![t] = Price(c)]
    /\ UNCHANGED <<credits, rows, usr, new>>

(* The checks, on the row that get_current_reseller has read.  A negative  *)
(* price passes them without any credits.                                  *)
CreateBegin(t, r, c) ==
    /\ Enter(t, r, "create", "insert")
    /\ credits[r] >= Price(c)
    /\ cost' = [cost EXCEPT ![t] = Price(c)]
    /\ UNCHANGED <<credits, rows, usr, new>>

(* UserService.create: INSERT and commit; the form may hold an expiry date.*)
Insert(t) ==
    /\ pc[t] = "insert"
    /\ res[t] \in there
    /\ \E u \in Users, d \in SUBSET Users :
          /\ owner[u] = Absent
          /\ d \subseteq {u}
          /\ owner' = [owner EXCEPT ![u] = res[t]]
          /\ dated' = dated \cup d
          /\ usr'   = [usr EXCEPT ![t] = u]
    /\ Goto(t, "reload")
    /\ UNCHANGED <<credits, there, cost, new, history>>

(* The name was taken since, or the reseller is gone: IntegrityError. *)
InsertFails(t) ==
    /\ pc[t] = "insert"
    /\ End(t)
    /\ UNCHANGED <<credits, rows, history>>

(* A user who has an expiry date cannot be extended: a DateTime column     *)
(* comes back without a time zone, and its comparison with an aware `now'  *)
(* raises a TypeError, which changes nothing.                              *)
ExtendBegin(t, r, u) ==
    /\ Enter(t, r, "extend", "update")
    /\ owner[u] = r
    /\ u \notin dated
    /\ credits[r] >= 1
    /\ usr' = [usr EXCEPT ![t] = u]
    /\ UNCHANGED <<credits, rows, cost, new>>

(* UserService.update.  A row that is gone is a StaleDataError. *)
Update(t) ==
    /\ pc[t] = "update"
    /\ \/ /\ owner[usr[t]] # Gone
          /\ dated' = dated \cup {usr[t]}
          /\ Goto(t, "reload")
          /\ UNCHANGED <<usr, cost, new>>
       \/ /\ owner[usr[t]] = Gone
          /\ End(t)
          /\ UNCHANGED dated
    /\ UNCHANGED <<credits, there, owner, history>>

Reload_noCheck(t) ==
    LET r == res[t]
    IN  /\ pc[t] = "reload"
        /\ \/ /\ r \in there
              /\ new' = [new EXCEPT ![t] = credits[r] - cost[t]]
              /\ Goto(t, "commit")
              /\ UNCHANGED <<usr, cost, unpaid>>
           \/ /\ r \notin there
              /\ EndUnpaid(t)
        /\ UNCHANGED <<credits, rows, raced, lost, decreed>>

(* use_credits: the commit has expired the reseller's row, so it is read   *)
(* anew.  The caller ignores that nothing is charged: that the credits do  *)
(* not suffice any more, or that the price is negative.  If the user is    *)
(* gone before the service has refreshed it, that raises.                  *)
Reload(t) ==
    LET r == res[t]
    IN  /\ pc[t] = "reload"
        /\ \/ /\ r \in there
              /\ cost[t] >= 0 /\ credits[r] >= cost[t]
              /\ new' = [new EXCEPT ![t] = credits[r] - cost[t]]
              /\ Goto(t, "commit")
              /\ UNCHANGED <<usr, cost, unpaid>>
           \/ /\ \/ r \notin there \/ owner[usr[t]] = Gone
                 \/ cost[t] < 0 \/ credits[r] < cost[t]
              /\ EndUnpaid(t)
        /\ UNCHANGED <<credits, rows, raced, lost, decreed>>

-----------------------------------------------------------------------------
(* The administrators' requests, up to their UPDATE.  A value that is not  *)
(* changed is not written, so such a request has no effect.                *)

Read(t, r, o, c) ==
    /\ Enter(t, r, o, "commit")
    /\ c # credits[r]
    /\ new' = [new EXCEPT ![t] = c]
    /\ UNCHANGED <<credits, rows, usr, cost>>

AddCredits(t, r, a) == credits[r] + a <= Max[r] /\ Read(t, r, "add", credits[r] + a)
UseCredits(t, r, a) == credits[r] >= a /\ Read(t, r, "use", credits[r] - a)
SetCredits(t, r, a) == a <= Max[r] /\ Read(t, r, "set", a)
Put(t, r, a)        == Read(t, r, "put", a)

(* Everybody's UPDATE and commit: the value computed from what was read. *)
Commit(t) ==
    LET r == res[t]
    IN  /\ pc[t] = "commit"
        /\ \/ /\ r \in there
              /\ credits' = [credits EXCEPT ![r] = new[t]]
              /\ decreed' = IF op[t] = "put" /\ ~InRange(r, new[t])
                            THEN decreed \cup {r} ELSE decreed
              /\ End(t)
              /\ UNCHANGED unpaid
           \/ /\ r \notin there
              /\ EndUnpaid(t)
              /\ UNCHANGED <<credits, decreed>>
        /\ UNCHANGED <<rows, raced, lost>>

-----------------------------------------------------------------------------

(* A worker dies with the request. *)
Die(t) ==
    /\ pc[t] # "idle"
    /\ EndUnpaid(t)
    /\ lost' = lost \cup {res[t]}
    /\ UNCHANGED <<credits, rows, raced, decreed>>

(* /mags and /enigmas: users, too, but free. *)
CreateDevice(r, u) ==
    /\ r \in there
    /\ owner[u] = Absent
    /\ owner' = [owner EXCEPT ![u] = r]
    /\ \E d \in SUBSET {u} : dated' = dated \cup d
    /\ UNCHANGED <<credits, there, request, history>>

DeleteUser(u) ==
    /\ owner[u] \notin {Absent, Gone}
    /\ owner' = [owner EXCEPT ![u] = Gone]
    /\ lost'  = lost \cup {res[t] : t \in {q \in Requests : pc[q] = "reload" /\ usr[q] = u}}
    /\ UNCHANGED <<credits, there, dated, request, unpaid, raced, decreed>>

(* ON DELETE SET NULL *)
DeleteReseller(r) ==
    /\ r \in there
    /\ there' = there \ {r}
    /\ owner' = [u \in Users |-> IF owner[u] = r THEN NoOne ELSE owner[u]]
    /\ lost'  = lost \cup {r}
    /\ UNCHANGED <<credits, dated, request, unpaid, raced, decreed>>

-----------------------------------------------------------------------------

Begin(t, r) ==
    \/ \E c \in Costs \cup {1} : CreateBegin(t, r, c)
    \/ \E u \in Users : ExtendBegin(t, r, u)
    \/ \E a \in Amounts : AddCredits(t, r, a) \/ UseCredits(t, r, a) \/ SetCredits(t, r, a)
    \/ \E a \in Puts : Put(t, r, a)

Step(t) == Insert(t) \/ InsertFails(t) \/ Update(t) \/ Reload(t) \/ Commit(t) \/ Die(t)

Next ==
    \/ \E t \in Requests : (\E r \in Resellers : Begin(t, r)) \/ Step(t)
    \/ \E r \in Resellers, u \in Users : CreateDevice(r, u)
    \/ \E u \in Users : DeleteUser(u)
    \/ \E r \in Resellers : DeleteReseller(r)

Spec == Init /\ [][Next]_vars

-----------------------------------------------------------------------------
(* Properties *)

(* However requests overlap, die, or write what they have computed from    *)
(* credits that are no longer there: the credits never go below zero nor   *)
(* above max_credits, unless the form was saved with such a value.         *)
CreditsInRange ==
    \A r \in Resellers \ decreed : InRange(r, credits[r])

(* Who has a user created or extended for nothing though it has a price    *)
(* has had two requests that overlapped, or one that died, or he or the    *)
(* user was deleted meanwhile: a request by itself always charges the      *)
(* price it has checked.  (A package whose official_credits are negative   *)
(* has none: the request keeps the user and charges nothing, also alone.)  *)
PricesAreCharged == unpaid \subseteq raced \cup lost

-----------------------------------------------------------------------------
(* The inductive invariant behind CreditsInRange and PricesAreCharged *)

(* What a commit will write is in range, however old the value it was      *)
(* computed from, unless it comes from the form.                           *)
WritesInRange ==
    \A t \in Requests :
        pc[t] = "commit" /\ op[t] # "put" /\ res[t] \notin decreed => InRange(res[t], new[t])

(* A request that is not among those of a race is the only one. *)
OneRequest ==
    \A t, q \in Requests :
        (pc[t] # "idle" /\ pc[q] # "idle" /\ res[t] = res[q] /\ res[t] \notin raced) => t = q

(* The users' requests before their charge: what they are about. *)
BeforeCharge ==
    \A t \in Requests :
        /\ pc[t] \in {"insert", "update", "reload"} => op[t] \in Charged
        /\ pc[t] \in {"update", "reload"} => usr[t] \in Users
        /\ pc[t] \in {"idle", "update"} => cost[t] = 1

(* Where nothing has interfered, the reseller, the user and the credits    *)
(* that the checks have seen are still there.                              *)
CheckStands ==
    \A t \in Requests :
        (pc[t] # "idle" /\ res[t] \notin lost) =>
            /\ res[t] \in there
            /\ pc[t] = "reload" => owner[usr[t]] # Gone
            /\ (res[t] \notin raced /\ pc[t] \in {"insert", "update", "reload"})
                  => credits[res[t]] >= cost[t]

IInv ==
    /\ TypeOK
    /\ CreditsInRange
    /\ PricesAreCharged
    /\ WritesInRange
    /\ OneRequest
    /\ BeforeCharge
    /\ CheckStands
=============================================================================
