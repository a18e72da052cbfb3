----------------------------- MODULE LoginGuard -----------------------------
(***************************************************************************)
(* Who may try a password at the player API of one worker                  *)
(* (src/src/public/controllers/api/player_api.py, _authenticate_user):     *)
(* the block list of the settings table and the counter of failed attempts *)
(* of the process (src/src/domain/security/blocklist_service.py).          *)
(*                                                                         *)
(* The handlers are plain `def' functions, so the requests of a worker run *)
(* in the threads of its pool.  Counting a failure reads the dictionary    *)
(* and writes it in two steps, without a lock; blocking an address reads   *)
(* the list, and writes it in a later statement.  The limit of the counter *)
(* is a row of the settings table, read anew at every check; the settings  *)
(* page (admin/settings_routes.py) writes that row and the list.           *)
(*                                                                         *)
(* Abstracted: who the users are: a request turns out to be good, bad (the *)
(* name, password or token is wrong) or inactive (the account is disabled  *)
(* or expired).  Each worker has a counter of its own; the list is shared. *)
(*                                                                         *)
(* An operator X_what beside an action X is X with a bug a maintainer      *)
(* could make; no specification uses it.                                   *)
(***************************************************************************)
EXTENDS Naturals, FiniteSets

CONSTANTS
    Threads,     \* threads of the worker
    Admins,      \* requests to the security routes that may be in progress
    Ips,         \* addresses of clients
    Limits,      \* values the setting max_login_attempts may have
    MaxAttempts, \* the highest of them
    Nothing      \* no address, no row, no request

ASSUME MaxIsPositive == MaxAttempts \in Nat \ {0}
ASSUME LimitsType == Limits \subseteq 0..MaxAttempts /\ Limits # {}
ASSUME NothingIsNoList == \A l \in SUBSET Ips : l # Nothing
ASSUME ThreadsAreFinite == IsFiniteSet(Threads)

VARIABLES
    limit,    \* max_login_attempts; 0 is also a negative number, or no number
    attempts, \* BruteforceGuard._attempts, 0 for no entry
    stage,    \* where each thread is
    ip,       \* the address its request comes from
    seen,     \* what it has read from the dictionary
    blocked,  \* the row blocked_ips: a list, or Nothing
    change,   \* the change of the list each administrator is making
    wrong     \* history: failures recorded for an address since its last success

requests == <<attempts, stage, ip, seen, wrong>>
guardVars == <<limit, attempts, stage, ip, seen, blocked, change, wrong>>
settings == <<limit, blocked, change>>

Lists == SUBSET Ips
ListOf(row) == IF row = Nothing THEN {} ELSE row

GuardTypeOK ==
    /\ limit \in Limits
    /\ attempts \in [Ips -> 0..MaxAttempts]
    /\ stage \in [Threads -> {"idle", "guard", "verify", "count", "store"}]
    /\ ip \in [Threads -> Ips \cup {Nothing}]
    /\ seen \in [Threads -> 0..MaxAttempts]
    /\ blocked \in Lists \cup {Nothing}
    /\ change \in [Admins -> [read : Lists \cup {Nothing}, list : Lists] \cup {Nothing}]
    /\ wrong \in [Ips -> Nat]

GuardInit ==
    /\ limit \in Limits
    /\ attempts = [i \in Ips |-> 0]
    /\ stage = [t \in Threads |-> "idle"]
    /\ ip = [t \in Threads |-> Nothing]
    /\ seen = [t \in Threads |-> 0]
    /\ blocked = Nothing
    /\ change = [a \in Admins |-> Nothing]
    /\ wrong = [i \in Ips |-> 0]

-----------------------------------------------------------------------------
(* A request                                                               *)

At(t, here) == stage[t] = here
Goto(t, there) == stage' = [stage EXCEPT ![t] = there]

Finish(t) ==
    /\ Goto(t, "idle")
    /\ ip' = [ip EXCEPT ![t] = Nothing]
    /\ seen' = [seen EXCEPT ![t] = 0]

(* is_ip_blocked: a listed address gets 403. *)
CheckList(t) ==
    /\ At(t, "idle")
    /\ \E i \in Ips \ ListOf(blocked) : ip' = [ip EXCEPT ![t] = i]
    /\ Goto(t, "guard")
    /\ UNCHANGED <<attempts, seen, wrong, settings>>

(* The setting of now, with a limit of zero for everybody: a text that is   *)
(* no number raises instead of an answer.                                  *)
IsBlocked(i) == attempts[i] >= limit

CheckGuard_offByOne(t) ==
    /\ At(t, "guard")
    /\ IF attempts[ip[t]] > limit
       THEN Finish(t)
       ELSE Goto(t, "verify") /\ UNCHANGED <<ip, seen>>
    /\ UNCHANGED <<attempts, wrong, settings>>

(* is_blocked: an address with too many failures gets 403. *)
CheckGuard(t) ==
    /\ At(t, "guard")
    /\ IF IsBlocked(ip[t])
       THEN Finish(t)
       ELSE Goto(t, "verify") /\ UNCHANGED <<ip, seen>>
    /\ UNCHANGED <<attempts, wrong, settings>>

(* Bad credentials, or an inactive account that gave name and password. *)
VerifyFails(t) ==
    /\ At(t, "verify")
    /\ Goto(t, "count")
    /\ UNCHANGED <<attempts, ip, seen, wrong, settings>>

(* An inactive account that gave a token, or a request without             *)
(* credentials: an exception that is not counted.                          *)
VerifyRaises(t) ==
    /\ At(t, "verify")
    /\ Finish(t)
    /\ UNCHANGED <<attempts, wrong, settings>>

VerifySucceeds_clearsAll(t) ==
    /\ At(t, "verify")
    /\ attempts' = [i \in Ips |-> 0]
    /\ wrong' = [wrong EXCEPT ![ip[t]] = 0]
    /\ Finish(t)
    /\ UNCHANGED settings

(* record_attempt(ip, True) *)
VerifySucceeds(t) ==
    /\ At(t, "verify")
    /\ attempts' = [attempts EXCEPT ![ip[t]] = 0]
    /\ wrong' = [wrong EXCEPT ![ip[t]] = 0]
    /\ Finish(t)
    /\ UNCHANGED settings

(* record_attempt(ip, False), the reading half: _attempts.get(ip, 0) *)
Count(t) ==
    /\ At(t, "count")
    /\ seen' = [seen EXCEPT ![t] = attempts[ip[t]]]
    /\ Goto(t, "store")
    /\ UNCHANGED <<attempts, ip, wrong, settings>>

(* The writing half; the counter can pass the highest limit, which changes *)
(* nothing.                                                                *)
Store(t) ==
    /\ At(t, "store")
    /\ attempts' = [attempts EXCEPT ![ip[t]] =
                        IF seen[t] < MaxAttempts THEN seen[t] + 1 ELSE MaxAttempts]
    /\ wrong' = [wrong EXCEPT ![ip[t]] = @ + 1]
    /\ Finish(t)
    /\ UNCHANGED settings

-----------------------------------------------------------------------------
(* The security routes                                                     *)

Read(a, list) ==
    /\ change[a] = Nothing
    /\ change' = [change EXCEPT ![a] = [read |-> blocked, list |-> list]]
    /\ UNCHANGED <<requests, limit, blocked>>

BlockIp_alone(a) == \E i \in Ips : Read(a, {i})
BlockIp(a) == \E i \in Ips : Read(a, ListOf(blocked) \cup {i})
UnblockIp(a) == \E i \in Ips : Read(a, ListOf(blocked) \ {i})

(* SettingsService.set.  Without a row it inserts one, which fails if      *)
(* another request has inserted it; the row that was read is updated.  An  *)
(* unchanged list may or may not be written: the text of a set has no      *)
(* fixed order.                                                            *)
Set(a) ==
    /\ change[a] # Nothing
    /\ LET fits == change[a].read = Nothing => blocked = Nothing
       IN  \/ fits /\ blocked' = change[a].list
           \/ (~fits \/ change[a].list = change[a].read) /\ UNCHANGED blocked
    /\ change' = [change EXCEPT ![a] = Nothing]
    /\ UNCHANGED <<requests, limit>>

-----------------------------------------------------------------------------
(* The settings page, under the requests and the security routes           *)

(* The limit is written, deleted or given another key: any value at all. *)
SetLimit ==
    /\ limit' \in Limits \ {limit}
    /\ UNCHANGED <<requests, blocked, change>>

(* The list is created, overwritten, or another row gets its key; a value  *)
(* that is no list counts as an empty one.                                 *)
WriteList ==
    /\ blocked' \in Lists \ {blocked}
    /\ UNCHANGED <<requests, limit, change>>

(* The row is deleted, or gets another key.  A change that has read it     *)
(* finds nothing to update.                                                *)
DeleteSetting ==
    /\ blocked # Nothing
    /\ blocked' = Nothing
    /\ change' = [a \in Admins |->
                     IF change[a] # Nothing /\ change[a].read # Nothing THEN Nothing
                     ELSE change[a]]
    /\ UNCHANGED <<requests, limit>>

SettingsPage == DeleteSetting \/ WriteList \/ SetLimit

Step(t) ==
    \/ CheckList(t) \/ CheckGuard(t)
    \/ VerifyFails(t) \/ VerifyRaises(t) \/ VerifySucceeds(t)
    \/ Count(t) \/ Store(t)

GuardNext ==
    \/ \E t \in Threads : Step(t)
    \/ \E a \in Admins : BlockIp(a) \/ UnblockIp(a) \/ Set(a)
    \/ SettingsPage

GuardSpec == GuardInit /\ [][GuardNext]_guardVars

-----------------------------------------------------------------------------
(* Properties *)

(* How many failures p[1] threads can record from a counter that stands    *)
(* p[2] below the maximum until it has reached it and none of them is on   *)
(* its way any more: one of them reads the counter, the others bring it to *)
(* the maximum, and the one stores what it has read plus one.              *)
Failures[p \in (0..Cardinality(Threads)) \X (0..MaxAttempts)] ==
    IF p[1] = 0 \/ p[2] = 0 THEN 0
    ELSE Failures[<<p[1] - 1, p[2]>>] + 1 + Failures[<<p[1], p[2] - 1>>]

(* However the threads lose each other's increments, an address is locked  *)
(* out after a number of failures that depends on the highest value of the *)
(* setting and the size of the thread pool alone; with one thread it is    *)
(* that value.                                                             *)
LockoutComes ==
    \A i \in Ips : wrong[i] <= Failures[<<Cardinality(Threads), MaxAttempts>>]

(* A locked address on whose behalf no request is past its check keeps its *)
(* count, and stays locked until the settings page raises the limit: no    *)
(* request of anybody, no edit of the list and no time that passes unlocks *)
(* it while the worker lives.                                              *)
Settled(i) ==
    /\ IsBlocked(i)
    /\ \A t \in Threads : ip[t] = i => stage[t] \in {"idle", "guard"}

LocksHold ==
    [][\A i \in Ips : Settled(i) =>
          /\ attempts'[i] = attempts[i]
          /\ Settled(i)' \/ limit' > limit]_guardVars

(* An address leaves the block list only by an unblock of that address, by *)
(* the settings page, or by a request that has read the list before        *)
(* another change of it.                                                   *)
StaysListed ==
    [][\A i \in ListOf(blocked) : i \notin ListOf(blocked') =>
          \/ SettingsPage
          \/ \E a \in Admins : /\ change[a] # Nothing /\ change'[a] = Nothing
                               /\ \/ change[a].read # blocked
                                  \/ change[a].list = ListOf(blocked) \ {i}]_guardVars

(* Why they hold: a thread inside a request has its address, and a list    *)
(* to be written differs by one address from the one that was read.        *)
HasAddress == \A t \in Threads : stage[t] # "idle" => ip[t] \in Ips
OneEdit ==
    \A a \in Admins : change[a] # Nothing =>
        \E i \in Ips : \/ change[a].list = ListOf(change[a].read) \cup {i}
                       \/ change[a].list = ListOf(change[a].read) \ {i}

GuardIInv == GuardTypeOK /\ HasAddress /\ OneEdit
=============================================================================
