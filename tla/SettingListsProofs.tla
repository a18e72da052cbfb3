-------------------------- MODULE SettingListsProofs --------------------------
(***************************************************************************)
(* What the run of SettingLists checks, for any requests, providers and    *)
(* bounds: tickets keep their numbers, and a commit takes from a list what *)
(* its request names and nothing else.                                     *)
(*                                                                         *)
(* What a deletion leaves of a list is computed by a recursive function.   *)
(* Its facts are proved by induction, in the form that the provers can     *)
(* use: a set of naturals that is not empty has a least element.           *)
(***************************************************************************)
EXTENDS SettingLists, WellFoundedInduction, TLAPS

(* All entries of the first list are in the second, up to the number n.    *)
Holds(old, new, n) ==
    \A i \in DOMAIN old :
        old[i].id = n
        \/ \E j \in DOMAIN new : new[j].id = old[i].id /\ new[j].tag = old[i].tag

(* A request drops from the list it has read only what it names; on a list *)
(* of tickets it only adds to it.                                          *)
Carries(q) == q.read \in Seq(Entry) => Holds(q.read, q.list, q.drops)
Grows(q) == q.read \in Seq(Entry) => Follows(q.read, q.list)

IInv ==
    /\ TypeOK
    /\ \A r \in Requests : req[r] # None => Carries(req[r])
    /\ kind = "tickets_data" =>
          /\ ~foreign /\ row \in Seq(Entry) => InOrder(row)
          /\ \A r \in Requests : req[r] # None =>
                Grows(req[r]) /\ (~foreign => InOrder(req[r].list))

-----------------------------------------------------------------------------
(* Induction over the naturals, and what Without leaves of a list.         *)

Less == {p \in Nat \X Nat : p[1] < p[2]}

(* The induction theorem, about a set instead of a predicate. *)
LEMMA Induction ==
  ASSUME NEW S, 0 \in S, \A n \in Nat : n \in S => n + 1 \in S
  PROVE  \A n \in Nat : n \in S
<1>1. IsWellFoundedOn(Less, Nat)
  <2>1. Less = OpToRel(<, Nat)
    BY Zenon DEF OpToRel, Less
  <2> QED
    BY <2>1, NatLessThanWellFounded
<1> DEFINE T == Nat \ S
<1>2. CASE T = {}
  BY <1>2
<1>3. CASE T # {}
  <2>1. PICK x \in T : \A y \in T : <<y, x>> \notin Less
    <3> T \subseteq Nat
      OBVIOUS
    <3> HIDE DEF T
    <3> QED
      BY <1>1, <1>3, WFMin
  <2>2. x \in Nat /\ x # 0
    OBVIOUS
  <2>3. x - 1 \in Nat /\ <<x - 1, x>> \in Less /\ (x - 1) + 1 = x
    BY <2>2 DEF Less
  <2>4. x - 1 \in S
    BY <2>1, <2>3
  <2> QED
    BY <2>3, <2>4
<1> QED
  BY <1>2, <1>3

(* What the function inside Without is. *)
Leaves(f, list, n) ==
    f = [i \in 0..Len(list) |->
            IF i = 0 THEN <<>>
            ELSE IF list[i].id = n THEN f[i - 1] ELSE Append(f[i - 1], list[i])]

(* There is such a function. *)
LEMMA WithoutExists ==
  ASSUME NEW list \in Seq(Entry), NEW n
  PROVE  \E f : Leaves(f, list, n)
<1> DEFINE step(f, i) == IF i = 0 THEN <<>>
                         ELSE IF list[i].id = n THEN f[i - 1] ELSE Append(f[i - 1], list[i])
           S == {k \in Nat : \E f : f = [i \in 0..k |-> step(f, i)]}
<1>1. 0 \in S
  <2> DEFINE g == [i \in 0..0 |-> <<>>]
  <2>1. g = [i \in 0..0 |-> step(g, i)]
    OBVIOUS
  <2> QED
    BY <2>1
<1>2. ASSUME NEW k \in Nat, k \in S PROVE k + 1 \in S
  <2>1. PICK f : f = [i \in 0..k |-> step(f, i)]
    BY <1>2
  <2> DEFINE g == [i \in 0..(k + 1) |-> IF i \in 0..k THEN f[i] ELSE step(f, k + 1)]
  <2>2. ASSUME NEW i \in 0..(k + 1) PROVE g[i] = step(g, i)
    <3>1. CASE i = 0
      BY <2>1, <3>1
    <3>2. CASE i \in 1..k
      <4>1. i - 1 \in 0..k /\ i \in 0..k /\ i # 0
        BY <3>2
      <4>2. g[i - 1] = f[i - 1] /\ g[i] = f[i]
        BY <4>1
      <4>3. f[i] = step(f, i)
        BY <2>1, <4>1
      <4> HIDE DEF g
      <4> QED
        BY <4>1, <4>2, <4>3
    <3>3. CASE i = k + 1
      <4>1. i - 1 = k /\ i \notin 0..k /\ i # 0
        BY <3>3
      <4>2. g[i] = step(f, i) /\ g[i - 1] = f[i - 1]
        BY <3>3, <4>1
      <4> HIDE DEF g
      <4> QED
        BY <4>1, <4>2
    <3> QED
      BY <3>1, <3>2, <3>3
  <2>3. g = [i \in 0..(k + 1) |-> step(g, i)]
    BY <2>2
  <2> HIDE DEF g
  <2> QED
    BY <2>3
<1> HIDE DEF S
<1>3. Len(list) \in S
  BY <1>1, <1>2, Induction
<1> QED
  BY <1>3 DEF S, Leaves

(* What is left of a list without a number: entries of the list, and all   *)
(* of those that have another number.                                      *)
LEMMA WithoutKeeps ==
  ASSUME NEW list \in Seq(Entry), NEW n
  PROVE  /\ Without(list, n) \in Seq(Entry)
         /\ ToSet(Without(list, n)) = {e \in ToSet(list) : e.id # n}
<1> DEFINE rest == CHOOSE f : Leaves(f, list, n)
           Right(i) == /\ rest[i] \in Seq(Entry)
                       /\ \A j \in 1..i : list[j].id # n =>
                             \E m \in DOMAIN rest[i] : rest[i][m] = list[j]
                       /\ \A m \in DOMAIN rest[i] :
                             \E j \in 1..i : list[j].id # n /\ rest[i][m] = list[j]
           S == {k \in Nat : k \in 0..Len(list) => Right(k)}
<1>1. Leaves(rest, list, n)
  BY WithoutExists
<1>2. Without(list, n) = rest[Len(list)]
  BY DEF Without, Leaves
<1> HIDE DEF rest
<1>3. 0 \in S
  <2>1. rest[0] = <<>> /\ rest[0] \in Seq(Entry)
    BY <1>1 DEF Leaves
  <2>2. (\A j \in 1..0 : FALSE) /\ DOMAIN rest[0] = {}
    BY <2>1
  <2> QED
    BY <2>1, <2>2
<1>4. ASSUME NEW k \in Nat, k \in S PROVE k + 1 \in S
  <2> SUFFICES ASSUME k + 1 \in 0..Len(list) PROVE Right(k + 1)
    OBVIOUS
  <2>1. /\ k \in 0..Len(list) /\ k + 1 \in DOMAIN list /\ Right(k)
        /\ k + 1 # 0 /\ (k + 1) - 1 = k
    BY <1>4
  <2>2. list[k + 1] \in Entry
    BY <2>1
  <2>3. CASE list[k + 1].id = n
    <3>1. rest[k + 1] = rest[k]
      BY <1>1, <2>1, <2>3 DEF Leaves
    <3> QED
      BY <2>1, <2>3, <3>1
  <2>4. CASE list[k + 1].id # n
    <3> DEFINE old == rest[k]
               new == Append(old, list[k + 1])
    <3>1. rest[k + 1] = new
      BY <1>1, <2>1, <2>4 DEF Leaves
    <3>2. old \in Seq(Entry)
      BY <2>1
    <3>3. \A j \in 1..k : list[j].id # n => \E m \in DOMAIN old : old[m] = list[j]
      BY <2>1
    <3>4. \A m \in DOMAIN old : \E j \in 1..k : list[j].id # n /\ old[m] = list[j]
      BY <2>1
    <3> HIDE DEF old
    <3>5. /\ new \in Seq(Entry) /\ DOMAIN new = 1..(Len(old) + 1)
          /\ new[Len(old) + 1] = list[k + 1]
          /\ \A m \in DOMAIN old : m \in DOMAIN new /\ new[m] = old[m]
          /\ DOMAIN old = 1..Len(old) /\ Len(old) \in Nat
      BY <2>2, <3>2
    <3> HIDE DEF new
    <3>6. \A j \in 1..(k + 1) : list[j].id # n => \E m \in DOMAIN new : new[m] = list[j]
      <4>1. \A j \in 1..(k + 1) : j \in 1..k \/ j = k + 1
        OBVIOUS
      <4>2. Len(old) + 1 \in DOMAIN new
        BY <3>5
      <4> QED
        BY <3>3, <3>5, <4>1, <4>2
    <3>7. \A m \in DOMAIN new : \E j \in 1..(k + 1) : list[j].id # n /\ new[m] = list[j]
      <4>1. \A m \in DOMAIN new : m \in DOMAIN old \/ m = Len(old) + 1
        BY <3>5
      <4>2. \A j \in 1..k : j \in 1..(k + 1)
        OBVIOUS
      <4>3. k + 1 \in 1..(k + 1)
        OBVIOUS
      <4> QED
        BY <2>4, <3>4, <3>5, <4>1, <4>2, <4>3
    <3> QED
      BY <3>1, <3>5, <3>6, <3>7
  <2> QED
    BY <2>3, <2>4
<1> HIDE DEF S
<1>5. Len(list) \in S
  BY <1>3, <1>4, Induction
<1>6. Right(Len(list))
  BY <1>5 DEF S
<1> QED
  BY <1>2, <1>6 DEF ToSet

-----------------------------------------------------------------------------
(* Amendments of a list *)

(* There is no row and no request at the start. *)
LEMMA InitInv == Init => IInv
<1> SUFFICES ASSUME Init PROVE IInv
  OBVIOUS
<1>1. TypeOK
  <2>1. made \in 0..MaxMade
    BY Bounds DEF Init
  <2>2. foreign \in BOOLEAN
    BY Zenon DEF Init
  <2>3. kind \in Kinds /\ row \in Seq(Entry) \cup {None, Junk}
    BY DEF Init
  <2>4. req \in [Requests -> Request \cup {None}]
    BY DEF Init
  <2> QED
    BY <2>1, <2>2, <2>3, <2>4 DEF TypeOK
<1>2. row \notin Seq(Entry) /\ \A r \in Requests : req[r] = None
  BY NoLists DEF Init
<1> QED
  BY <1>1, <1>2 DEF IInv

(* The list a route starts from. *)
LEMMA Start ==
  ASSUME IInv, Usable
  PROVE  /\ List \in Seq(Entry)
         /\ row \in {None, List}
         /\ row \in Seq(Entry) => row = List
         /\ kind = "tickets_data" /\ ~foreign => InOrder(List)
  BY NoLists DEF IInv, TypeOK, Usable, List, InOrder

(* A list that only grows holds what it held. *)
LEMMA GrowthHolds ==
  ASSUME NEW old \in Seq(Entry), NEW new \in Seq(Entry), Follows(old, new), NEW n
  PROVE  Holds(old, new, n)
<1>1. DOMAIN old \subseteq DOMAIN new
  BY DEF Follows
<1> QED
  BY <1>1 DEF Follows, Holds

(* Replies are counted in naturals. *)
LEMMA Replies == \A e \in Entry : e.replies \in Nat
  BY Bounds DEF Entry

(* The two amendments of an entry. *)
LEMMA Amendments ==
  ASSUME NEW old \in Entry
  PROVE  /\ old.replies < MaxReplies =>
               LET e == [old EXCEPT !.replies = @ + 1]
               IN  e \in Entry /\ e.id = old.id /\ e.tag = old.tag /\ e.open = old.open
                   /\ e.replies = old.replies + 1
         /\ LET e == [old EXCEPT !.open = FALSE]
            IN  e \in Entry /\ e.id = old.id /\ e.tag = old.tag /\ e.open = FALSE
                /\ e.replies = old.replies
<1>1. old.replies + 1 \in Nat
  BY Replies
<1>2. ASSUME old.replies < MaxReplies PROVE old.replies + 1 \in 0..MaxReplies
  BY <1>1, <1>2, Replies, Bounds
<1>3. ASSUME NEW n \in 0..MaxReplies PROVE [old EXCEPT !.replies = n] \in Entry
  BY DEF Entry
<1>4. [old EXCEPT !.open = FALSE] \in Entry
  BY DEF Entry
<1>5. [old EXCEPT !.open = FALSE].open = FALSE
  BY DEF Entry
<1> QED
  BY <1>2, <1>3, <1>4, <1>5 DEF Entry

(* A list that is changed in one entry, which keeps its number, its tag    *)
(* and what was done to it.                                                *)
LEMMA Amended ==
  ASSUME NEW list \in Seq(Entry), NEW i \in DOMAIN list, NEW e \in Entry,
         e.id = list[i].id, e.tag = list[i].tag,
         ~list[i].open => ~e.open, e.replies >= list[i].replies
  PROVE  LET new == [list EXCEPT ![i] = e]
         IN  new \in Seq(Entry) /\ Follows(list, new) /\ (InOrder(list) => InOrder(new))
<1> DEFINE new == [list EXCEPT ![i] = e]
<1>1. new \in Seq(Entry) /\ Len(new) = Len(list)
  OBVIOUS
<1>2. DOMAIN new = DOMAIN list
  OBVIOUS
<1>3. \A j \in DOMAIN list : new[j] = IF j = i THEN e ELSE list[j]
  OBVIOUS
<1>4. \A j \in DOMAIN list : list[j].replies \in Nat
  BY Replies
<1> HIDE DEF new
<1>5. InOrder(list) => InOrder(new)
  BY <1>2, <1>3 DEF InOrder
<1>6. Follows(list, new)
  BY <1>1, <1>3, <1>4 DEF Follows
<1> QED
  BY <1>1, <1>5, <1>6 DEF new

(* A list with a new entry, which may have the next number. *)
LEMMA Appended ==
  ASSUME NEW list \in Seq(Entry), NEW e \in Entry
  PROVE  LET new == Append(list, e)
         IN  /\ new \in Seq(Entry) /\ Follows(list, new)
             /\ InOrder(list) /\ e.id = Len(list) + 1 => InOrder(new)
<1> DEFINE new == Append(list, e)
<1>1. new \in Seq(Entry) /\ Len(new) = Len(list) + 1
  OBVIOUS
<1>2. \A j \in DOMAIN new : new[j] = IF j \in DOMAIN list THEN list[j] ELSE e
  OBVIOUS
<1>3. \A j \in DOMAIN new : j \notin DOMAIN list => j = Len(list) + 1
  BY <1>1
<1>4. \A j \in DOMAIN list : j \in DOMAIN new /\ list[j].replies \in Nat
  BY <1>1, Replies
<1> HIDE DEF new
<1>5. InOrder(list) /\ e.id = Len(list) + 1 => InOrder(new)
  BY <1>2, <1>3 DEF InOrder
<1>6. Follows(list, new)
  BY <1>1, <1>2, <1>4 DEF Follows
<1> QED
  BY <1>1, <1>5, <1>6 DEF new

-----------------------------------------------------------------------------
(* The routes *)

(* A route that writes what it has read, without what it names, keeps the  *)
(* invariant; on the tickets it may only add.                              *)
LEMMA PrepareKeeps ==
  ASSUME IInv, Usable, NEW r \in Requests, NEW list \in Seq(Entry), NEW n \in Nat,
         Holds(List, list, n),
         kind = "tickets_data" => Follows(List, list),
         kind = "tickets_data" /\ ~foreign => InOrder(list),
         Prepare(r, list, n), made' \in 0..MaxMade
  PROVE  IInv'
<1> DEFINE new == [read |-> row, list |-> list, drops |-> n]
<1>1. req' = [req EXCEPT ![r] = new] /\ UNCHANGED <<kind, row, foreign>>
  BY DEF Prepare
<1>2. new \in Request /\ new.read = row /\ new.list = list /\ new.drops = n
  BY DEF IInv, TypeOK, Usable, Request
<1>3. row \in Seq(Entry) => row = List
  BY Start
<1> HIDE DEF new
<1>4. Carries(new) /\ (kind = "tickets_data" => Grows(new))
  BY <1>2, <1>3 DEF Carries, Grows
<1>5. TypeOK'
  BY <1>1, <1>2 DEF IInv, TypeOK
<1>6. /\ \A q \in Requests : req'[q] # None => Carries(req'[q])
      /\ kind = "tickets_data" =>
            \A q \in Requests : req'[q] # None =>
                Grows(req'[q]) /\ (~foreign => InOrder(req'[q].list))
  BY <1>1, <1>2, <1>4 DEF IInv, TypeOK
<1> QED
  BY <1>1, <1>5, <1>6 DEF IInv, InOrder, Carries, Holds, Grows, Follows

(* A new entry. *)
LEMMA CreateKeeps ==
  ASSUME IInv, Usable, NEW r \in Requests, Create(r)
  PROVE  IInv'
<1> List \in Seq(Entry) /\ (kind = "tickets_data" /\ ~foreign => InOrder(List))
  BY Start
<1>1. made < MaxMade /\ made' = made + 1 /\ Prepare(r, Append(List, NewEntry), 0)
  BY DEF Create
<1>2. NewEntry \in Entry /\ NewEntry.id = Len(List) + 1 /\ made' \in 0..MaxMade
  BY <1>1, Bounds DEF NewEntry, Entry, IInv, TypeOK
<1> DEFINE new == Append(List, NewEntry)
<1>3. new \in Seq(Entry) /\ Follows(List, new) /\ (InOrder(List) => InOrder(new))
  BY <1>2, Appended
<1> HIDE DEF new
<1>4. Holds(List, new, 0)
  BY <1>3, GrowthHolds
<1>5. Prepare(r, new, 0)
  BY <1>1 DEF new
<1> QED
  BY <1>2, <1>3, <1>4, <1>5, PrepareKeeps

(* An amendment of one entry. *)
LEMMA AmendKeeps ==
  ASSUME IInv, Usable, NEW r \in Requests, NEW i \in DOMAIN List, NEW e \in Entry,
         e.id = List[i].id, e.tag = List[i].tag,
         ~List[i].open => ~e.open, e.replies >= List[i].replies,
         Prepare(r, [List EXCEPT ![i] = e], 0), UNCHANGED made
  PROVE  IInv'
<1> List \in Seq(Entry) /\ (kind = "tickets_data" /\ ~foreign => InOrder(List))
  BY Start
<1> DEFINE new == [List EXCEPT ![i] = e]
<1>1. new \in Seq(Entry) /\ Follows(List, new) /\ (InOrder(List) => InOrder(new))
  BY Amended
<1>2. Prepare(r, new, 0) /\ made' \in 0..MaxMade
  BY DEF IInv, TypeOK
<1> HIDE DEF new
<1>3. Holds(List, new, 0)
  BY <1>1, GrowthHolds
<1> QED
  BY <1>1, <1>2, <1>3, PrepareKeeps

(* A reply to a ticket. *)
LEMMA ReplyKeeps ==
  ASSUME IInv, Usable, NEW r \in Requests, NEW n, Reply(r, n)
  PROVE  IInv'
<1> List \in Seq(Entry)
  BY Start
<1>1. PICK i \in DOMAIN List :
        List[i].replies < MaxReplies /\ Prepare(r, [List EXCEPT ![i].replies = @ + 1], 0)
  BY DEF Reply
<1> DEFINE e == [List[i] EXCEPT !.replies = @ + 1]
<1>2. List[i] \in Entry /\ List[i].replies \in Nat
  BY Replies
<1>3. e \in Entry /\ e.id = List[i].id /\ e.tag = List[i].tag /\ e.open = List[i].open
      /\ e.replies = List[i].replies + 1
  BY <1>1, <1>2, Amendments
<1>4. [List EXCEPT ![i].replies = @ + 1] = [List EXCEPT ![i] = e] /\ UNCHANGED made
  BY DEF Reply
<1> HIDE DEF e
<1>5. Prepare(r, [List EXCEPT ![i] = e], 0)
  BY <1>1, <1>4
<1> QED
  BY <1>2, <1>3, <1>4, <1>5, AmendKeeps

(* A ticket is closed. *)
LEMMA CloseKeeps ==
  ASSUME IInv, Usable, NEW r \in Requests, NEW n, Close(r, n)
  PROVE  IInv'
<1> List \in Seq(Entry)
  BY Start
<1>1. PICK i \in DOMAIN List : Prepare(r, [List EXCEPT ![i].open = FALSE], 0)
  BY DEF Close
<1> DEFINE e == [List[i] EXCEPT !.open = FALSE]
<1>2. List[i] \in Entry /\ List[i].replies \in Nat
  BY Replies
<1>3. e \in Entry /\ e.id = List[i].id /\ e.tag = List[i].tag /\ e.open = FALSE
      /\ e.replies = List[i].replies
  BY <1>2, Amendments
<1>4. [List EXCEPT ![i].open = FALSE] = [List EXCEPT ![i] = e] /\ UNCHANGED made
  BY DEF Close
<1> HIDE DEF e
<1>5. Prepare(r, [List EXCEPT ![i] = e], 0)
  BY <1>1, <1>4
<1> QED
  BY <1>2, <1>3, <1>4, <1>5, AmendKeeps

(* Entries are dropped; there is no such route for tickets. *)
LEMMA DeleteKeeps ==
  ASSUME IInv, Usable, NEW r \in Requests, NEW n \in Nat, Delete(r, n), kind # "tickets_data"
  PROVE  IInv'
<1> DEFINE new == Without(List, n)
<1>1. List \in Seq(Entry)
  BY Start
<1>2. new \in Seq(Entry) /\ ToSet(new) = {e \in ToSet(List) : e.id # n}
  BY <1>1, WithoutKeeps
<1>3. Prepare(r, new, n) /\ made' \in 0..MaxMade
  BY DEF Delete, IInv, TypeOK
<1> HIDE DEF new
<1>4. Holds(List, new, n)
  BY <1>2 DEF Holds, ToSet
<1> QED
  BY <1>2, <1>3, <1>4, PrepareKeeps

(* A name is added; there is no such route for tickets. *)
LEMMA BlockKeeps ==
  ASSUME IInv, Usable, NEW r \in Requests, NEW x \in Nat, Block(r, x), kind # "tickets_data"
  PROVE  IInv'
<1> DEFINE e == [id |-> x, tag |-> 0, open |-> TRUE, replies |-> 0]
           new == Append(List, e)
<1>1. List \in Seq(Entry) /\ e \in Entry
  BY Start, Bounds DEF Entry
<1>2. Prepare(r, new, 0) /\ made' \in 0..MaxMade
  BY DEF Block, IInv, TypeOK
<1> HIDE DEF e
<1>3. new \in Seq(Entry) /\ Follows(List, new)
  BY <1>1, Appended
<1> HIDE DEF new
<1>4. Holds(List, new, 0)
  BY <1>1, <1>3, GrowthHolds
<1> QED
  BY <1>2, <1>3, <1>4, PrepareKeeps

(* So every route does. *)
LEMMA RouteKeeps ==
  ASSUME IInv, NEW r \in Requests, Route(r)
  PROVE  IInv'
<1>1. Usable
  BY DEF Route
<1>2. CASE Create(r)
  BY <1>1, <1>2, CreateKeeps
<1>3. CASE \E n : Reply(r, n) \/ Close(r, n)
  BY <1>1, <1>3, ReplyKeeps, CloseKeeps
<1>4. CASE kind = "access_codes" /\ \E n \in 1..MaxMade : Delete(r, n)
  <2>1. 1..MaxMade \subseteq Nat
    OBVIOUS
  <2> QED
    BY <1>1, <1>4, <2>1, DeleteKeeps
<1>5. CASE kind = "blocked_isps" /\ \E x \in Providers : Block(r, x) \/ Delete(r, x)
  BY <1>1, <1>5, Bounds, DeleteKeeps, BlockKeeps
<1> QED
  BY <1>2, <1>3, <1>4, <1>5 DEF Route, PostAlias, Unblock

-----------------------------------------------------------------------------
(* The commit and the settings page *)

(* The commit of a route writes its list or nothing. *)
LEMMA SetKeeps ==
  ASSUME IInv, NEW r \in Requests, Set(r)
  PROVE  IInv'
<1>1. /\ req[r] \in Request /\ foreign' = foreign
      /\ kind = "tickets_data" => Grows(req[r]) /\ (~foreign => InOrder(req[r].list))
  BY DEF Set, IInv, TypeOK
<1>2. row' \in {row, req[r].list} /\ req[r].list \in Seq(Entry)
  BY <1>1 DEF Set, Request
<1>3. TypeOK' /\ (kind = "tickets_data" /\ ~foreign /\ row' \in Seq(Entry) => InOrder(row'))
  BY <1>1, <1>2 DEF Set, IInv, TypeOK
<1>4. /\ \A q \in Requests : req'[q] # None => Carries(req'[q])
      /\ kind = "tickets_data" =>
            \A q \in Requests : req'[q] # None =>
                Grows(req'[q]) /\ (~foreign => InOrder(req'[q].list))
  BY DEF Set, IInv, TypeOK
<1> QED
  BY <1>1, <1>3, <1>4 DEF Set, IInv, InOrder, Carries, Holds, Grows, Follows

(* A request whose row was deleted keeps what it is about to write. *)
LEMMA GoneReadings ==
  ASSUME NEW q \in Request
  PROVE  LET gone == [q EXCEPT !.read = Gone]
         IN  gone \in Request /\ Carries(gone) /\ Grows(gone) /\ gone.list = q.list
<1> DEFINE gone == [q EXCEPT !.read = Gone]
<1>1. gone.read = Gone /\ gone.list = q.list /\ gone.drops = q.drops /\ gone \in Request
  BY DEF Request
<1> HIDE DEF gone
<1>2. Carries(gone) /\ Grows(gone)
  BY <1>1, NoLists DEF Carries, Grows
<1> QED
  BY <1>1, <1>2 DEF gone

(* A deletion of the row ends no request. *)
LEMMA DeletionIsNoEnd ==
  ASSUME IInv, DeleteSetting, NEW r \in Requests
  PROVE  /\ req'[r] \in Request \cup {None}
         /\ req'[r] = None <=> req[r] = None
         /\ req'[r] # None => /\ Carries(req'[r]) /\ (Grows(req[r]) => Grows(req'[r]))
                              /\ req'[r].list = req[r].list
<1>1. CASE req[r] # None /\ req[r].read # None
  <2>1. req'[r] = [req[r] EXCEPT !.read = Gone]
    BY <1>1 DEF DeleteSetting
  <2>2. req[r] \in Request
    BY <1>1 DEF IInv, TypeOK
  <2> QED
    BY <1>1, <2>1, <2>2, GoneReadings, NoRequest
<1>2. CASE ~(req[r] # None /\ req[r].read # None)
  <2>1. req'[r] = req[r]
    BY <1>2 DEF DeleteSetting
  <2> QED
    BY <2>1 DEF IInv, TypeOK
<1> QED
  BY <1>1, <1>2

(* The settings page stores a list or spoils the row: a list that is not   *)
(* in order is a foreign one.                                              *)
LEMMA OverwriteKeeps ==
  ASSUME IInv, NEW v \in PageLists \cup {Junk}, Overwrite(v)
  PROVE  IInv'
<1>1. row' = v /\ UNCHANGED <<kind, req, made>> /\ foreign' \in BOOLEAN
      /\ (foreign => foreign')
  BY DEF Overwrite, IInv, TypeOK
<1>2. v \in Seq(Entry) \cup {Junk}
  BY PageListsType
<1>3. kind = "tickets_data" /\ ~foreign' /\ row' \in Seq(Entry) => InOrder(row')
  BY <1>1, NoLists DEF Overwrite
<1>4. TypeOK'
  BY <1>1, <1>2 DEF IInv, TypeOK
<1> QED
  BY <1>1, <1>3, <1>4 DEF IInv, InOrder, Carries, Holds, Grows, Follows

(* The settings page deletes the row. *)
LEMMA DeletionKeeps ==
  ASSUME IInv, DeleteSetting
  PROVE  IInv'
<1>1. row' = None /\ UNCHANGED <<kind, made, foreign>> /\ DOMAIN req' = Requests
      /\ req' = [q \in Requests |-> req'[q]]
  BY DEF DeleteSetting
<1>2. TypeOK'
  BY <1>1, DeletionIsNoEnd DEF IInv, TypeOK
<1>3. /\ \A q \in Requests : req'[q] # None => Carries(req'[q])
      /\ kind = "tickets_data" =>
            \A q \in Requests : req'[q] # None =>
                Grows(req'[q]) /\ (~foreign => InOrder(req'[q].list))
  BY DeletionIsNoEnd DEF IInv
<1> QED
  BY <1>1, <1>2, <1>3, NoLists DEF IInv, InOrder, Carries, Holds, Grows, Follows

(* Every step keeps the invariant. *)
LEMMA NextKeeps == IInv /\ [Next]_vars => IInv'
<1> SUFFICES ASSUME IInv, [Next]_vars PROVE IInv'
  OBVIOUS
<1>1. CASE UNCHANGED vars
  BY <1>1 DEF vars, IInv, TypeOK, InOrder, Carries, Holds, Grows, Follows
<1> QED
  BY <1>1, RouteKeeps, SetKeeps, OverwriteKeeps, DeletionKeeps DEF Next

(* A request ends with its commit. *)
LEMMA EndsWithCommit ==
  ASSUME IInv, [Next]_vars, NEW r \in Requests, req[r] # None, req'[r] = None
  PROVE  Set(r)
<1>1. ASSUME NEW q \in Requests, Route(q) PROVE FALSE
  <2>1. req[q] = None /\ \A x \in Requests : x # q => req'[x] = req[x]
    BY <1>1 DEF Route, Create, Reply, Close, PostAlias, Delete, Block, Unblock, Prepare,
                IInv, TypeOK
  <2> QED
    BY <2>1
<1>2. ASSUME NEW q \in Requests, Set(q), q # r PROVE FALSE
  BY <1>2 DEF Set, IInv, TypeOK
<1>3. ASSUME (\E v \in PageLists \cup {Junk} : Overwrite(v)) \/ UNCHANGED vars PROVE FALSE
  BY <1>3 DEF Overwrite, vars
<1>4. ASSUME DeleteSetting PROVE FALSE
  BY <1>4, DeletionIsNoEnd
<1> QED
  BY <1>1, <1>2, <1>3, <1>4 DEF Next

(* The lists before and after a commit that was not overtaken. *)
LEMMA LoneCommit ==
  ASSUME IInv, NEW r \in Requests, Set(r), req[r].read = row
  PROVE  \/ List = <<>>
         \/ /\ List \in Seq(Entry) /\ List = req[r].read
            /\ List' \in {List, req[r].list}
<1>1. req[r] \in Request
  BY DEF Set, IInv, TypeOK
<1>2. row' \in {row, req[r].list} /\ req[r].list \in Seq(Entry)
  BY <1>1 DEF Set, Request
<1>3. CASE row = None
  BY <1>3 DEF List
<1>4. CASE row # None
  <2>1. row \in Seq(Entry) /\ row' \in Seq(Entry)
    BY <1>1, <1>2, <1>4, NoLists, Apart DEF IInv, TypeOK, Request
  <2> QED
    BY <1>2, <1>4, <2>1, NoLists DEF List
<1> QED
  BY <1>3, <1>4

-----------------------------------------------------------------------------
(* The theorems *)

(* What is in the row and in the hands of the requests is as the routes    *)
(* take it to be: lists of entries, and for each request one that was made *)
(* from the list it has read.                                              *)
THEOREM ListsInvariance == Spec => []IInv
  BY InitInv, NextKeeps, PTL DEF Spec

(* The tickets of a list are numbered 1 to n, however the requests of the  *)
(* administrators and the resellers overlap and whatever the settings page *)
(* does to the row, unless it has stored tickets numbered otherwise.       *)
THEOREM Numbered == Spec => []TicketsAreNumbered
<1>1. IInv => TicketsAreNumbered
  BY NoLists DEF IInv, TypeOK, TicketsAreNumbered, Usable, List, InOrder
<1> QED
  BY <1>1, ListsInvariance, PTL

(* A request that is not overtaken leaves every ticket with its number,    *)
(* closed ones closed and replies in place.                                *)
THEOREM NobodyLosesTickets == Spec => TicketsStay
<1>1. ASSUME IInv, [Next]_vars, kind = "tickets_data", NEW r \in Requests, Lone(r)
      PROVE  Follows(List, List')
  <2>1. Set(r)
    BY <1>1, EndsWithCommit DEF Lone
  <2>2. CASE List = <<>>
    <3>1. List' \in Seq(Entry)
      <4>1. IInv' /\ req[r] \in Request /\ row' # Junk
        BY <1>1, <2>1, NextKeeps, NoLists, Apart DEF Set, Lone, IInv, TypeOK, Request
      <4> QED
        BY <4>1, NoLists DEF IInv, TypeOK, List
    <3> QED
      BY <2>2, <3>1 DEF Follows
  <2>3. ASSUME List \in Seq(Entry), List = req[r].read, List' \in {List, req[r].list}
        PROVE  Follows(List, List')
    <3>1. Grows(req[r])
      BY <1>1, <2>1 DEF Set, IInv
    <3>2. Follows(List, List)
      <4>1. \A i \in DOMAIN List : List[i].replies \in Nat
        BY <2>3, Replies
      <4> QED
        BY <2>3, <4>1 DEF Follows
    <3> QED
      BY <2>3, <3>1, <3>2 DEF Grows
  <2> QED
    BY <1>1, <2>1, <2>2, <2>3, LoneCommit DEF Lone
<1>2. IInv /\ [Next]_vars =>
        [kind = "tickets_data" => \A r \in Requests : Lone(r) => Follows(List, List')]_vars
  BY <1>1
<1> QED
  BY <1>2, ListsInvariance, PTL DEF Spec, TicketsStay

(* A request that is not overtaken takes from a list only the entries with *)
(* the number it names, and one whose row was deleted brings nothing back. *)
THEOREM NobodyLosesEntries == Spec => OthersStay
<1> DEFINE keeps(r) ==
      /\ Lone(r) =>
            \A e \in ToSet(List) :
                e.id = req[r].drops
                \/ \E f \in ToSet(List') : f.id = e.id /\ f.tag = e.tag
      /\ req[r] # None /\ req'[r] = None /\ req[r].read = Gone => row' = row
<1>1. ASSUME IInv, [Next]_vars, NEW r \in Requests
      PROVE  keeps(r)
  <2>1. ASSUME Lone(r), NEW e \in ToSet(List), e.id # req[r].drops
        PROVE  \E f \in ToSet(List') : f.id = e.id /\ f.tag = e.tag
    <3>1. Set(r)
      BY <1>1, <2>1, EndsWithCommit DEF Lone
    <3>2. /\ List \in Seq(Entry) /\ List = req[r].read
          /\ List' \in {List, req[r].list}
      BY <1>1, <2>1, <3>1, LoneCommit DEF Lone, ToSet
    <3>3. Holds(List, req[r].list, req[r].drops)
      BY <1>1, <3>1, <3>2 DEF Set, IInv, Carries
    <3>4. CASE List' = List
      BY <2>1, <3>4
    <3>5. CASE List' = req[r].list
      BY <2>1, <3>3, <3>5 DEF Holds, ToSet
    <3> QED
      BY <3>2, <3>4, <3>5
  <2>2. ASSUME req[r] # None, req'[r] = None, req[r].read = Gone PROVE row' = row
    <3>1. Set(r)
      BY <1>1, <2>2, EndsWithCommit
    <3> QED
      BY <2>2, <3>1, Apart DEF Set, Takes
  <2> QED
    BY <2>1, <2>2
<1>2. IInv /\ [Next]_vars => [\A r \in Requests : keeps(r)]_vars
  BY <1>1
<1> QED
  BY <1>2, ListsInvariance, PTL DEF Spec, OthersStay
==============================================================================
