--------------------------- MODULE ResellerProofs ---------------------------
(***************************************************************************)
(* What MCReseller checks on one reseller and two requests, proved for any *)
(* resellers, requests, costs and limits.                                  *)
(*                                                                         *)
(* CreditsInRange needs WritesInRange: the danger is not in the row but in *)
(* the values that requests have computed and not written yet.             *)
(* PricesAreCharged needs CheckStands: as long as a request is alone      *)
(* (OneRequest), what its checks have seen is true when it charges.        *)
(***************************************************************************)
EXTENDS Reseller, TLAPS

(* What a request charges is an integer, and not zero. *)
LEMMA PricesAreNotZero == \A c \in Costs \cup {1} : Price(c) \in Int \ {0}
<1>1. ASSUME NEW c \in Costs PROVE c \in Int
  BY <1>1, CostsType
<1> QED
  BY <1>1 DEF Price

(* The initial state: no request in flight, all credits in range. *)
LEMMA InitEstablishes == Init => IInv
  BY StartType, MaxType, Distinct DEF Init, IInv, TypeOK, Pcs, Ops, Charged, CreditsInRange, InRange,
     PricesAreCharged, WritesInRange, OneRequest, BeforeCharge, CheckStands

(* A request to create passes its checks: the credits cover the cost. *)
LEMMA CreateBeginKeeps ==
  ASSUME IInv, NEW t \in Requests, NEW r \in Resellers, NEW c \in Costs \cup {1}, CreateBegin(t, r, c)
  PROVE  IInv'
<1> USE Distinct, CostsType, MaxType DEF IInv, TypeOK, Pcs, Ops, Charged, InRange, InFlight,
          rows, request, history, CreateBegin, Enter
<1>0. Price(c) \in Int \ {0}
  BY PricesAreNotZero
<1>1. TypeOK'
  BY <1>0
<1>2. CreditsInRange' /\ WritesInRange'
  BY DEF CreditsInRange, WritesInRange
<1>3. OneRequest'
  BY DEF OneRequest
<1>4. BeforeCharge'
  BY DEF BeforeCharge
<1>5. CheckStands'
  BY <1>0 DEF CheckStands, OneRequest, BeforeCharge
<1>6. PricesAreCharged'
  BY DEF PricesAreCharged, CheckStands, BeforeCharge
<1> QED
  BY <1>1, <1>2, <1>3, <1>4, <1>5, <1>6

(* A request to extend passes its checks. *)
LEMMA ExtendBeginKeeps ==
  ASSUME IInv, NEW t \in Requests, NEW r \in Resellers, NEW u \in Users, ExtendBegin(t, r, u)
  PROVE  IInv'
<1> USE Distinct, CostsType, MaxType DEF IInv, TypeOK, Pcs, Ops, Charged, InRange, InFlight,
          rows, request, history, ExtendBegin, Enter
<1>1. TypeOK'
  OBVIOUS
<1>2. CreditsInRange' /\ WritesInRange'
  BY DEF CreditsInRange, WritesInRange
<1>3. OneRequest'
  BY DEF OneRequest
<1>4. BeforeCharge'
  BY DEF BeforeCharge
<1>5. CheckStands'
  BY DEF CheckStands, OneRequest, BeforeCharge
<1>6. PricesAreCharged'
  BY DEF PricesAreCharged, CheckStands, BeforeCharge
<1> QED
  BY <1>1, <1>2, <1>3, <1>4, <1>5, <1>6

(* An administrator's request has read the row: what it is going to write is in range. *)
LEMMA ReadKeeps ==
  ASSUME IInv, NEW t \in Requests, NEW r \in Resellers, NEW o \in Ops \ Charged, NEW c \in Int,
         o # "put" /\ r \notin decreed => InRange(r, c), Read(t, r, o, c)
  PROVE  IInv'
<1> USE Distinct, CostsType, MaxType DEF IInv, TypeOK, Pcs, Ops, Charged, InRange, InFlight,
          rows, request, history, Read, Enter
<1>1. TypeOK'
  OBVIOUS
<1>2. CreditsInRange' /\ WritesInRange'
  BY DEF CreditsInRange, WritesInRange
<1>3. OneRequest'
  BY DEF OneRequest
<1>4. BeforeCharge'
  BY DEF BeforeCharge
<1>5. CheckStands'
  BY DEF CheckStands, OneRequest, BeforeCharge
<1>6. PricesAreCharged'
  BY DEF PricesAreCharged, CheckStands, BeforeCharge
<1> QED
  BY <1>1, <1>2, <1>3, <1>4, <1>5, <1>6

(* The user is there, and the request remembers him. *)
LEMMA InsertKeeps ==
  ASSUME IInv, NEW t \in Requests, Insert(t)
  PROVE  IInv'
<1> USE Distinct, CostsType, MaxType DEF IInv, TypeOK, Pcs, Ops, Charged, InRange, InFlight,
          rows, request, history, Insert, Goto
<1>1. TypeOK'
  OBVIOUS
<1>2. CreditsInRange' /\ WritesInRange'
  BY DEF CreditsInRange, WritesInRange
<1>3. OneRequest'
  BY DEF OneRequest
<1>4. BeforeCharge'
  BY DEF BeforeCharge
<1>5. CheckStands'
  BY DEF CheckStands, OneRequest, BeforeCharge
<1>6. PricesAreCharged'
  BY DEF PricesAreCharged, CheckStands, BeforeCharge
<1> QED
  BY <1>1, <1>2, <1>3, <1>4, <1>5, <1>6

(* Nothing has been created. *)
LEMMA InsertFailsKeeps ==
  ASSUME IInv, NEW t \in Requests, InsertFails(t)
  PROVE  IInv'
<1> USE Distinct, CostsType, MaxType DEF IInv, TypeOK, Pcs, Ops, Charged, InRange, InFlight,
          rows, request, history, InsertFails, End
<1>1. TypeOK'
  OBVIOUS
<1>2. CreditsInRange' /\ WritesInRange'
  BY DEF CreditsInRange, WritesInRange
<1>3. OneRequest'
  BY DEF OneRequest
<1>4. BeforeCharge'
  BY DEF BeforeCharge
<1>5. CheckStands'
  BY DEF CheckStands, OneRequest, BeforeCharge
<1>6. PricesAreCharged'
  BY DEF PricesAreCharged, CheckStands, BeforeCharge
<1> QED
  BY <1>1, <1>2, <1>3, <1>4, <1>5, <1>6

(* The user has a new date, or is gone and the request ends. *)
LEMMA UpdateKeeps ==
  ASSUME IInv, NEW t \in Requests, Update(t)
  PROVE  IInv'
<1> USE Distinct, CostsType, MaxType DEF IInv, TypeOK, Pcs, Ops, Charged, InRange, InFlight,
          rows, request, history, Update, Goto, End
<1>1. TypeOK'
  <2>1. CASE owner[usr[t]] # Gone
    BY <2>1 DEF BeforeCharge
  <2>2. CASE owner[usr[t]] = Gone
    BY <2>2
  <2> QED
    BY <2>1, <2>2
<1>2. CreditsInRange' /\ WritesInRange'
  BY DEF CreditsInRange, WritesInRange
<1>3. OneRequest'
  BY DEF OneRequest
<1>4. BeforeCharge'
  BY DEF BeforeCharge
<1>5. CheckStands'
  BY DEF CheckStands, OneRequest, BeforeCharge
<1>6. PricesAreCharged'
  BY DEF PricesAreCharged, CheckStands, BeforeCharge
<1> QED
  BY <1>1, <1>2, <1>3, <1>4, <1>5, <1>6

(* The credits suffice: the rest is in range.  If they do not, the price is negative or     *)
(* somebody has interfered.                                                                *)
LEMMA ReloadKeeps ==
  ASSUME IInv, NEW t \in Requests, Reload(t)
  PROVE  IInv'
<1> USE Distinct, CostsType, MaxType DEF IInv, TypeOK, Pcs, Ops, Charged, InRange, InFlight,
          rows, request, history, Goto, EndUnpaid, End
<1>1. /\ pc[t] = "reload" /\ res[t] \in Resellers
      /\ credits[res[t]] \in Int /\ Max[res[t]] \in Nat
      /\ cost[t] \in Int
  <2>1. pc[t] = "reload" /\ res[t] \in Resellers
    BY DEF Reload
  <2> QED
    BY <2>1
<1>2. CASE /\ cost[t] >= 0 /\ credits[res[t]] >= cost[t]
           /\ new' = [new EXCEPT ![t] = credits[res[t]] - cost[t]]
           /\ Goto(t, "commit")
           /\ UNCHANGED <<usr, cost, unpaid>>
           /\ UNCHANGED <<credits, rows, raced, lost, decreed>>
  <2>1. TypeOK'
    BY <1>1, <1>2
  <2>2. CreditsInRange'
    BY <1>1, <1>2 DEF CreditsInRange
  <2>3. WritesInRange'
    BY <1>1, <1>2 DEF WritesInRange, CreditsInRange
  <2>4. OneRequest'
    BY <1>1, <1>2 DEF OneRequest
  <2>5. BeforeCharge'
    BY <1>1, <1>2 DEF BeforeCharge
  <2>6. CheckStands'
    BY <1>1, <1>2 DEF CheckStands, OneRequest, BeforeCharge
  <2>7. PricesAreCharged'
    BY <1>1, <1>2 DEF PricesAreCharged, CheckStands, BeforeCharge
  <2> QED
    BY <2>1, <2>2, <2>3, <2>4, <2>5, <2>6, <2>7
<1>3. CASE /\ \/ res[t] \notin there \/ owner[usr[t]] = Gone
              \/ cost[t] < 0 \/ credits[res[t]] < cost[t]
           /\ EndUnpaid(t)
           /\ UNCHANGED <<credits, rows, raced, lost, decreed>>
  <2>1. TypeOK'
    BY <1>1, <1>3
  <2>2. CreditsInRange'
    BY <1>1, <1>3 DEF CreditsInRange
  <2>3. WritesInRange'
    BY <1>1, <1>3 DEF WritesInRange, CreditsInRange
  <2>4. OneRequest'
    BY <1>1, <1>3 DEF OneRequest
  <2>5. BeforeCharge'
    BY <1>1, <1>3 DEF BeforeCharge
  <2>6. CheckStands'
    BY <1>1, <1>3 DEF CheckStands, OneRequest, BeforeCharge
  <2>7. PricesAreCharged'
    BY <1>1, <1>3 DEF PricesAreCharged, CheckStands, BeforeCharge
  <2> QED
    BY <2>1, <2>2, <2>3, <2>4, <2>5, <2>6, <2>7
<1> QED
  BY <1>2, <1>3 DEF Reload

(* The write: another request on the same credits makes for a race. *)
LEMMA CommitKeeps ==
  ASSUME IInv, NEW t \in Requests, Commit(t)
  PROVE  IInv'
<1> USE Distinct, CostsType, MaxType DEF IInv, TypeOK, Pcs, Ops, Charged, InRange, InFlight,
          rows, request, history, Commit, EndUnpaid, End
<1>1. TypeOK'
  OBVIOUS
<1>2. CreditsInRange' /\ WritesInRange'
  BY DEF CreditsInRange, WritesInRange
<1>3. OneRequest'
  BY DEF OneRequest
<1>4. BeforeCharge'
  BY DEF BeforeCharge
<1>5. CheckStands'
  BY DEF CheckStands, OneRequest, BeforeCharge
<1>6. PricesAreCharged'
  BY DEF PricesAreCharged, CheckStands, BeforeCharge
<1> QED
  BY <1>1, <1>2, <1>3, <1>4, <1>5, <1>6

(* A request is lost, and its reseller with it. *)
LEMMA DieKeeps ==
  ASSUME IInv, NEW t \in Requests, Die(t)
  PROVE  IInv'
<1> USE Distinct, CostsType, MaxType DEF IInv, TypeOK, Pcs, Ops, Charged, InRange, InFlight,
          rows, request, history, Die, EndUnpaid, End
<1>1. TypeOK'
  OBVIOUS
<1>2. CreditsInRange' /\ WritesInRange'
  BY DEF CreditsInRange, WritesInRange
<1>3. OneRequest'
  BY DEF OneRequest
<1>4. BeforeCharge'
  BY DEF BeforeCharge
<1>5. CheckStands'
  BY DEF CheckStands, OneRequest, BeforeCharge
<1>6. PricesAreCharged'
  BY DEF PricesAreCharged, CheckStands, BeforeCharge
<1> QED
  BY <1>1, <1>2, <1>3, <1>4, <1>5, <1>6

(* A new row is not the one that a request is about. *)
LEMMA CreateDeviceKeeps ==
  ASSUME IInv, NEW r \in Resellers, NEW u \in Users, CreateDevice(r, u)
  PROVE  IInv'
<1> USE Distinct, CostsType, MaxType DEF IInv, TypeOK, Pcs, Ops, Charged, InRange, InFlight,
          rows, request, history, CreateDevice
<1>1. TypeOK'
  OBVIOUS
<1>2. CreditsInRange' /\ WritesInRange'
  BY DEF CreditsInRange, WritesInRange
<1>3. OneRequest'
  BY DEF OneRequest
<1>4. BeforeCharge'
  BY DEF BeforeCharge
<1>5. CheckStands'
  BY DEF CheckStands, OneRequest, BeforeCharge
<1>6. PricesAreCharged'
  BY DEF PricesAreCharged, CheckStands, BeforeCharge
<1> QED
  BY <1>1, <1>2, <1>3, <1>4, <1>5, <1>6

(* A request about the deleted user is marked. *)
LEMMA DeleteUserKeeps ==
  ASSUME IInv, NEW u \in Users, DeleteUser(u)
  PROVE  IInv'
<1> USE Distinct, CostsType, MaxType DEF IInv, TypeOK, Pcs, Ops, Charged, InRange, InFlight,
          rows, request, history, DeleteUser
<1>1. TypeOK'
  OBVIOUS
<1>2. CreditsInRange' /\ WritesInRange'
  BY DEF CreditsInRange, WritesInRange
<1>3. OneRequest'
  BY DEF OneRequest
<1>4. BeforeCharge'
  BY DEF BeforeCharge
<1>5. CheckStands'
  BY DEF CheckStands, OneRequest, BeforeCharge
<1>6. PricesAreCharged'
  BY DEF PricesAreCharged, CheckStands, BeforeCharge
<1> QED
  BY <1>1, <1>2, <1>3, <1>4, <1>5, <1>6

(* The deleted reseller is marked. *)
LEMMA DeleteResellerKeeps ==
  ASSUME IInv, NEW r \in Resellers, DeleteReseller(r)
  PROVE  IInv'
<1> USE Distinct, CostsType, MaxType DEF IInv, TypeOK, Pcs, Ops, Charged, InRange, InFlight,
          rows, request, history, DeleteReseller
<1>1. TypeOK'
  OBVIOUS
<1>2. CreditsInRange' /\ WritesInRange'
  BY DEF CreditsInRange, WritesInRange
<1>3. OneRequest'
  BY DEF OneRequest
<1>4. BeforeCharge'
  BY DEF BeforeCharge
<1>5. CheckStands'
  BY DEF CheckStands, OneRequest, BeforeCharge
<1>6. PricesAreCharged'
  BY DEF PricesAreCharged, CheckStands, BeforeCharge
<1> QED
  BY <1>1, <1>2, <1>3, <1>4, <1>5, <1>6

(* The administrators' requests are reads of a value in range. *)
LEMMA AdminKeeps ==
  ASSUME IInv, NEW t \in Requests, NEW r \in Resellers,
         \/ \E a \in Amounts : AddCredits(t, r, a) \/ UseCredits(t, r, a) \/ SetCredits(t, r, a)
         \/ \E a \in Puts : Put(t, r, a)
  PROVE  IInv'
<1>1. credits[r] \in Int /\ Max[r] \in Nat /\ (r \notin decreed => InRange(r, credits[r]))
  BY MaxType DEF IInv, TypeOK, CreditsInRange
<1>2. ASSUME NEW a \in Amounts, AddCredits(t, r, a) \/ UseCredits(t, r, a) \/ SetCredits(t, r, a)
      PROVE  IInv'
  <2>1. a \in Nat
    BY AmountsType
  <2>2. CASE AddCredits(t, r, a)
    BY <1>1, <2>1, <2>2, ReadKeeps DEF AddCredits, InRange, Ops, Charged
  <2>3. CASE UseCredits(t, r, a)
    BY <1>1, <2>1, <2>3, ReadKeeps DEF UseCredits, InRange, Ops, Charged
  <2>4. CASE SetCredits(t, r, a)
    BY <1>1, <2>1, <2>4, ReadKeeps DEF SetCredits, InRange, Ops, Charged
  <2> QED
    BY <1>2, <2>2, <2>3, <2>4
<1>3. ASSUME NEW a \in Puts, Put(t, r, a) PROVE IInv'
  <2>1. a \in Int
    BY AmountsType
  <2> QED
    BY <1>3, <2>1, ReadKeeps DEF Put, Ops, Charged
<1> QED
  BY <1>2, <1>3

(* Every step keeps IInv: one of the actions, or a stutter. *)
LEMMA StepKeeps == IInv /\ [Next]_vars => IInv'
<1> SUFFICES ASSUME IInv, [Next]_vars PROVE IInv'
  OBVIOUS
<1>1. CASE UNCHANGED vars
  BY <1>1 DEF vars, rows, request, history, IInv, TypeOK, CreditsInRange, PricesAreCharged,
     WritesInRange, OneRequest, BeforeCharge, CheckStands
<1>2. ASSUME NEW t \in Requests, NEW r \in Resellers, Begin(t, r) PROVE IInv'
  BY <1>2, CreateBeginKeeps, ExtendBeginKeeps, AdminKeeps DEF Begin
<1>3. ASSUME NEW t \in Requests, Step(t) PROVE IInv'
  BY <1>3, InsertKeeps, InsertFailsKeeps, UpdateKeeps, ReloadKeeps, CommitKeeps, DieKeeps DEF Step
<1>4. ASSUME NEW r \in Resellers, NEW u \in Users, CreateDevice(r, u)
      PROVE  IInv'
  BY <1>4, CreateDeviceKeeps
<1>5. ASSUME NEW u \in Users, DeleteUser(u) PROVE IInv'
  BY <1>5, DeleteUserKeeps
<1>6. ASSUME NEW r \in Resellers, DeleteReseller(r) PROVE IInv'
  BY <1>6, DeleteResellerKeeps
<1> QED
  BY <1>1, <1>2, <1>3, <1>4, <1>5, <1>6 DEF Next

(* The inductive invariant, from which the results below follow.           *)
THEOREM Invariance == Spec => []IInv
  BY InitEstablishes, StepKeeps, PTL DEF Spec

(* The variables keep their types: a request in flight has a reseller.     *)
THEOREM TypeCorrect == Spec => []TypeOK
<1>1. IInv => TypeOK
  BY DEF IInv
<1> QED
  BY <1>1, Invariance, PTL

(* No interleaving of requests and administrators takes the credits below  *)
(* zero or above the limit.                                                *)
THEOREM CreditsStayInRange == Spec => []CreditsInRange
<1>1. IInv => CreditsInRange
  BY DEF IInv
<1> QED
  BY <1>1, Invariance, PTL

(* A request that nobody interferes with charges the price of what it has  *)
(* done, whatever numbers the packages have for prices.                    *)
THEOREM LoneRequestsPay == Spec => []PricesAreCharged
<1>1. IInv => PricesAreCharged
  BY DEF IInv
<1> QED
  BY <1>1, Invariance, PTL
=============================================================================
