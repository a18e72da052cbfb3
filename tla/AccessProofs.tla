---------------------------- MODULE AccessProofs ----------------------------
(***************************************************************************)
(* Who gets in at an API worker: the connection limit, for any workers,    *)
(* users, requests, rows and limits, and the guard of the passwords, for   *)
(* any threads, administrators, addresses and number of attempts.          *)
(*                                                                         *)
(* Left to TLC: LockoutEnds, which is liveness.                            *)
(***************************************************************************)
EXTENDS Connections, LoginGuard, FiniteSetTheorems, TLAPS

-----------------------------------------------------------------------------
(* The connection limit                                                    *)

(* The invariant holds at the start: nobody watches and nobody waits. *)
LEMMA InitHolds == Init => IInv
<1> SUFFICES ASSUME Init PROVE IInv
  OBVIOUS
<1> USE DEF Init
<1>1. TypeOK
  BY FiniteBounds DEF TypeOK, Pcs
<1>2. OneHandler /\ RowInHand /\ LeftWithoutSlot /\ SlotsAreServed /\ LinesAreServed
  BY NoneIsNothing
     DEF OneHandler, RowInHand, LeftWithoutSlot, SlotsAreServed, LinesAreServed, Handled, InFlight
<1>3. PlacesTaken
  <2> SUFFICES ASSUME NEW u \in Users, Max[u] > 0
               PROVE  Cardinality(LinesOf(u)) + Cardinality(Inserting(u))
                        <= Max[u] - 1 + Cardinality(Workers)
    BY DEF PlacesTaken
  <2>1. LinesOf(u) = {} /\ Inserting(u) = {}
    BY NoneIsNothing DEF LinesOf, Inserting
  <2>2. Cardinality(Workers) \in Nat /\ Max[u] \in Nat
    BY FiniteBounds, MaxType, FS_CardinalityType
  <2> QED
    BY <2>1, <2>2, FS_EmptySet
<1> QED
  BY <1>1, <1>2, <1>3 DEF IInv

(* The end of a request, and what is forgotten, keep the types. *)
LEMMA TypeKept ==
  ASSUME TypeOK, Next
  PROVE  TypeOK'
<1> USE FiniteBounds DEF TypeOK, slots, Pcs
<1>1. ASSUME NEW r \in Requests, NEW w \in Workers, Admit(r, w) \/ Glance(r, w) PROVE TypeOK'
  BY <1>1 DEF Admit, Glance, Enters, Conns
<1>2. ASSUME NEW r \in Requests, Serve(r) PROVE TypeOK'
  <2>1. CASE CreateLine(r)
    BY <2>1, RequestsHaveUsers DEF CreateLine
  <2>2. CASE CreateFails(r)
    <3>1. ConnOf[r] \in Conns
      BY DEF Conns
    <3>2. stuck' = [stuck EXCEPT ![at[r]] = @ \cup {ConnOf[r]}]
      BY <2>2 DEF CreateFails
    <3>3. stuck' \in [Workers -> SUBSET Conns]
      BY <3>1, <3>2
    <3> QED
      BY <2>2, <3>3 DEF CreateFails, Done
  <2>3. CASE Answer(r)
    BY <2>3 DEF Answer, Release
  <2>4. CASE RemoveLine(r)
    BY <2>4 DEF RemoveLine, Done
  <2>5. CASE KeyAnswer(r)
    BY <2>5 DEF KeyAnswer, Release, Done
  <2> QED
    BY <1>2, <2>1, <2>2, <2>3, <2>4, <2>5 DEF Serve
<1>3. ASSUME NEW ls, Forget(ls) PROVE TypeOK'
  BY <1>3 DEF Forget
<1>4. ASSUME NEW w \in Workers, Crash(w) PROVE TypeOK'
  BY <1>4 DEF Crash
<1> QED
  BY <1>1, <1>2, <1>3, <1>4 DEF Next, KillLine, KillUser, Prune

(* A worker stays inside one handler at a time, and a row stays with the   *)
(* handler that has inserted it.                                           *)
LEMMA ControlKept ==
  ASSUME IInv, Next
  PROVE  OneHandler' /\ RowInHand'
<1> USE LiveOrKey, NoneIsNothing
        DEF IInv, TypeOK, slots, Pcs, OneHandler, RowInHand, Handled, InFlight
<1>1. ASSUME NEW r \in Requests, NEW w \in Workers, Admit(r, w) \/ Glance(r, w)
      PROVE  OneHandler' /\ RowInHand'
  BY <1>1 DEF Admit, Glance, Enters, Occupied
<1>2. ASSUME NEW r \in Requests, Serve(r) PROVE OneHandler' /\ RowInHand'
  <2>1. CASE CreateLine(r)
    BY <2>1 DEF CreateLine
  <2>2. CASE CreateFails(r) \/ RemoveLine(r) \/ KeyAnswer(r)
    BY <2>2 DEF CreateFails, RemoveLine, KeyAnswer, Release, Done
  <2>3. CASE Answer(r)
    BY <2>3 DEF Answer, Release
  <2> QED
    BY <1>2, <2>1, <2>2, <2>3 DEF Serve
<1>3. ASSUME NEW ls, Forget(ls) PROVE OneHandler' /\ RowInHand'
  BY <1>3 DEF Forget
<1>4. ASSUME NEW w \in Workers, Crash(w) PROVE OneHandler' /\ RowInHand'
  BY <1>4 DEF Crash
<1> QED
  BY <1>1, <1>2, <1>3, <1>4 DEF Next, KillLine, KillUser, Prune

(* A slot leaves the limiter no later than the last request of its id.     *)
LEMMA SlotsKept ==
  ASSUME IInv, Next
  PROVE  SlotsAreServed' /\ LeftWithoutSlot'
<1> USE NoneIsNothing
        DEF IInv, TypeOK, slots, Pcs, OneHandler, Handled, InFlight, Served, SlotsAreServed,
            LeftWithoutSlot
<1>1. ASSUME NEW r \in Requests, NEW w \in Workers, Admit(r, w)
      PROVE  SlotsAreServed' /\ LeftWithoutSlot'
  BY <1>1 DEF Admit, Enters, Occupied
<1>2. ASSUME NEW r \in Requests, NEW w \in Workers, Glance(r, w)
      PROVE  SlotsAreServed' /\ LeftWithoutSlot'
  BY <1>2 DEF Glance
<1>3. ASSUME NEW r \in Requests, Serve(r) PROVE SlotsAreServed' /\ LeftWithoutSlot'
  <2>1. CASE CreateLine(r)
    BY <2>1 DEF CreateLine
  <2>2. CASE CreateFails(r)
    BY <2>2 DEF CreateFails, Done
  <2>3. CASE Answer(r)
    BY <2>3 DEF Answer, Release
  <2>4. CASE RemoveLine(r)
    BY <2>4 DEF RemoveLine, Done
  <2>5. CASE KeyAnswer(r)
    BY <2>5 DEF KeyAnswer, Release, Done
  <2> QED
    BY <1>3, <2>1, <2>2, <2>3, <2>4, <2>5 DEF Serve
<1>4. ASSUME NEW ls, Forget(ls) PROVE SlotsAreServed' /\ LeftWithoutSlot'
  BY <1>4 DEF Forget
<1>5. ASSUME NEW w \in Workers, Crash(w) PROVE SlotsAreServed' /\ LeftWithoutSlot'
  BY <1>5 DEF Crash
<1> QED
  BY <1>1, <1>2, <1>3, <1>4, <1>5 DEF Next, KillLine, KillUser, Prune

(* A line loses its request only to a crash. *)
LEMMA LinesKept ==
  ASSUME IInv, Next
  PROVE  LinesAreServed'
<1> USE NoneIsNothing DEF IInv, TypeOK, Pcs, RowInHand, LinesAreServed
<1>1. ASSUME NEW r \in Requests, NEW w \in Workers, Admit(r, w) \/ Glance(r, w)
      PROVE  LinesAreServed'
  BY <1>1 DEF Admit, Glance, Enters
<1>2. ASSUME NEW r \in Requests, Serve(r) PROVE LinesAreServed'
  <2>1. CASE CreateLine(r)
    BY <2>1 DEF CreateLine
  <2>2. CASE CreateFails(r) \/ KeyAnswer(r)
    BY <2>2 DEF CreateFails, KeyAnswer, Done
  <2>3. CASE Answer(r)
    BY <2>3 DEF Answer
  <2>4. CASE RemoveLine(r)
    BY <2>4 DEF RemoveLine, Done
  <2> QED
    BY <1>2, <2>1, <2>2, <2>3, <2>4 DEF Serve
<1>3. ASSUME NEW ls, Forget(ls) PROVE LinesAreServed'
  BY <1>3 DEF Forget
<1>4. ASSUME NEW w \in Workers, Crash(w) PROVE LinesAreServed'
  BY <1>4 DEF Crash
<1> QED
  BY <1>1, <1>2, <1>3, <1>4 DEF Next, KillLine, KillUser, Prune

(* The rows of a user and the workers about to add one can be counted. *)
LEMMA Counts ==
  ASSUME NEW u \in Users
  PROVE  /\ IsFiniteSet(LinesOf(u)) /\ Cardinality(LinesOf(u)) \in Nat
         /\ IsFiniteSet(Inserting(u)) /\ Cardinality(Inserting(u)) \in Nat
         /\ Cardinality(Inserting(u)) <= Cardinality(Workers)
         /\ Cardinality(Workers) \in Nat /\ Max[u] \in Nat
<1>1. LinesOf(u) \in SUBSET Rows /\ Inserting(u) \in SUBSET Workers
  BY DEF LinesOf, Inserting
<1>2. IsFiniteSet(Rows) /\ IsFiniteSet(Workers)
  BY FiniteBounds
<1>3. IsFiniteSet(LinesOf(u))
  BY <1>1, <1>2, FS_Subset
<1>4. IsFiniteSet(Inserting(u)) /\ Cardinality(Inserting(u)) <= Cardinality(Workers)
  BY <1>1, <1>2, FS_Subset
<1> QED
  BY <1>2, <1>3, <1>4, MaxType, FS_CardinalityType

(* With no more rows and no more workers about to add one, a user is still *)
(* within the bound.                                                       *)
LEMMA FewerPlaces ==
  ASSUME PlacesTaken, NEW u \in Users, Max[u] > 0,
         LinesOf(u)' \in SUBSET LinesOf(u), Inserting(u)' \in SUBSET Inserting(u)
  PROVE  Cardinality(LinesOf(u)') + Cardinality(Inserting(u)')
           <= Max[u] - 1 + Cardinality(Workers)
<1> DEFINE L == LinesOf(u)'
           I == Inserting(u)'
<1>1. IsFiniteSet(L) /\ Cardinality(L) <= Cardinality(LinesOf(u))
  BY Counts, FS_Subset
<1>2. IsFiniteSet(I) /\ Cardinality(I) <= Cardinality(Inserting(u))
  BY Counts, FS_Subset
<1>3. Cardinality(L) \in Nat /\ Cardinality(I) \in Nat
  BY <1>1, <1>2, FS_CardinalityType
<1>4. Cardinality(LinesOf(u)) + Cardinality(Inserting(u)) <= Max[u] - 1 + Cardinality(Workers)
  BY DEF PlacesTaken
<1> HIDE DEF L, I
<1>5. Cardinality(L) + Cardinality(I) <= Max[u] - 1 + Cardinality(Workers)
  BY <1>1, <1>2, <1>3, <1>4, Counts
<1> QED
  BY <1>5 DEF L, I

(* No step takes a user past the bound.  An admission saw a free place, so *)
(* at worst every worker is about to fill it; an insertion trades a worker *)
(* that was about to for a row.                                            *)
LEMMA PlacesKept ==
  ASSUME IInv, Next
  PROVE  PlacesTaken'
<1> SUFFICES ASSUME NEW u \in Users, Max[u] > 0
             PROVE  Cardinality(LinesOf(u)') + Cardinality(Inserting(u)')
                      <= Max[u] - 1 + Cardinality(Workers)
  BY DEF PlacesTaken
<1> USE RequestsHaveUsers, NoneIsNothing, FiniteBounds
        DEF IInv, TypeOK, Pcs, OneHandler, Handled, InFlight
<1>1. ASSUME LinesOf(u)' \in SUBSET LinesOf(u), Inserting(u)' \in SUBSET Inserting(u)
      PROVE  Cardinality(LinesOf(u)') + Cardinality(Inserting(u)')
               <= Max[u] - 1 + Cardinality(Workers)
  BY <1>1, FewerPlaces
<1>2. ASSUME NEW r \in Requests, NEW w \in Workers, Admit(r, w)
      PROVE  Cardinality(LinesOf(u)') + Cardinality(Inserting(u)')
               <= Max[u] - 1 + Cardinality(Workers)
  <2>1. LinesOf(u)' = LinesOf(u)
    BY <1>2 DEF Admit, Enters, LinesOf
  <2>2. CASE u = UserOf[r]
    <3>1. Cardinality(LinesOf(u)) < Max[u]
      BY <1>2, <2>2 DEF Admit, Admissible
    <3>2. Inserting(u)' \in SUBSET Workers
      BY DEF Inserting
    <3> DEFINE I == Inserting(u)'
    <3>3. IsFiniteSet(I) /\ Cardinality(I) <= Cardinality(Workers)
      BY <3>2, FS_Subset
    <3>4. Cardinality(I) \in Nat
      BY <3>3, FS_CardinalityType
    <3> HIDE DEF I
    <3>5. Cardinality(LinesOf(u)) + Cardinality(I) <= Max[u] - 1 + Cardinality(Workers)
      BY <3>1, <3>3, <3>4, Counts
    <3> QED
      BY <2>1, <3>5 DEF I
  <2>3. CASE u # UserOf[r]
    <3>1. Inserting(u)' \in SUBSET Inserting(u)
      BY <1>2, <2>3 DEF Admit, Enters, Inserting
    <3> QED
      BY <1>1, <2>1, <3>1
  <2> QED
    BY <2>2, <2>3
<1>3. ASSUME NEW r \in Requests, CreateLine(r)
      PROVE  Cardinality(LinesOf(u)') + Cardinality(Inserting(u)')
               <= Max[u] - 1 + Cardinality(Workers)
  <2>1. PICK l \in Rows : line[l] = None /\ line' = [line EXCEPT ![l] = UserOf[r]]
    BY <1>3 DEF CreateLine
  <2>2. pc[r] = "admitted" /\ pc' = [pc EXCEPT ![r] = "lined"] /\ UNCHANGED at
    BY <1>3 DEF CreateLine
  <2>3. CASE u = UserOf[r]
    <3>1. LinesOf(u)' = LinesOf(u) \cup {l} /\ l \notin LinesOf(u)
      BY <2>1, <2>3 DEF LinesOf
    <3>2. Inserting(u)' = Inserting(u) \ {at[r]} /\ at[r] \in Inserting(u)
      BY <2>2, <2>3 DEF Inserting
    <3>3. Cardinality(LinesOf(u) \cup {l}) = Cardinality(LinesOf(u)) + 1
      BY <3>1, Counts, FS_AddElement
    <3>4. Cardinality(Inserting(u) \ {at[r]}) = Cardinality(Inserting(u)) - 1
      <4>1. \A w : w \in Inserting(u) =>
              Cardinality(Inserting(u) \ {w}) = Cardinality(Inserting(u)) - 1
        BY Counts, FS_RemoveElement
      <4> QED
        BY <3>2, <4>1
    <3>5. Cardinality(LinesOf(u)) + Cardinality(Inserting(u))
            <= Max[u] - 1 + Cardinality(Workers)
      BY DEF PlacesTaken
    <3> QED
      BY <3>1, <3>2, <3>3, <3>4, <3>5, Counts
  <2>4. CASE u # UserOf[r]
    <3>1. LinesOf(u)' \in SUBSET LinesOf(u) /\ Inserting(u)' \in SUBSET Inserting(u)
      BY <2>1, <2>2, <2>4 DEF LinesOf, Inserting
    <3> QED
      BY <1>1, <3>1
  <2> QED
    BY <2>3, <2>4
<1>4. ASSUME NEW r \in Requests, Serve(r), ~CreateLine(r)
      PROVE  LinesOf(u)' \in SUBSET LinesOf(u) /\ Inserting(u)' \in SUBSET Inserting(u)
  BY <1>4 DEF Serve, CreateFails, Answer, RemoveLine, KeyAnswer, Done, LinesOf, Inserting
<1>7. ASSUME NEW r \in Requests, NEW w \in Workers, Glance(r, w)
      PROVE  LinesOf(u)' \in SUBSET LinesOf(u) /\ Inserting(u)' \in SUBSET Inserting(u)
  BY <1>7 DEF Glance, LinesOf, Inserting
<1>5. ASSUME NEW ls, Forget(ls)
      PROVE  LinesOf(u)' \in SUBSET LinesOf(u) /\ Inserting(u)' \in SUBSET Inserting(u)
  BY <1>5 DEF Forget, LinesOf, Inserting
<1>6. ASSUME NEW w \in Workers, Crash(w)
      PROVE  LinesOf(u)' \in SUBSET LinesOf(u) /\ Inserting(u)' \in SUBSET Inserting(u)
  BY <1>6 DEF Crash, LinesOf, Inserting
<1> QED
  BY <1>1, <1>2, <1>3, <1>4, <1>5, <1>6, <1>7 DEF Next, KillLine, KillUser, Prune

(* The inductive invariant holds in every state. *)
THEOREM Invariance == Spec => []IInv
<1>1. Init => IInv
  BY InitHolds
<1>2. IInv /\ [Next]_vars => IInv'
  <2>1. IInv /\ UNCHANGED vars => IInv'
    <3> SUFFICES ASSUME IInv, UNCHANGED vars PROVE IInv'
      OBVIOUS
    <3>1. TypeOK' /\ OneHandler' /\ RowInHand' /\ LeftWithoutSlot'
      BY DEF IInv, TypeOK, OneHandler, RowInHand, LeftWithoutSlot, Handled, InFlight, vars, slots
    <3>2. SlotsAreServed' /\ LinesAreServed'
      BY DEF IInv, SlotsAreServed, LinesAreServed, Served, InFlight, vars, slots
    <3>3. PlacesTaken'
      BY DEF IInv, PlacesTaken, LinesOf, Inserting, vars
    <3> QED
      BY <3>1, <3>2, <3>3 DEF IInv
  <2>2. IInv /\ Next => IInv'
    BY TypeKept, ControlKept, SlotsKept, LinesKept, PlacesKept DEF IInv
  <2> QED
    BY <2>1, <2>2
<1> QED
  BY <1>1, <1>2, PTL DEF Spec

(* Together the workers exceed the limit of a user by no more than one     *)
(* line for each worker but one, however many workers, requests and rows   *)
(* there are, and whatever crashes, is killed or is pruned in between.     *)
THEOREM LimitHolds == Spec => []OvershootIsBounded
<1>1. IInv => OvershootIsBounded
  <2> SUFFICES ASSUME IInv, NEW u \in Users, Max[u] > 0
               PROVE  Cardinality(LinesOf(u)) <= Max[u] - 1 + Cardinality(Workers)
    BY DEF OvershootIsBounded
  <2>1. Cardinality(LinesOf(u)) + Cardinality(Inserting(u))
          <= Max[u] - 1 + Cardinality(Workers)
    BY DEF IInv, PlacesTaken
  <2> QED
    BY <2>1, Counts
<1> QED
  BY <1>1, Invariance, PTL

(* The variables of the connection limit have their types. *)
THEOREM TypeCorrect == Spec => []TypeOK
<1>1. IInv => TypeOK
  BY DEF IInv
<1> QED
  BY <1>1, Invariance, PTL

(* No slot of a worker outlives the requests it stands for, except one     *)
(* that a failed insertion has left.                                       *)
THEOREM NoSlotLeaks == Spec => []SlotsAreServed
<1>1. IInv => SlotsAreServed
  BY DEF IInv
<1> QED
  BY <1>1, Invariance, PTL

(* Only the death of a worker leaves a line without a request.             *)
THEOREM NoLineLeaks == Spec => []LinesAreServed
<1>1. IInv => LinesAreServed
  BY DEF IInv
<1> QED
  BY <1>1, Invariance, PTL

-----------------------------------------------------------------------------
(* The guard of the passwords and the block list                           *)

(* The counter of an address nobody has failed from. *)
LEMMA NoAttempts == 0 \in 0..MaxAttempts
  BY MaxIsPositive

(* The invariant of the guard holds at the start. *)
LEMMA GuardInitHolds == GuardInit => GuardIInv
<1> SUFFICES ASSUME GuardInit PROVE GuardIInv
  OBVIOUS
<1> USE DEF GuardInit
<1>1. attempts \in [Ips -> 0..MaxAttempts] /\ seen \in [Threads -> 0..MaxAttempts]
  BY NoAttempts
<1>2. GuardTypeOK
  BY <1>1, LimitsType DEF GuardTypeOK
<1>3. HasAddress /\ OneEdit
  BY DEF HasAddress, OneEdit
<1> QED
  BY <1>2, <1>3 DEF GuardIInv

(* What is said of the threads alone. *)
ThreadsOK ==
    /\ stage \in [Threads -> {"idle", "guard", "verify", "count", "store"}]
    /\ ip \in [Threads -> Ips \cup {Nothing}]
    /\ seen \in [Threads -> 0..MaxAttempts]
    /\ HasAddress

(* The end of a request forgets its address. *)
LEMMA FinishKeeps ==
  ASSUME GuardTypeOK, HasAddress, NEW t \in Threads, Finish(t)
  PROVE  ThreadsOK'
<1>1. /\ stage' = [stage EXCEPT ![t] = "idle"]
      /\ ip' = [ip EXCEPT ![t] = Nothing]
      /\ seen' = [seen EXCEPT ![t] = 0]
  BY DEF Finish, Goto
<1>2. stage' \in [Threads -> {"idle", "guard", "verify", "count", "store"}]
  BY <1>1 DEF GuardTypeOK
<1>3. ip' \in [Threads -> Ips \cup {Nothing}]
  BY <1>1 DEF GuardTypeOK
<1>4. seen' \in [Threads -> 0..MaxAttempts]
  BY <1>1, NoAttempts DEF GuardTypeOK
<1>5. HasAddress'
  BY <1>1 DEF GuardTypeOK, HasAddress
<1> QED
  BY <1>2, <1>3, <1>4, <1>5 DEF ThreadsOK

(* A step of a request leaves the settings and their changes alone. *)
LEMMA ListAside ==
  ASSUME GuardIInv, ThreadsOK', UNCHANGED settings,
         attempts' \in [Ips -> 0..MaxAttempts], wrong' \in [Ips -> Nat]
  PROVE  GuardIInv'
<1>1. GuardTypeOK'
  BY DEF GuardIInv, GuardTypeOK, ThreadsOK, settings
<1>2. OneEdit'
  BY DEF GuardIInv, OneEdit, settings
<1> QED
  BY <1>1, <1>2 DEF GuardIInv, ThreadsOK

(* Every step of a request keeps the invariant. *)
LEMMA LoginKeeps ==
  ASSUME GuardIInv, NEW t \in Threads, Step(t)
  PROVE  GuardIInv'
<1>0. GuardTypeOK /\ HasAddress
  BY DEF GuardIInv
<1>1. ASSUME CheckList(t) \/ CheckGuard(t) \/ VerifyFails(t) \/ VerifyRaises(t) \/ Count(t)
      PROVE  GuardIInv'
  <2>1. UNCHANGED <<attempts, wrong, settings>>
    BY <1>1 DEF CheckList, CheckGuard, VerifyFails, VerifyRaises, Count
  <2>2. CASE Finish(t)
    BY <1>0, <2>1, <2>2, FinishKeeps, ListAside DEF GuardTypeOK
  <2>3. CASE ~Finish(t)
    <3>1. /\ stage' \in [Threads -> {"idle", "guard", "verify", "count", "store"}]
          /\ HasAddress'
      BY <1>0, <1>1, <2>3
         DEF CheckList, CheckGuard, VerifyFails, VerifyRaises, Count, Goto, At, GuardTypeOK,
             HasAddress
    <3>2. ip' \in [Threads -> Ips \cup {Nothing}]
      BY <1>0, <1>1, <2>3
         DEF CheckList, CheckGuard, VerifyFails, VerifyRaises, Count, GuardTypeOK
    <3>3. seen' \in [Threads -> 0..MaxAttempts]
      <4>1. CASE Count(t)
        BY <1>0, <4>1 DEF Count, At, GuardTypeOK, HasAddress
      <4>2. CASE ~Count(t)
        BY <1>0, <1>1, <2>3, <4>2
           DEF CheckList, CheckGuard, VerifyFails, VerifyRaises, GuardTypeOK
      <4> QED
        BY <4>1, <4>2
    <3> QED
      BY <1>0, <2>1, <3>1, <3>2, <3>3, ListAside DEF ThreadsOK, GuardTypeOK
  <2> QED
    BY <2>2, <2>3
<1>2. ASSUME VerifySucceeds(t) PROVE GuardIInv'
  <2>1. /\ attempts' = [attempts EXCEPT ![ip[t]] = 0]
        /\ wrong' = [wrong EXCEPT ![ip[t]] = 0]
        /\ UNCHANGED settings
    BY <1>2 DEF VerifySucceeds
  <2>2. ThreadsOK'
    BY <1>0, <1>2, FinishKeeps DEF VerifySucceeds
  <2>3. attempts' \in [Ips -> 0..MaxAttempts]
    BY <1>0, <2>1, NoAttempts DEF GuardTypeOK
  <2>4. wrong' \in [Ips -> Nat]
    BY <1>0, <2>1 DEF GuardTypeOK
  <2> QED
    BY <2>1, <2>2, <2>3, <2>4, ListAside
<1>3. ASSUME Store(t) PROVE GuardIInv'
  <2> DEFINE n == IF seen[t] < MaxAttempts THEN seen[t] + 1 ELSE MaxAttempts
  <2>1. n \in 0..MaxAttempts
    BY <1>0, MaxIsPositive DEF GuardTypeOK
  <2>2. /\ attempts' = [attempts EXCEPT ![ip[t]] = n]
        /\ wrong' = [wrong EXCEPT ![ip[t]] = wrong[ip[t]] + 1]
        /\ UNCHANGED settings
    BY <1>3 DEF Store
  <2> HIDE DEF n
  <2>3. ThreadsOK'
    BY <1>0, <1>3, FinishKeeps DEF Store
  <2>4. attempts' \in [Ips -> 0..MaxAttempts]
    BY <1>0, <2>1, <2>2 DEF GuardTypeOK
  <2>5. wrong' \in [Ips -> Nat]
    <3>1. wrong[ip[t]] + 1 \in Nat
      BY <1>0, <1>3 DEF Store, At, GuardTypeOK, HasAddress
    <3> QED
      BY <1>0, <2>2, <3>1 DEF GuardTypeOK
  <2> QED
    BY <2>2, <2>3, <2>4, <2>5, ListAside
<1> QED
  BY <1>1, <1>2, <1>3 DEF Step

(* A request of an administrator that has read the list. *)
LEMMA EditKeeps ==
  ASSUME GuardIInv, NEW a \in Admins, BlockIp(a) \/ UnblockIp(a)
  PROVE  GuardIInv'
<1>1. PICK i \in Ips : \/ Read(a, ListOf(blocked) \cup {i})
                       \/ Read(a, ListOf(blocked) \ {i})
  BY DEF BlockIp, UnblockIp
<1>2. PICK l \in Lists : /\ Read(a, l)
                         /\ l = ListOf(blocked) \cup {i} \/ l = ListOf(blocked) \ {i}
  BY <1>1 DEF GuardIInv, GuardTypeOK, ListOf, Lists
<1>3. change' = [change EXCEPT ![a] = [read |-> blocked, list |-> l]]
      /\ UNCHANGED <<requests, limit, blocked>>
  BY <1>2 DEF Read
<1>4. GuardTypeOK'
  BY <1>3 DEF GuardIInv, GuardTypeOK, requests
<1>5. HasAddress'
  BY <1>3 DEF GuardIInv, HasAddress, requests
<1>6. OneEdit'
  <2> SUFFICES ASSUME NEW b \in Admins, change'[b] # Nothing
               PROVE  \E j \in Ips : \/ change'[b].list = ListOf(change'[b].read) \cup {j}
                                     \/ change'[b].list = ListOf(change'[b].read) \ {j}
    BY DEF OneEdit
  <2>1. CASE b = a
    BY <1>2, <1>3, <2>1 DEF GuardIInv, GuardTypeOK
  <2>2. CASE b # a
    BY <1>3, <2>2 DEF GuardIInv, GuardTypeOK, OneEdit
  <2> QED
    BY <2>1, <2>2
<1> QED
  BY <1>4, <1>5, <1>6 DEF GuardIInv

(* The write of an administrator's request. *)
LEMMA SetKeeps ==
  ASSUME GuardIInv, NEW a \in Admins, Set(a)
  PROVE  GuardIInv'
<1>1. change[a].list \in Lists
  BY DEF Set, GuardIInv, GuardTypeOK
<1>2. /\ change' = [change EXCEPT ![a] = Nothing]
      /\ blocked' \in {blocked, change[a].list}
      /\ UNCHANGED <<requests, limit>>
  BY DEF Set
<1>3. GuardTypeOK'
  BY <1>1, <1>2 DEF GuardIInv, GuardTypeOK, requests
<1>4. HasAddress' /\ OneEdit'
  BY <1>2 DEF GuardIInv, GuardTypeOK, HasAddress, OneEdit, requests
<1> QED
  BY <1>3, <1>4 DEF GuardIInv

(* The settings page writes the rows, and does nothing to the changes in   *)
(* progress but to end those whose row it deletes.                         *)
LEMMA PageOfGuardKeeps ==
  ASSUME GuardIInv, SettingsPage
  PROVE  GuardIInv'
<1>1. UNCHANGED requests
  BY DEF SettingsPage, SetLimit, WriteList, DeleteSetting
<1>2. limit' \in Limits /\ blocked' \in Lists \cup {Nothing}
  BY DEF SettingsPage, SetLimit, WriteList, DeleteSetting, GuardIInv, GuardTypeOK
<1>3. /\ change' \in [Admins -> [read : Lists \cup {Nothing}, list : Lists] \cup {Nothing}]
      /\ \A a \in Admins : change'[a] # Nothing => change'[a] = change[a]
  BY DEF SettingsPage, SetLimit, WriteList, DeleteSetting, GuardIInv, GuardTypeOK
<1>4. GuardTypeOK'
  BY <1>1, <1>2, <1>3 DEF GuardIInv, GuardTypeOK, requests
<1>5. HasAddress' /\ OneEdit'
  BY <1>1, <1>3 DEF GuardIInv, HasAddress, OneEdit, requests
<1> QED
  BY <1>4, <1>5 DEF GuardIInv

(* The inductive invariant of the guard holds in every state. *)
THEOREM GuardInvariance == GuardSpec => []GuardIInv
<1>1. GuardIInv /\ [GuardNext]_guardVars => GuardIInv'
  <2>1. GuardIInv /\ UNCHANGED guardVars => GuardIInv'
    BY DEF GuardIInv, GuardTypeOK, HasAddress, OneEdit, guardVars
  <2> QED
    BY <2>1, LoginKeeps, EditKeeps, SetKeeps, PageOfGuardKeeps DEF GuardNext
<1> QED
  BY <1>1, GuardInitHolds, PTL DEF GuardSpec

(* The variables of the login guard have their types. *)
THEOREM GuardTypeCorrect == GuardSpec => []GuardTypeOK
<1>1. GuardIInv => GuardTypeOK
  BY DEF GuardIInv
<1> QED
  BY <1>1, GuardInvariance, PTL

(* A locked address stays locked: a thread past its check would be needed  *)
(* to reset the counter, and the check lets none past.                     *)
LEMMA LockHolds ==
  ASSUME GuardIInv, NEW i \in Ips, Settled(i), NEW t \in Threads, Step(t)
  PROVE  Settled(i)' /\ attempts'[i] = attempts[i]
<1> USE DEF GuardIInv, GuardTypeOK, HasAddress, At, Goto, Finish
<1>0. /\ attempts[i] >= limit /\ limit' = limit
      /\ \A s \in Threads : ip[s] = i => stage[s] \in {"idle", "guard"}
  BY DEF Settled, IsBlocked, Step, CheckList, CheckGuard, VerifyFails, VerifyRaises,
         VerifySucceeds, Count, Store, settings
<1>1. ASSUME UNCHANGED attempts,
             \A s \in Threads : ip'[s] = i => stage'[s] \in {"idle", "guard"}
      PROVE  Settled(i)' /\ attempts'[i] = attempts[i]
  BY <1>0, <1>1 DEF Settled, IsBlocked
<1>2. CASE CheckList(t)
  BY <1>0, <1>1, <1>2 DEF CheckList
<1>3. CASE CheckGuard(t)
  <2>1. ip[t] = i => Finish(t)
    BY <1>0, <1>3 DEF CheckGuard, IsBlocked
  <2>2. \A s \in Threads \ {t} : ip'[s] = ip[s] /\ stage'[s] = stage[s]
    BY <1>3 DEF CheckGuard
  <2>3. ip'[t] = i => stage'[t] \in {"idle", "guard"}
    BY <1>3, <2>1 DEF CheckGuard
  <2> QED
    BY <1>0, <1>1, <1>3, <2>2, <2>3 DEF CheckGuard
<1>4. CASE VerifyFails(t)
  BY <1>0, <1>1, <1>4 DEF VerifyFails
<1>5. CASE VerifyRaises(t)
  BY <1>0, <1>1, <1>5 DEF VerifyRaises
<1>6. CASE VerifySucceeds(t) \/ Count(t) \/ Store(t)
  <2>1. ip[t] # i
    BY <1>0, <1>6 DEF VerifySucceeds, Count, Store
  <2>2. attempts'[i] = attempts[i]
    BY <1>6, <2>1 DEF VerifySucceeds, Count, Store
  <2>3. \A s \in Threads : ip'[s] = i => stage'[s] \in {"idle", "guard"}
    BY <1>0, <1>6, <2>1 DEF VerifySucceeds, Count, Store
  <2> QED
    BY <1>0, <2>2, <2>3 DEF Settled, IsBlocked
<1> QED
  BY <1>2, <1>3, <1>4, <1>5, <1>6 DEF Step

(* Nothing unlocks a locked address but a higher limit. *)
THEOREM LocksLast == GuardSpec => LocksHold
<1> DEFINE Holds(i) == attempts'[i] = attempts[i] /\ (Settled(i)' \/ limit' > limit)
<1>1. ASSUME GuardIInv, [GuardNext]_guardVars, NEW i \in Ips, Settled(i) PROVE Holds(i)
  <2>1. CASE UNCHANGED requests
    <3>1. attempts'[i] = attempts[i] /\ attempts[i] \in Nat /\ limit \in Nat
      BY <1>1, <2>1, LimitsType, MaxIsPositive DEF requests, GuardIInv, GuardTypeOK
    <3>2. limit' \in Nat
      BY <1>1, <3>1, LimitsType, MaxIsPositive
         DEF GuardNext, guardVars, BlockIp, UnblockIp, Read, Set, SettingsPage, SetLimit,
             WriteList, DeleteSetting, Step, CheckList, CheckGuard, VerifyFails, VerifyRaises,
             VerifySucceeds, Count, Store, settings
    <3>3. CASE limit' <= limit
      BY <1>1, <2>1, <3>1, <3>2, <3>3 DEF requests, Settled, IsBlocked
    <3>4. CASE limit' > limit
      BY <3>1, <3>4
    <3> QED
      BY <3>1, <3>2, <3>3, <3>4
  <2>2. UNCHANGED requests \/ \E t \in Threads : Step(t)
    BY <1>1 DEF GuardNext, guardVars, requests, BlockIp, UnblockIp, Read, Set, SettingsPage,
       SetLimit, WriteList, DeleteSetting
  <2> QED
    BY <1>1, <2>1, <2>2, LockHolds
<1>2. GuardIInv /\ [GuardNext]_guardVars =>
        [\A i \in Ips : Settled(i) =>
            /\ attempts'[i] = attempts[i]
            /\ Settled(i)' \/ limit' > limit]_guardVars
  BY <1>1
<1> QED
  BY <1>2, GuardInvariance, PTL DEF GuardSpec, LocksHold

(* A write that was not overtaken removes only the address it names. *)
LEMMA SetRemovesOne ==
  ASSUME GuardIInv, NEW a \in Admins, Set(a),
         NEW i \in ListOf(blocked), i \notin ListOf(blocked'),
         change[a].read = blocked
  PROVE  change[a].list = ListOf(blocked) \ {i}
<1>1. blocked' = change[a].list
  BY DEF Set
<1>2. i \notin change[a].list
  <2>1. change[a].list \in SUBSET Ips
    BY DEF Set, GuardIInv, GuardTypeOK, Lists
  <2> QED
    BY <1>1, <2>1, NothingIsNoList DEF ListOf
<1>3. change[a] # Nothing
  BY DEF Set
<1> QED
  BY <1>2, <1>3 DEF GuardIInv, OneEdit

(* An address leaves the list only by its unblock, the settings page, or   *)
(* an overtaken request.                                                   *)
THEOREM ListedAddressesStay == GuardSpec => StaysListed
<1> DEFINE Allowed(i) ==
        \/ SettingsPage
        \/ \E a \in Admins : /\ change[a] # Nothing /\ change'[a] = Nothing
                             /\ \/ change[a].read # blocked
                                \/ change[a].list = ListOf(blocked) \ {i}
<1>1. ASSUME GuardIInv, GuardNext, NEW i \in ListOf(blocked), i \notin ListOf(blocked')
      PROVE  Allowed(i)
  <2>1. blocked' # blocked
    BY <1>1
  <2>2. SettingsPage \/ \E a \in Admins : Set(a)
    BY <1>1, <2>1 DEF GuardNext, Step, CheckList, CheckGuard, VerifyFails, VerifyRaises,
       VerifySucceeds, Count, Store, settings, BlockIp, UnblockIp, Read
  <2>3. CASE SettingsPage
    BY <2>3
  <2>4. ASSUME NEW a \in Admins, Set(a) PROVE Allowed(i)
    <3>1. change[a] # Nothing /\ change'[a] = Nothing
      BY <1>1, <2>4 DEF Set, GuardIInv, GuardTypeOK
    <3> QED
      BY <1>1, <2>4, <3>1, SetRemovesOne
  <2> QED
    BY <2>2, <2>3, <2>4
<1>2. GuardIInv /\ [GuardNext]_guardVars =>
        [\A i \in ListOf(blocked) : i \notin ListOf(blocked') => Allowed(i)]_guardVars
  BY <1>1
<1> QED
  BY <1>2, GuardInvariance, PTL DEF GuardSpec, StaysListed

-----------------------------------------------------------------------------
(* Induction, in the form that the provers can use                         *)

Less == {p \in Nat \X Nat : p[1] < p[2]}

(* A set of naturals has a least element, unless it is empty. *)
LEMMA LeastElement ==
  ASSUME NEW T, T \subseteq Nat, T # {}
  PROVE  \E x \in T : \A y \in T : x <= y
<1>1. IsWellFoundedOn(Less, Nat)
  <2>1. Less = OpToRel(<, Nat)
    BY Zenon DEF OpToRel, Less
  <2> QED
    BY <2>1, NatLessThanWellFounded
<1>2. PICK x \in T : \A y \in T : <<y, x>> \notin Less
  BY <1>1, WFMin
<1>3. ASSUME NEW y \in T PROVE x <= y
  <2>1. x \in Nat /\ y \in Nat /\ <<y, x>> \notin Less
    BY <1>2
  <2>2. ~(y < x)
    BY <2>1 DEF Less
  <2> QED
    BY <2>1, <2>2
<1> QED
  BY <1>3

(* The induction theorem, about a set instead of a predicate. *)
LEMMA Induction ==
  ASSUME NEW S, 0 \in S, \A n \in Nat : n \in S => n + 1 \in S
  PROVE  \A n \in Nat : n \in S
<1> DEFINE T == Nat \ S
<1>1. CASE T = {}
  BY <1>1
<1>2. CASE T # {}
  <2>1. PICK x \in T : \A y \in T : x <= y
    <3> T \subseteq Nat
      OBVIOUS
    <3> HIDE DEF T
    <3> QED
      BY <1>2, LeastElement
  <2>2. x \in Nat /\ x # 0
    OBVIOUS
  <2>3. x - 1 \in Nat /\ (x - 1) + 1 = x /\ ~(x <= x - 1)
    BY <2>2
  <2> QED
    BY <2>1, <2>3
<1> QED
  BY <1>1, <1>2

(* Among the first n numbers every set has a greatest, unless it is empty. *)
LEMMA GreatestElement ==
  ASSUME NEW n \in Nat, NEW T, T \subseteq 1..n, T # {}
  PROVE  \E q \in T : \A j \in T : j <= q
<1> DEFINE U == {n - j : j \in T}
<1>1. U \subseteq Nat /\ U # {}
  <2>1. \A j \in T : j \in 1..n /\ n - j \in Nat
    OBVIOUS
  <2> QED
    BY <2>1
<1>2. PICK x \in U : \A y \in U : x <= y
  <2> HIDE DEF U
  <2> QED
    BY <1>1, LeastElement
<1>3. PICK q \in T : x = n - q
  OBVIOUS
<1>4. \A j \in T : n - q <= n - j /\ j \in Nat /\ q \in Nat
  BY <1>2, <1>3
<1> QED
  BY <1>4

-----------------------------------------------------------------------------
(* The function Failures *)

PoolSize == Cardinality(Threads)

(* The number of threads is a natural number. *)
LEMMA ThreadCount == PoolSize \in Nat
  BY ThreadsAreFinite, FS_CardinalityType DEF PoolSize

(* The equation of Failures. *)
Recorded(f, n, left) == IF n = 0 \/ left = 0 THEN 0 ELSE f[<<n - 1, left>>] + 1 + f[<<n, left - 1>>]

(* It has a solution. *)
LEMMA FailuresExist ==
  \E f : f = [p \in (0..PoolSize) \X (0..MaxAttempts) |-> Recorded(f, p[1], p[2])]
<1> DEFINE Dom == (0..PoolSize) \X (0..MaxAttempts)
           Upto(f, k) == \A n \in 0..PoolSize, left \in 0..MaxAttempts :
                            n + left <= k => f[<<n, left>>] = Recorded(f, n, left)
           S == {k \in Nat : \E f \in [Dom -> Nat] : Upto(f, k)}
<1> PoolSize \in Nat /\ MaxAttempts \in Nat
  BY ThreadCount, MaxIsPositive
<1>1. 0 \in S
  <2> DEFINE f == [p \in Dom |-> 0]
  <2>1. f \in [Dom -> Nat]
    OBVIOUS
  <2>2. Upto(f, 0)
    BY DEF Recorded
  <2> HIDE DEF f
  <2> QED
    BY <2>1, <2>2
<1>2. ASSUME NEW k \in Nat, k \in S PROVE k + 1 \in S
  <2>1. PICK f \in [Dom -> Nat] : Upto(f, k)
    BY <1>2
  <2> DEFINE g == [p \in Dom |-> IF p[1] + p[2] <= k THEN f[p] ELSE Recorded(f, p[1], p[2])]
  <2>2. \A n \in 0..PoolSize, left \in 0..MaxAttempts : f[<<n, left>>] \in Nat
    OBVIOUS
  <2>3. \A n \in 0..PoolSize, left \in 0..MaxAttempts : Recorded(f, n, left) \in Nat
    BY <2>2 DEF Recorded
  <2>4. g \in [Dom -> Nat]
    BY <2>2, <2>3
  <2>5. \A n \in 0..PoolSize, left \in 0..MaxAttempts :
          g[<<n, left>>] = IF n + left <= k THEN f[<<n, left>>] ELSE Recorded(f, n, left)
    OBVIOUS
  <2> HIDE DEF g
  <2>6. ASSUME NEW n \in 0..PoolSize, NEW left \in 0..MaxAttempts, n + left <= k + 1
        PROVE  g[<<n, left>>] = Recorded(g, n, left)
    <3>1. g[<<n, left>>] = Recorded(f, n, left)
      BY <2>1, <2>5
    <3>2. CASE n = 0 \/ left = 0
      BY <3>1, <3>2 DEF Recorded
    <3>3. CASE n # 0 /\ left # 0
      <4>1. n - 1 \in 0..PoolSize /\ left - 1 \in 0..MaxAttempts
            /\ (n - 1) + left <= k /\ n + (left - 1) <= k
        BY <2>6, <3>3
      <4>2. g[<<n - 1, left>>] = f[<<n - 1, left>>] /\ g[<<n, left - 1>>] = f[<<n, left - 1>>]
        BY <2>5, <4>1
      <4> QED
        BY <3>1, <3>3, <4>2 DEF Recorded
    <3> QED
      BY <3>2, <3>3
  <2> QED
    BY <2>4, <2>6
<1> HIDE DEF S
<1>3. PoolSize + MaxAttempts \in S
  BY <1>1, <1>2, Induction
<1>4. PICK f \in [Dom -> Nat] : Upto(f, PoolSize + MaxAttempts)
  BY <1>3 DEF S
<1>5. f = [p \in Dom |-> Recorded(f, p[1], p[2])]
  <2>1. ASSUME NEW p \in Dom PROVE f[p] = Recorded(f, p[1], p[2])
    <3>1. p[1] \in 0..PoolSize /\ p[2] \in 0..MaxAttempts /\ p = <<p[1], p[2]>>
          /\ p[1] + p[2] <= PoolSize + MaxAttempts
      OBVIOUS
    <3> QED
      BY <1>4, <3>1
  <2> QED
    BY <2>1
<1> QED
  BY <1>5

(* Failures satisfies it, and its values are naturals. *)
LEMMA FailuresEquation ==
  \A n \in 0..PoolSize, left \in 0..MaxAttempts :
     /\ Failures[<<n, left>>] = Recorded(Failures, n, left)
     /\ n = 0 \/ left = 0 => Failures[<<n, left>>] = 0
     /\ Failures[<<n, left>>] \in Nat
<1> PoolSize \in Nat /\ MaxAttempts \in Nat
  BY ThreadCount, MaxIsPositive
<1>1. Failures = [p \in (0..PoolSize) \X (0..MaxAttempts) |-> Recorded(Failures, p[1], p[2])]
  BY FailuresExist DEF Failures, Recorded, PoolSize
<1>2. \A n \in 0..PoolSize, left \in 0..MaxAttempts :
        Failures[<<n, left>>] = Recorded(Failures, n, left)
  BY <1>1
<1> DEFINE S == {k \in Nat : \A n \in 0..PoolSize, left \in 0..MaxAttempts :
                                n + left <= k => Failures[<<n, left>>] \in Nat}
<1>0. \A n \in 0..PoolSize, left \in 0..MaxAttempts : n = 0 \/ left = 0 => Failures[<<n, left>>] = 0
  <2> SUFFICES ASSUME NEW n \in 0..PoolSize, NEW left \in 0..MaxAttempts, n = 0 \/ left = 0
               PROVE  Failures[<<n, left>>] = 0
    OBVIOUS
  <2>1. Recorded(Failures, n, left) = 0
    BY DEF Recorded
  <2> QED
    BY <1>2, <2>1
<1>3. 0 \in S
  <2>1. \A n \in 0..PoolSize, left \in 0..MaxAttempts : n + left <= 0 => n = 0
    OBVIOUS
  <2> QED
    BY <1>0, <2>1
<1>4. ASSUME NEW k \in Nat, k \in S PROVE k + 1 \in S
  <2> SUFFICES ASSUME NEW n \in 0..PoolSize, NEW left \in 0..MaxAttempts, n + left <= k + 1
               PROVE  Failures[<<n, left>>] \in Nat
    OBVIOUS
  <2>1. CASE n = 0 \/ left = 0
    BY <1>0, <2>1
  <2>2. CASE n # 0 /\ left # 0
    <3>1. n - 1 \in 0..PoolSize /\ left - 1 \in 0..MaxAttempts
          /\ (n - 1) + left <= k /\ n + (left - 1) <= k
      BY <2>2
    <3>2. Failures[<<n - 1, left>>] \in Nat /\ Failures[<<n, left - 1>>] \in Nat
      BY <1>4, <3>1
    <3>3. Failures[<<n, left>>] = Failures[<<n - 1, left>>] + 1 + Failures[<<n, left - 1>>]
      BY <1>2, <2>2 DEF Recorded
    <3> QED
      BY <3>2, <3>3
  <2> QED
    BY <2>1, <2>2
<1> HIDE DEF S
<1>5. \A k \in Nat : k \in S
  BY <1>3, <1>4, Induction
<1>6. \A n \in 0..PoolSize, left \in 0..MaxAttempts : Failures[<<n, left>>] \in Nat
  <2> SUFFICES ASSUME NEW n \in 0..PoolSize, NEW left \in 0..MaxAttempts
               PROVE  Failures[<<n, left>>] \in Nat
    OBVIOUS
  <2>1. n + left \in S
    BY <1>5
  <2> QED
    BY <2>1 DEF S
<1> QED
  BY <1>0, <1>2, <1>6

(* In the form in which it is used. *)
LEMMA FailuresStep ==
  ASSUME NEW j \in 1..PoolSize, NEW left \in 1..MaxAttempts
  PROVE  /\ j - 1 \in 0..PoolSize /\ left - 1 \in 0..MaxAttempts
         /\ Failures[<<j, left>>] = Failures[<<j - 1, left>>] + 1 + Failures[<<j, left - 1>>]
         /\ Failures[<<j, left>>] \in Nat /\ Failures[<<j - 1, left>>] \in Nat
         /\ Failures[<<j, left - 1>>] \in Nat
<1> PoolSize \in Nat /\ MaxAttempts \in Nat
  BY ThreadCount, MaxIsPositive
<1>1. j \in 0..PoolSize /\ left \in 0..MaxAttempts /\ j # 0 /\ left # 0
      /\ j - 1 \in 0..PoolSize /\ left - 1 \in 0..MaxAttempts
  OBVIOUS
<1> QED
  BY <1>1, FailuresEquation DEF Recorded

(* More attempts leave room for more failures. *)
LEMMA FailuresGrow ==
  ASSUME NEW j \in 0..PoolSize, NEW left \in 1..MaxAttempts
  PROVE  Failures[<<j, left - 1>>] <= Failures[<<j, MaxAttempts - 1>>]
<1> PoolSize \in Nat /\ MaxAttempts \in Nat \ {0}
  BY ThreadCount, MaxIsPositive
<1> DEFINE S == {d \in Nat : d < MaxAttempts =>
                    Failures[<<j, MaxAttempts - 1 - d>>] <= Failures[<<j, MaxAttempts - 1>>]}
<1>1. 0 \in S
  <2>1. Failures[<<j, MaxAttempts - 1>>] \in Nat
    BY FailuresEquation
  <2> QED
    BY <2>1
<1>2. ASSUME NEW d \in Nat, d \in S PROVE d + 1 \in S
  <2> SUFFICES ASSUME d + 1 < MaxAttempts
               PROVE  Failures[<<j, MaxAttempts - 1 - (d + 1)>>] <= Failures[<<j, MaxAttempts - 1>>]
    OBVIOUS
  <2> DEFINE l == MaxAttempts - 1 - d
  <2>1. /\ l \in 1..MaxAttempts /\ l - 1 = MaxAttempts - 1 - (d + 1)
        /\ MaxAttempts - 1 \in 0..MaxAttempts
    OBVIOUS
  <2>2. Failures[<<j, l>>] <= Failures[<<j, MaxAttempts - 1>>]
    BY <1>2
  <2> HIDE DEF l
  <2>3. CASE j = 0
    <3>1. Failures[<<j, l - 1>>] = 0 /\ Failures[<<j, MaxAttempts - 1>>] = 0
      <4>1. l - 1 \in 0..MaxAttempts
        BY <2>1
      <4> QED
        BY <2>1, <2>3, <4>1, FailuresEquation
    <3> QED
      BY <2>1, <3>1
  <2>4. CASE j # 0
    <3>1. /\ Failures[<<j, l>>] >= Failures[<<j, l - 1>>]
          /\ Failures[<<j, l>>] \in Nat /\ Failures[<<j, l - 1>>] \in Nat
      <4>1. j \in 1..PoolSize
        BY <2>4
      <4>2. /\ Failures[<<j, l>>] = Failures[<<j - 1, l>>] + 1 + Failures[<<j, l - 1>>]
            /\ Failures[<<j, l>>] \in Nat /\ Failures[<<j - 1, l>>] \in Nat
            /\ Failures[<<j, l - 1>>] \in Nat
        BY <2>1, <4>1, FailuresStep
      <4> QED
        BY <4>2
    <3>2. Failures[<<j, MaxAttempts - 1>>] \in Nat
      BY <2>1, FailuresEquation
    <3> QED
      BY <2>1, <2>2, <3>1, <3>2
  <2> QED
    BY <2>3, <2>4
<1> HIDE DEF S
<1>3. MaxAttempts - left \in Nat
  OBVIOUS
<1>4. MaxAttempts - left \in S
  BY <1>1, <1>2, <1>3, Induction
<1>5. MaxAttempts - 1 - (MaxAttempts - left) = left - 1 /\ MaxAttempts - left < MaxAttempts
  OBVIOUS
<1> QED
  BY <1>4, <1>5 DEF S

-----------------------------------------------------------------------------
(* Budgets.  Of the threads that work for an address, each has seen some   *)
(* value of the counter or will see the one that stands there.  Put them   *)
(* in any order: if they store their values in the reverse of it, the j-th *)
(* stores with j threads free to bring its counter to the maximum again.   *)
(* The invariant says that what has been recorded, and what all of them    *)
(* could still record in this way, is within the bound for every order.    *)
(* For every order, because then a thread that stores may be moved to the  *)
(* place in which its cost pays for what it makes possible; nobody has to  *)
(* know which order is the worst.                                          *)

(* The orders in which the threads may come. *)
Orders ==
    {e \in [1..PoolSize -> Threads] :
        /\ \A j, k \in 1..PoolSize : e[j] = e[k] => j = k
        /\ \A t \in Threads : \E j \in 1..PoolSize : e[j] = t}

(* What the thread that comes j-th costs: its own failure, and what the    *)
(* j threads up to it can do with the counter that it leaves, if it has    *)
(* seen one that was y below the maximum.  One that records none has y = 0.*)
Worth(j, y) == IF y = 0 THEN 0 ELSE 1 + Failures[<<j, y - 1>>]

(* With w failures recorded, a running total of what the threads cost in   *)
(* this order; c[PoolSize] is what there is to spend.      *)
Covers(c, e, w, y) ==
    /\ c[0] = w
    /\ \A j \in 1..PoolSize : c[j - 1] + Worth(j, y[e[j]]) <= c[j]
    /\ c[PoolSize] <= Failures[<<PoolSize, MaxAttempts>>]

Within(w, y) == \A e \in Orders : \E c \in [0..PoolSize -> Nat] : Covers(c, e, w, y)

Views == [Threads -> 0..MaxAttempts]

(* The costs are naturals. *)
LEMMA WorthIsNat ==
  ASSUME NEW j \in 1..PoolSize, NEW n \in 0..MaxAttempts
  PROVE  Worth(j, n) \in Nat /\ (n # 0 => Worth(j, n) >= 1)
<1> PoolSize \in Nat /\ MaxAttempts \in Nat
  BY ThreadCount, MaxIsPositive
<1>1. CASE n = 0
  BY <1>1 DEF Worth
<1>2. CASE n # 0
  <2>1. n - 1 \in 0..MaxAttempts /\ j \in 0..PoolSize
    BY <1>2
  <2>2. Failures[<<j, n - 1>>] \in Nat
    BY <2>1, FailuresEquation
  <2>3. Worth(j, n) = 1 + Failures[<<j, n - 1>>]
    BY <1>2 DEF Worth
  <2> QED
    BY <2>2, <2>3
<1> QED
  BY <1>1, <1>2

(* A thread that has seen the last attempt, or more, records one failure. *)
LEMMA WorthOfLast ==
  ASSUME NEW j \in 1..PoolSize
  PROVE  Worth(j, 1) = 1
<1> PoolSize \in Nat /\ MaxAttempts \in Nat
  BY ThreadCount, MaxIsPositive
<1>1. Failures[<<j, 0>>] = 0
  <2>1. j \in 0..PoolSize /\ 0 \in 0..MaxAttempts
    OBVIOUS
  <2> QED
    BY <2>1, FailuresEquation
<1> QED
  BY <1>1 DEF Worth

(* A thread that gives up costs nothing any more. *)
LEMMA FewerFit ==
  ASSUME NEW w \in Nat, NEW y \in Views, NEW z \in Views, Within(w, y),
         \A s \in Threads : z[s] \in {0, y[s]}
  PROVE  Within(w, z)
<1> SUFFICES ASSUME NEW e \in Orders PROVE \E c \in [0..PoolSize -> Nat] : Covers(c, e, w, z)
  BY DEF Within
<1> PoolSize \in Nat /\ MaxAttempts \in Nat
  BY ThreadCount, MaxIsPositive
<1>1. PICK c \in [0..PoolSize -> Nat] : Covers(c, e, w, y)
  BY DEF Within
<1>2. ASSUME NEW j \in 1..PoolSize PROVE c[j - 1] + Worth(j, z[e[j]]) <= c[j]
  <2>1. e[j] \in Threads /\ y[e[j]] \in 0..MaxAttempts
    BY DEF Orders, Views
  <2>2. Worth(j, y[e[j]]) \in Nat /\ c[j - 1] \in Nat /\ c[j] \in Nat
    BY <2>1, WorthIsNat
  <2>3. Worth(j, z[e[j]]) \in {0, Worth(j, y[e[j]])}
    BY <2>1 DEF Worth
  <2>4. c[j - 1] + Worth(j, y[e[j]]) <= c[j]
    BY <1>1 DEF Covers
  <2> QED
    BY <2>2, <2>3, <2>4
<1> QED
  BY <1>1, <1>2 DEF Covers

(* At the start, and after a success, every thread is within the budget,   *)
(* whatever it has seen.                                                   *)
LEMMA FreshFit ==
  ASSUME NEW y \in Views
  PROVE  Within(0, y)
<1> SUFFICES ASSUME NEW e \in Orders PROVE \E c \in [0..PoolSize -> Nat] : Covers(c, e, 0, y)
  BY DEF Within
<1> PoolSize \in Nat /\ MaxAttempts \in Nat \ {0}
  BY ThreadCount, MaxIsPositive
<1> DEFINE c == [j \in 0..PoolSize |-> Failures[<<j, MaxAttempts>>]]
<1>1. c \in [0..PoolSize -> Nat] /\ c[0] = 0 /\ c[PoolSize] = Failures[<<PoolSize, MaxAttempts>>]
  <2>1. \A j \in 0..PoolSize : Failures[<<j, MaxAttempts>>] \in Nat
    BY FailuresEquation
  <2>2. Failures[<<0, MaxAttempts>>] = 0
    <3>1. 0 \in 0..PoolSize /\ MaxAttempts \in 0..MaxAttempts
      OBVIOUS
    <3> QED
      BY <3>1, FailuresEquation
  <2> QED
    BY <2>1, <2>2
<1>2. ASSUME NEW j \in 1..PoolSize PROVE c[j - 1] + Worth(j, y[e[j]]) <= c[j]
  <2>1. MaxAttempts \in 1..MaxAttempts /\ j \in 0..PoolSize /\ j - 1 \in 0..PoolSize
    OBVIOUS
  <2>2. c[j] = Failures[<<j, MaxAttempts>>] /\ c[j - 1] = Failures[<<j - 1, MaxAttempts>>]
    BY <2>1
  <2> DEFINE rest == Failures[<<j, MaxAttempts - 1>>]
  <2>3. c[j] = c[j - 1] + 1 + rest /\ c[j] \in Nat /\ c[j - 1] \in Nat /\ rest \in Nat
    BY <2>1, <2>2, FailuresStep
  <2>4. Worth(j, y[e[j]]) <= 1 + rest /\ Worth(j, y[e[j]]) \in Nat
    <3> DEFINE n == y[e[j]]
    <3>1. n \in 0..MaxAttempts
      BY DEF Orders, Views
    <3> HIDE DEF n
    <3>2. Worth(j, n) \in Nat
      BY <3>1, WorthIsNat
    <3>3. Worth(j, n) <= 1 + rest
      <4>1. CASE n = 0
        <5>1. Worth(j, n) = 0
          BY <4>1 DEF Worth
        <5> HIDE DEF rest
        <5> QED
          BY <2>3, <5>1
      <4>2. CASE n # 0
        <5>1. n \in 1..MaxAttempts
          BY <3>1, <4>2
        <5>2. Failures[<<j, n - 1>>] <= rest
          BY <2>1, <5>1, FailuresGrow
        <5>3. Worth(j, n) = 1 + Failures[<<j, n - 1>>]
          BY <4>2 DEF Worth
        <5>4. Failures[<<j, n - 1>>] \in Nat
          BY <2>1, <5>1, FailuresStep
        <5> HIDE DEF rest
        <5> QED
          BY <2>3, <5>2, <5>3, <5>4
      <4> QED
        BY <4>1, <4>2
    <3> HIDE DEF rest
    <3>4. Worth(j, n) \in Nat /\ Worth(j, n) <= 1 + rest
      BY <3>2, <3>3
    <3> QED
      BY <3>4 DEF n
  <2> HIDE DEF rest, c
  <2> QED
    BY <2>3, <2>4
<1>3. Failures[<<PoolSize, MaxAttempts>>] \in Nat
  BY FailuresEquation
<1> HIDE DEF c
<1>4. Covers(c, e, 0, y)
  BY <1>1, <1>2, <1>3 DEF Covers
<1> QED
  BY <1>1, <1>4

(* The failure that brings the counter to the maximum, or finds it there:  *)
(* the others can record one more each if they are past the check.         *)
LEMMA LastStoreFits ==
  ASSUME NEW w \in Nat, NEW y \in Views, NEW z \in Views, Within(w, y),
         NEW t \in Threads, y[t] # 0, z[t] = 0,
         \A s \in Threads : z[s] \in {0, y[s]} \/ (z[s] = 1 /\ y[s] # 0)
  PROVE  Within(w + 1, z)
<1> SUFFICES ASSUME NEW e \in Orders PROVE \E c \in [0..PoolSize -> Nat] : Covers(c, e, w + 1, z)
  BY DEF Within
<1> PoolSize \in Nat /\ MaxAttempts \in Nat
  BY ThreadCount, MaxIsPositive
<1>1. PICK c \in [0..PoolSize -> Nat] : Covers(c, e, w, y)
  BY DEF Within
<1>2. PICK p \in 1..PoolSize : e[p] = t
  BY DEF Orders
<1> DEFINE d == [j \in 0..PoolSize |-> IF j < p THEN c[j] + 1 ELSE c[j]]
<1>3. d \in [0..PoolSize -> Nat] /\ d[0] = w + 1 /\ d[PoolSize] = c[PoolSize]
  BY <1>1, <1>2 DEF Covers
<1>4. \A j \in 0..PoolSize : d[j] = IF j < p THEN c[j] + 1 ELSE c[j]
  OBVIOUS
<1> HIDE DEF d
<1>5. ASSUME NEW j \in 1..PoolSize PROVE d[j - 1] + Worth(j, z[e[j]]) <= d[j]
  <2>1. e[j] \in Threads /\ y[e[j]] \in 0..MaxAttempts /\ j \in 0..PoolSize /\ j - 1 \in 0..PoolSize
    BY DEF Orders, Views
  <2>2. /\ Worth(j, y[e[j]]) \in Nat /\ c[j - 1] \in Nat /\ c[j] \in Nat
        /\ y[e[j]] # 0 => Worth(j, y[e[j]]) >= 1
    BY <2>1, WorthIsNat
  <2>3. c[j - 1] + Worth(j, y[e[j]]) <= c[j]
    BY <1>1 DEF Covers
  <2>4. Worth(j, z[e[j]]) \in Nat /\ Worth(j, z[e[j]]) <= Worth(j, y[e[j]])
    <3>1. CASE z[e[j]] = 0
      BY <2>2, <3>1 DEF Worth
    <3>2. CASE z[e[j]] = y[e[j]]
      BY <2>2, <3>2
    <3>3. CASE z[e[j]] = 1 /\ y[e[j]] # 0
      BY <2>2, <3>3, WorthOfLast
    <3> QED
      BY <2>1, <3>1, <3>2, <3>3
  <2>5. CASE j < p
    <3>1. d[j] = c[j] + 1 /\ d[j - 1] = c[j - 1] + 1
      BY <1>4, <2>1, <2>5
    <3> QED
      BY <2>2, <2>3, <2>4, <3>1
  <2>7. CASE j > p
    <3>1. d[j] = c[j] /\ d[j - 1] = c[j - 1]
      BY <1>4, <2>1, <2>7
    <3> QED
      BY <2>2, <2>3, <2>4, <3>1
  <2>6. CASE j = p
    <3>1. d[j] = c[j] /\ d[j - 1] = c[j - 1] + 1
      BY <1>4, <2>1, <2>6
    <3>2. Worth(j, z[e[j]]) = 0 /\ Worth(j, y[e[j]]) >= 1
      BY <1>2, <2>2, <2>6 DEF Worth
    <3> QED
      BY <2>2, <2>3, <3>1, <3>2
  <2> QED
    BY <2>5, <2>6, <2>7
<1>6. Covers(d, e, w + 1, z)
  BY <1>1, <1>3, <1>5 DEF Covers
<1> QED
  BY <1>3, <1>6

(* The sums of the next lemma. *)
LEMMA Sums ==
  ASSUME NEW c0 \in Nat, NEW c1 \in Nat, NEW r0 \in Nat, NEW less \in Nat, NEW v \in Nat,
         c0 + v <= c1
  PROVE  /\ (c0 + 1 + r0) + v <= c1 + 1 + (r0 + 1 + less)
         /\ (c0 + 1 + r0) + (1 + less) <= c1 + 1 + (r0 + 1 + less)
         /\ v = 1 + (r0 + 1 + less) => (c0 + 1 + r0) + (1 + less) <= c1
  OBVIOUS

(* A failure that leaves the counter below the maximum: whoever is not     *)
(* about to store comes to see that counter.  In an order of the threads   *)
(* the one that stored takes the place of the last of them, and in that    *)
(* place its cost pays for all their places before.                        *)
LEMMA StoreFits ==
  ASSUME NEW w \in Nat, NEW y \in Views, NEW z \in Views, Within(w, y),
         NEW t \in Threads, NEW free \in SUBSET Threads, t \in free, y[t] >= 2,
         \A s \in Threads : z[s] = IF s \in free THEN y[t] - 1 ELSE y[s]
  PROVE  Within(w + 1, z)
<1> SUFFICES ASSUME NEW e \in Orders PROVE \E c \in [0..PoolSize -> Nat] : Covers(c, e, w + 1, z)
  BY DEF Within
<1> PoolSize \in Nat /\ MaxAttempts \in Nat
  BY ThreadCount, MaxIsPositive
<1> DEFINE l == y[t] - 1
           L == {j \in 1..PoolSize : e[j] \in free}
<1>1. PICK p \in 1..PoolSize : e[p] = t
  BY DEF Orders
<1>2. PICK q \in L : \A j \in L : j <= q
  <2>1. p \in L /\ L \subseteq 1..PoolSize
    BY <1>1
  <2> HIDE DEF L
  <2> QED
    BY <2>1, GreatestElement
<1> DEFINE f == [j \in 1..PoolSize |-> IF j = q THEN t ELSE IF j = p THEN e[q] ELSE e[j]]
<1>3. f \in Orders
  <2>1. f \in [1..PoolSize -> Threads]
    BY DEF Orders
  <2>2. ASSUME NEW j \in 1..PoolSize, NEW k \in 1..PoolSize, f[j] = f[k] PROVE j = k
    BY <1>1, <1>2, <2>2 DEF Orders
  <2>3. ASSUME NEW s \in Threads PROVE \E j \in 1..PoolSize : f[j] = s
    <3>1. PICK k \in 1..PoolSize : e[k] = s
      BY DEF Orders
    <3>2. CASE k = q
      <4>1. f[p] = s
        BY <1>1, <3>1, <3>2
      <4> QED
        BY <4>1
    <3>3. CASE k = p
      <4>1. f[q] = s
        BY <1>1, <1>2, <3>1, <3>3
      <4> QED
        BY <1>2, <4>1
    <3>4. CASE k # q /\ k # p
      <4>1. f[k] = s
        BY <3>1, <3>4
      <4> QED
        BY <4>1
    <3> QED
      BY <3>2, <3>3, <3>4
  <2> HIDE DEF f
  <2> QED
    BY <2>1, <2>2, <2>3 DEF Orders
<1>4. PICK c \in [0..PoolSize -> Nat] : Covers(c, f, w, y)
  BY <1>3 DEF Within
<1>5. /\ q \in 1..PoolSize /\ f[q] = t /\ e[q] \in free
      /\ \A j \in 1..PoolSize : e[j] \notin free => j # q /\ f[j] = e[j]
      /\ \A j \in 1..PoolSize : q < j => e[j] \notin free
  BY <1>1, <1>2
<1> HIDE DEF f, L
<1>6. l \in 1..MaxAttempts /\ y[t] \in 0..MaxAttempts /\ y[t] # 0
  BY DEF Views
<1> HIDE DEF l
<1> DEFINE room(j) == Failures[<<j, l>>]
           d == [j \in 0..PoolSize |-> IF j < q THEN c[j] + 1 + room(j) ELSE c[j]]
<1>7. ASSUME NEW j \in 0..PoolSize PROVE room(j) \in Nat /\ (j = 0 => room(j) = 0)
  <2>1. l \in 0..MaxAttempts
    BY <1>6
  <2> QED
    BY <2>1, FailuresEquation
<1>8. d \in [0..PoolSize -> Nat]
  BY <1>7
<1>9. \A j \in 0..PoolSize : d[j] = IF j < q THEN c[j] + 1 + room(j) ELSE c[j]
  OBVIOUS
<1> HIDE DEF d
<1>10. d[0] = w + 1 /\ d[PoolSize] = c[PoolSize]
  <2>1. 0 \in 0..PoolSize /\ PoolSize \in 0..PoolSize /\ 0 < q /\ ~(PoolSize < q) /\ c[0] = w
    BY <1>4, <1>5 DEF Covers
  <2>2. room(0) = 0
    BY <1>7, <2>1
  <2> HIDE DEF room
  <2> QED
    BY <1>9, <2>1, <2>2
<1>11. ASSUME NEW j \in 1..PoolSize PROVE d[j - 1] + Worth(j, z[e[j]]) <= d[j]
  <2> DEFINE less == Failures[<<j, l - 1>>]
  <2>1. /\ j \in 0..PoolSize /\ j - 1 \in 0..PoolSize /\ e[j] \in Threads /\ f[j] \in Threads
        /\ y[f[j]] \in 0..MaxAttempts
    <3>1. e[j] \in Threads /\ f[j] \in Threads
      BY <1>3 DEF Orders
    <3> QED
      BY <3>1 DEF Views
  <2>2. room(j) = room(j - 1) + 1 + less /\ less \in Nat
    BY <1>6, FailuresStep
  <2>3. room(j) \in Nat /\ room(j - 1) \in Nat /\ c[j] \in Nat /\ c[j - 1] \in Nat
        /\ Worth(j, y[f[j]]) \in Nat
    BY <1>7, <2>1, WorthIsNat
  <2>4. c[j - 1] + Worth(j, y[f[j]]) <= c[j]
    BY <1>4 DEF Covers
  <2>5. e[j] \in free => Worth(j, z[e[j]]) = 1 + less
    <3>1. e[j] \in free => z[e[j]] = l /\ l # 0
      BY <1>6, <2>1 DEF l
    <3> QED
      BY <3>1 DEF Worth
  <2>6. e[j] \notin free => Worth(j, z[e[j]]) = Worth(j, y[f[j]])
    BY <1>5, <2>1
  <2> HIDE DEF room, less
  <2>7. CASE j < q
    <3>0. j - 1 < q
      BY <1>5, <2>7
    <3>1. d[j] = c[j] + 1 + room(j) /\ d[j - 1] = c[j - 1] + 1 + room(j - 1)
      BY <1>9, <2>1, <2>7, <3>0
    <3> DEFINE v == Worth(j, y[f[j]])
    <3>2. /\ (c[j - 1] + 1 + room(j - 1)) + v <= c[j] + 1 + (room(j - 1) + 1 + less)
          /\ (c[j - 1] + 1 + room(j - 1)) + (1 + less) <= c[j] + 1 + (room(j - 1) + 1 + less)
      <4>1. v \in Nat /\ c[j - 1] + v <= c[j]
        BY <2>3, <2>4
      <4> HIDE DEF v
      <4> QED
        BY <2>2, <2>3, <4>1, Sums
    <3>3. Worth(j, z[e[j]]) \in {v, 1 + less}
      BY <2>5, <2>6
    <3> HIDE DEF v
    <3> QED
      BY <2>2, <3>1, <3>2, <3>3
  <2>8. CASE j = q
    <3>1. d[j] = c[j] /\ d[j - 1] = c[j - 1] + 1 + room(j - 1) /\ e[j] \in free
      BY <1>5, <1>9, <2>1, <2>8
    <3>2. Worth(j, y[f[j]]) = 1 + room(j)
      BY <1>5, <1>6, <2>8 DEF Worth, room, l
    <3>3. c[j - 1] + (1 + room(j)) <= c[j] /\ 1 + room(j) \in Nat
      BY <2>3, <2>4, <3>2
    <3>4. (c[j - 1] + 1 + room(j - 1)) + (1 + less) <= c[j]
      BY <2>2, <2>3, <3>3, Sums
    <3> QED
      BY <2>5, <3>1, <3>4
  <2>9. CASE j > q
    <3>1. d[j] = c[j] /\ d[j - 1] = c[j - 1] /\ e[j] \notin free
      BY <1>5, <1>9, <2>1, <2>9
    <3> QED
      BY <2>3, <2>4, <2>6, <3>1
  <2> QED
    BY <1>5, <2>7, <2>8, <2>9
<1>12. Covers(d, e, w + 1, z)
  BY <1>4, <1>10, <1>11 DEF Covers
<1> QED
  BY <1>8, <1>12

(* Whoever is within the budget has not exceeded it. *)
LEMMA WithinBounds ==
  ASSUME NEW w \in Nat, NEW y \in Views, Within(w, y)
  PROVE  w <= Failures[<<PoolSize, MaxAttempts>>]
<1> PoolSize \in Nat /\ MaxAttempts \in Nat
  BY ThreadCount, MaxIsPositive
<1>1. PICK e : e \in Orders
  <2>1. ExistsBijection(1..PoolSize, Threads)
    BY ThreadsAreFinite, FS_CardinalityType DEF PoolSize
  <2>2. PICK e \in Bijection(1..PoolSize, Threads) : TRUE
    BY <2>1 DEF ExistsBijection
  <2>3. e \in Orders
    BY <2>2 DEF Bijection, Injection, Surjection, IsInjective, Orders
  <2> QED
    BY <2>3
<1>2. PICK c \in [0..PoolSize -> Nat] : Covers(c, e, w, y)
  BY <1>1 DEF Within
<1> DEFINE S == {j \in Nat : j <= PoolSize => w <= c[j]}
<1>3. 0 \in S
  BY <1>2 DEF Covers
<1>4. ASSUME NEW k \in Nat, k \in S PROVE k + 1 \in S
  <2> SUFFICES ASSUME k + 1 <= PoolSize PROVE w <= c[k + 1]
    OBVIOUS
  <2> DEFINE j == k + 1
  <2>1. j \in 1..PoolSize /\ j - 1 = k /\ w <= c[k] /\ c[k] \in Nat /\ c[j] \in Nat
    BY <1>4
  <2> HIDE DEF j
  <2>2. y[e[j]] \in 0..MaxAttempts
    BY <1>1, <2>1 DEF Orders, Views
  <2>3. Worth(j, y[e[j]]) \in Nat
    BY <2>1, <2>2, WorthIsNat
  <2>4. c[k] + Worth(j, y[e[j]]) <= c[j]
    BY <1>2, <2>1 DEF Covers
  <2>5. w <= c[j]
    BY <2>1, <2>3, <2>4
  <2> QED
    BY <2>5 DEF j
<1> HIDE DEF S
<1>5. PoolSize \in S
  BY <1>3, <1>4, Induction
<1>6. w <= c[PoolSize] /\ c[PoolSize] <= Failures[<<PoolSize, MaxAttempts>>]
  BY <1>2, <1>5 DEF S, Covers
<1>7. c[PoolSize] \in Nat /\ Failures[<<PoolSize, MaxAttempts>>] \in Nat
  BY FailuresEquation
<1> QED
  BY <1>6, <1>7

-----------------------------------------------------------------------------
(* The threads on behalf of an address *)

Storing(i, t) == ip[t] = i /\ stage[t] = "store"
Past(i, t) == ip[t] = i /\ stage[t] \in {"verify", "count"}

Below(v) == IF v < MaxAttempts THEN MaxAttempts - v ELSE 1

(* How far below the maximum the counter of address i is that each thread  *)
(* has seen, or could see now; at the maximum only threads past the check  *)
(* still record a failure.                                                 *)
View(i) ==
    [t \in Threads |->
        IF Storing(i, t) THEN Below(seen[t])
        ELSE IF attempts[i] < MaxAttempts \/ Past(i, t) THEN Below(attempts[i]) ELSE 0]

WithinBudget == \A i \in Ips : Within(wrong[i], View(i))

(* Views are views. *)
LEMMA ViewsAreViews ==
  ASSUME GuardTypeOK, NEW i \in Ips
  PROVE  View(i) \in Views
<1>1. \A v \in 0..MaxAttempts : Below(v) \in 0..MaxAttempts
  BY MaxIsPositive DEF Below
<1>2. attempts[i] \in 0..MaxAttempts /\ \A t \in Threads : seen[t] \in 0..MaxAttempts
  BY DEF GuardTypeOK
<1>3. 0 \in 0..MaxAttempts
  BY MaxIsPositive
<1> QED
  BY <1>1, <1>2, <1>3 DEF View, Views

(* The same of the next state. *)
LEMMA NextViews ==
  ASSUME GuardTypeOK', NEW i \in Ips
  PROVE  View(i)' \in Views
<1>1. \A v \in 0..MaxAttempts : Below(v) \in 0..MaxAttempts
  BY MaxIsPositive DEF Below
<1>2. attempts'[i] \in 0..MaxAttempts /\ \A t \in Threads : seen'[t] \in 0..MaxAttempts
  BY DEF GuardTypeOK
<1>3. 0 \in 0..MaxAttempts
  BY MaxIsPositive
<1> QED
  BY <1>1, <1>2, <1>3 DEF View, Views

(* A step that records nothing for the address leaves the views of the     *)
(* threads, or ends a request that would have recorded a failure.          *)
LEMMA QuietStep ==
  ASSUME GuardIInv, NEW i \in Ips, NEW t \in Threads,
         \/ CheckList(t) \/ CheckGuard(t) \/ VerifyFails(t) \/ VerifyRaises(t) \/ Count(t)
         \/ ip[t] # i /\ (VerifySucceeds(t) \/ Store(t))
  PROVE  /\ attempts'[i] = attempts[i] /\ wrong'[i] = wrong[i]
         /\ \A s \in Threads : View(i)'[s] \in {0, View(i)[s]}
<1> USE DEF GuardIInv, GuardTypeOK, HasAddress, At, Goto, Finish
<1>1. attempts'[i] = attempts[i] /\ wrong'[i] = wrong[i]
  BY DEF CheckList, CheckGuard, VerifyFails, VerifyRaises, Count, VerifySucceeds, Store
<1>2. ASSUME NEW s \in Threads, s # t PROVE View(i)'[s] = View(i)[s]
  <2>1. ip'[s] = ip[s] /\ stage'[s] = stage[s] /\ seen'[s] = seen[s]
    BY <1>2 DEF CheckList, CheckGuard, VerifyFails, VerifyRaises, Count, VerifySucceeds, Store
  <2> QED
    BY <1>1, <2>1 DEF View, Storing, Past
<1>3. View(i)'[t] \in {0, View(i)[t]}
  <2>1. ASSUME ~Storing(i, t), ~Storing(i, t)',
               Past(i, t)' => Past(i, t) \/ attempts[i] < MaxAttempts
        PROVE  View(i)'[t] \in {0, View(i)[t]}
    BY <1>1, <2>1 DEF View
  <2>2. CASE CheckList(t)
    BY <2>1, <2>2 DEF CheckList, Storing, Past
  <2>3. CASE CheckGuard(t)
    <3>1. stage[t] = "guard" /\ ip[t] \in Ips
      BY <2>3 DEF CheckGuard
    <3>2. CASE IsBlocked(ip[t])
      BY <2>1, <2>3, <3>1, <3>2 DEF CheckGuard, Storing, Past
    <3>3. CASE ~IsBlocked(ip[t])
      <4>1. stage'[t] = "verify" /\ ip'[t] = ip[t] /\ ~(attempts[ip[t]] >= limit)
        BY <2>3, <3>3 DEF CheckGuard, IsBlocked
      <4>2. attempts[ip[t]] < MaxAttempts
        BY <3>1, <4>1, MaxIsPositive, LimitsType
      <4> QED
        BY <2>1, <3>1, <4>1, <4>2 DEF Storing, Past
    <3> QED
      BY <3>2, <3>3
  <2>4. CASE VerifyFails(t) \/ VerifyRaises(t)
    BY <2>1, <2>4 DEF VerifyFails, VerifyRaises, Storing, Past
  <2>5. CASE Count(t)
    <3>1. stage[t] = "count" /\ stage'[t] = "store" /\ ip'[t] = ip[t] /\ ip[t] \in Ips
          /\ seen'[t] = attempts[ip[t]]
      BY <2>5 DEF Count
    <3>2. CASE ip[t] = i
      BY <3>1, <3>2 DEF View, Storing, Past
    <3>3. CASE ip[t] # i
      BY <2>1, <3>1, <3>3 DEF Storing, Past
    <3> QED
      BY <3>2, <3>3
  <2>6. CASE ip[t] # i /\ (VerifySucceeds(t) \/ Store(t))
    BY <2>1, <2>6 DEF VerifySucceeds, Store, Storing, Past
  <2> QED
    BY <2>2, <2>3, <2>4, <2>5, <2>6
<1> QED
  BY <1>1, <1>2, <1>3

(* A step that records a failure of the address. *)
LEMMA FailureStep ==
  ASSUME GuardIInv, GuardIInv', NEW i \in Ips, Within(wrong[i], View(i)),
         NEW t \in Threads, Store(t), ip[t] = i
  PROVE  Within(wrong'[i], View(i)')
<1> MaxAttempts \in Nat \ {0}
  BY MaxIsPositive
<1> USE DEF GuardIInv, GuardTypeOK, HasAddress, At, Goto, Finish
<1>1. /\ wrong[i] \in Nat /\ wrong'[i] = wrong[i] + 1
      /\ seen[t] \in 0..MaxAttempts /\ attempts[i] \in 0..MaxAttempts
      /\ attempts'[i] = IF seen[t] < MaxAttempts THEN seen[t] + 1 ELSE MaxAttempts
      /\ Storing(i, t) /\ stage'[t] = "idle"
  BY DEF Store, Storing
<1>2. View(i) \in Views /\ View(i)' \in Views
  BY ViewsAreViews, NextViews
<1>3. \A s \in Threads \ {t} : /\ Storing(i, s)' <=> Storing(i, s)
                               /\ Past(i, s)' <=> Past(i, s)
                               /\ seen'[s] = seen[s]
  BY DEF Store, Storing, Past
<1>4. ~Storing(i, t)' /\ ~Past(i, t)'
  BY <1>1 DEF Storing, Past
<1>5. View(i)[t] = Below(seen[t])
  BY <1>1 DEF View
<1>6. CASE seen[t] + 1 < MaxAttempts
  <2> DEFINE free == {s \in Threads : ~Storing(i, s)'}
  <2>1. t \in free /\ free \in SUBSET Threads
    BY <1>4
  <2>2. View(i)[t] = MaxAttempts - seen[t] /\ View(i)[t] >= 2
    BY <1>1, <1>5, <1>6 DEF Below
  <2>3. attempts'[i] = seen[t] + 1 /\ attempts'[i] < MaxAttempts
    BY <1>1, <1>6
  <2>4. Below(attempts'[i]) = View(i)[t] - 1
    BY <1>1, <2>2, <2>3 DEF Below
  <2>5. ASSUME NEW s \in Threads
        PROVE  View(i)'[s] = IF s \in free THEN View(i)[t] - 1 ELSE View(i)[s]
    <3>1. CASE s \in free
      BY <2>3, <2>4, <3>1 DEF View
    <3>2. CASE s \notin free
      <4>1. Storing(i, s)' /\ Storing(i, s) /\ seen'[s] = seen[s]
        BY <1>3, <1>4, <3>2
      <4> QED
        BY <3>2, <4>1 DEF View
    <3> QED
      BY <3>1, <3>2
  <2> HIDE DEF free
  <2> QED
    BY <1>1, <1>2, <2>1, <2>2, <2>5, StoreFits
<1>7. CASE ~(seen[t] + 1 < MaxAttempts)
  <2>1. attempts'[i] = MaxAttempts /\ ~(attempts'[i] < MaxAttempts)
    BY <1>1, <1>7
  <2>2. View(i)[t] # 0 /\ View(i)'[t] = 0
    <3>1. Below(seen[t]) # 0
      BY <1>1 DEF Below
    <3> QED
      BY <1>4, <1>5, <2>1, <3>1 DEF View
  <2>3. ASSUME NEW s \in Threads
        PROVE  View(i)'[s] \in {0, View(i)[s]} \/ (View(i)'[s] = 1 /\ View(i)[s] # 0)
    <3>1. CASE s = t
      BY <2>2, <3>1
    <3>2. CASE s # t /\ Storing(i, s)
      BY <1>3, <3>2 DEF View
    <3>3. CASE s # t /\ ~Storing(i, s) /\ Past(i, s)
      <4>1. View(i)'[s] = 1
        BY <1>3, <2>1, <3>3 DEF View, Below
      <4>2. Below(attempts[i]) # 0
        BY <1>1 DEF Below
      <4>3. View(i)[s] = Below(attempts[i])
        BY <3>3 DEF View
      <4> QED
        BY <4>1, <4>2, <4>3
    <3>4. CASE s # t /\ ~Storing(i, s) /\ ~Past(i, s)
      BY <1>3, <2>1, <3>4 DEF View
    <3> QED
      BY <3>1, <3>2, <3>3, <3>4
  <2> QED
    BY <1>1, <1>2, <2>2, <2>3, LastStoreFits
<1> QED
  BY <1>6, <1>7

(* Every step of a thread keeps every address within its budget. *)
LEMMA BudgetKeeps ==
  ASSUME GuardIInv, GuardIInv', WithinBudget, NEW t \in Threads, Step(t)
  PROVE  WithinBudget'
<1> SUFFICES ASSUME NEW i \in Ips PROVE Within(wrong'[i], View(i)')
  BY DEF WithinBudget, Within, Covers, Worth
<1>0. Within(wrong[i], View(i))
  BY DEF WithinBudget
<1>1. wrong[i] \in Nat /\ View(i) \in Views /\ View(i)' \in Views
  BY ViewsAreViews, NextViews DEF GuardIInv, GuardTypeOK
<1>2. CASE \/ CheckList(t) \/ CheckGuard(t) \/ VerifyFails(t) \/ VerifyRaises(t) \/ Count(t)
           \/ ip[t] # i /\ (VerifySucceeds(t) \/ Store(t))
  <2>1. /\ wrong'[i] = wrong[i]
        /\ \A s \in Threads : View(i)'[s] \in {0, View(i)[s]}
    BY <1>2, QuietStep
  <2> QED
    BY <1>0, <1>1, <2>1, FewerFit
<1>3. CASE ip[t] = i /\ VerifySucceeds(t)
  <2>1. wrong'[i] = 0
    BY <1>3 DEF VerifySucceeds, GuardIInv, GuardTypeOK
  <2> QED
    BY <1>1, <2>1, FreshFit
<1>4. CASE ip[t] = i /\ Store(t)
  BY <1>0, <1>4, FailureStep
<1> QED
  BY <1>2, <1>3, <1>4 DEF Step

(* An address is locked out after a number of failures that depends on the *)
(* size of the pool and the maximum alone.                                 *)
THEOREM LocksComeInTime == GuardSpec => []LockoutComes
<1> DEFINE Inv == GuardIInv /\ WithinBudget
<1>1. GuardInit => WithinBudget
  <2> SUFFICES ASSUME GuardInit, NEW i \in Ips PROVE Within(wrong[i], View(i))
    BY DEF WithinBudget
  <2>1. wrong[i] = 0 /\ View(i) \in Views
    BY GuardInitHolds, ViewsAreViews DEF GuardInit, GuardIInv
  <2> QED
    BY <2>1, FreshFit
<1>2. GuardIInv /\ GuardIInv' /\ WithinBudget /\ [GuardNext]_guardVars => WithinBudget'
  <2> SUFFICES ASSUME GuardIInv, GuardIInv', WithinBudget, [GuardNext]_guardVars
               PROVE  WithinBudget'
    OBVIOUS
  <2>1. CASE UNCHANGED requests
    <3>1. ASSUME NEW i \in Ips PROVE wrong'[i] = wrong[i] /\ View(i)' = View(i)
      BY <2>1 DEF requests, View, Storing, Past
    <3>2. ASSUME NEW i \in Ips PROVE Within(wrong'[i], View(i)')
      <4>1. Within(wrong[i], View(i))
        BY DEF WithinBudget
      <4> QED
        BY <3>1, <4>1
    <3> QED
      BY <3>2 DEF WithinBudget, Within, Covers, Worth
  <2>2. UNCHANGED requests \/ \E t \in Threads : Step(t)
    BY DEF GuardNext, guardVars, requests, BlockIp, UnblockIp, Read, Set, SettingsPage,
       SetLimit, WriteList, DeleteSetting
  <2> QED
    BY <2>1, <2>2, BudgetKeeps
<1>3. GuardIInv /\ WithinBudget => LockoutComes
  <2> SUFFICES ASSUME GuardIInv, WithinBudget, NEW i \in Ips
               PROVE  wrong[i] <= Failures[<<Cardinality(Threads), MaxAttempts>>]
    BY DEF LockoutComes
  <2>1. wrong[i] \in Nat /\ View(i) \in Views /\ Within(wrong[i], View(i))
    BY ViewsAreViews DEF GuardIInv, GuardTypeOK, WithinBudget
  <2> QED
    BY <2>1, WithinBounds DEF PoolSize
<1> QED
  BY <1>1, <1>2, <1>3, GuardInvariance, PTL DEF GuardSpec
=============================================================================
