------------------------- MODULE ReservationsProofs -------------------------
(***************************************************************************)
(* Theorems about the reservation service in a safe configuration: the     *)
(* hold count, the ledger that the service implements, and payments.       *)
(***************************************************************************)
EXTENDS ReservationsRowProofs

USE DEF Procs, RequestStage, WorkerStage, EndStage

(***************************************************************************)
(* In a safe configuration the hold count is exact and no event is ever    *)
(* oversold.                                                               *)
(***************************************************************************)

(***************************************************************************)
(* Counting spots: a row that becomes live adds exactly its quantity.      *)
(***************************************************************************)
SpotsIn(st, e) == {s \in Reservations \X (1..MaxQuantity) :
                      /\ st[s[1]] \in Live
                      /\ body[s[1]].event_id = e
                      /\ s[2] <= body[s[1]].quantity}

Claim(r) == {r} \X (1..body[r].quantity)

LEMMA SpotsFinite ==
  ASSUME NEW st, NEW e
  PROVE  /\ IsFiniteSet(SpotsIn(st, e))
         /\ Cardinality(SpotsIn(st, e)) \in Nat
<1> DEFINE All == Reservations \X (1..MaxQuantity)
<1>1. IsFiniteSet(1..MaxQuantity)
  <2>1. 1 \in Int /\ MaxQuantity \in Int
    BY DEF MaxQuantity
  <2> QED
    BY <2>1, FS_Interval
<1>2. IsFiniteSet(All)
  BY <1>1, ReservationsFinite, FS_Product
<1>3. SpotsIn(st, e) \in SUBSET All
  BY DEF SpotsIn
<1>4. IsFiniteSet(SpotsIn(st, e))
  BY <1>2, <1>3, FS_Subset
<1> QED
  BY <1>4, FS_CardinalityType

LEMMA ClaimSize ==
  ASSUME body \in [Reservations -> Body], NEW r \in Reservations
  PROVE  /\ IsFiniteSet(Claim(r))
         /\ Cardinality(Claim(r)) = body[r].quantity
         /\ body[r].quantity \in Nat \ {0}
<1> DEFINE q == body[r].quantity
<1>1. q \in Nat \ {0}
  BY BodyType
<1>2. IsFiniteSet(1..q) /\ Cardinality(1..q) = q
  BY <1>1, FS_Interval
<1>3. IsFiniteSet({r}) /\ Cardinality({r}) = 1
  BY FS_Singleton
<1>4. /\ IsFiniteSet({r} \X (1..q))
      /\ Cardinality({r} \X (1..q)) = 1 * q
  BY <1>2, <1>3, FS_Product
<1> QED
  BY <1>1, <1>4 DEF Claim

LEMMA LiveRowAddsClaim ==
  ASSUME body \in [Reservations -> Body], NEW r \in Reservations,
         NEW st \in [Reservations -> Status \cup {"none"}],
         NEW up \in [Reservations -> Status \cup {"none"}],
         st[r] \notin Live, up[r] \in Live,
         \A x \in Reservations : x # r => up[x] = st[x],
         NEW e \in Shows
  PROVE  Cardinality(SpotsIn(up, e)) =
            Cardinality(SpotsIn(st, e)) +
               (IF e = body[r].event_id THEN body[r].quantity ELSE 0)
<1> DEFINE q == body[r].quantity
<1>1. q \in 1..MaxQuantity /\ q \in Nat
  BY BodyType
<1>2. CASE e # body[r].event_id
  <2>1. SpotsIn(up, e) = SpotsIn(st, e)
    BY <1>2 DEF SpotsIn
  <2> QED
    BY <1>2, <2>1, SpotsFinite
<1>3. CASE e = body[r].event_id
  <2>1. Claim(r) \cap SpotsIn(st, e) = {}
    BY DEF Claim, SpotsIn
  <2>2. SpotsIn(up, e) = SpotsIn(st, e) \cup Claim(r)
    <3>1. ASSUME NEW s \in SpotsIn(up, e)
          PROVE  s \in SpotsIn(st, e) \cup Claim(r)
      BY <3>1, <1>1 DEF SpotsIn, Claim, MaxQuantity
    <3>2. SpotsIn(st, e) \subseteq SpotsIn(up, e)
      BY DEF SpotsIn
    <3>3. Claim(r) \subseteq SpotsIn(up, e)
      BY <1>1, <1>3 DEF SpotsIn, Claim, MaxQuantity
    <3> QED
      BY <3>1, <3>2, <3>3
  <2>3. Cardinality(SpotsIn(up, e)) = Cardinality(SpotsIn(st, e))
           + Cardinality(Claim(r)) - Cardinality({})
    BY <2>1, <2>2, SpotsFinite, ClaimSize, FS_Union
  <2> QED
    BY <1>1, <1>3, <2>3, SpotsFinite, ClaimSize, FS_EmptySet
<1> QED
  BY <1>2, <1>3

(***************************************************************************)
(* The hold part under the four kinds of step.  `held' and the rows stay   *)
(* in step because a commit changes both: the spots a row claims are added *)
(* when it becomes pending, and given back by the one process that takes   *)
(* it out of the live statuses.                                            *)
(***************************************************************************)
LEMMA HoldExactIn ==
  /\ HoldExact <=> \A e \in Shows : held[e] = Cardinality(SpotsIn(status, e))
  /\ UNCHANGED body =>
       (HoldExact' <=>
          \A e \in Shows : held'[e] = Cardinality(SpotsIn(status', e)))
<1>1. \A e : Spots(e) = SpotsIn(status, e)
  BY DEF Spots, SpotsIn
<1>2. ASSUME UNCHANGED body
      PROVE  \A e : Spots(e)' = SpotsIn(status', e)
  BY <1>2 DEF Spots, SpotsIn
<1> QED
  BY <1>1, <1>2 DEF HoldExact, SpotsTaken

\* A step that leaves the counts, the rows and the hold locks alone.
LEMMA QuietStepKeepsHolds ==
  ASSUME TypeOK, HoldsInv, UNCHANGED <<body, status, held>>,
         \A r \in Reservations : pc'[r] = "holdAdded" => pc[r] = "holdAdded"
  PROVE  HoldsInv'
<1>1. \A r \in Reservations : r \notin Workers
  BY WorkersApart
<1>2. HoldLocked'
  BY <1>1 DEF HoldsInv, HoldLocked, Fits, ShowOf, QtyOf, RowOf
<1>3. HoldExact'
  BY HoldExactIn DEF HoldsInv
<1>4. HeldUnderCap'
  BY DEF HoldsInv, HeldUnderCap
<1> QED
  BY <1>2, <1>3, <1>4 DEF HoldsInv

\* A row is confirmed: it stays live, so its claim stays as it is.
LEMMA ConfirmKeepsSpots ==
  ASSUME TypeOK, NEW r \in Reservations, status[r] = "pending", UNCHANGED body,
         status' = [status EXCEPT ![r] = "confirmed"], NEW e \in Shows
  PROVE  SpotsIn(status', e) = SpotsIn(status, e)
  BY DEF TypeOK, RowsTypeOK, SpotsIn, Live

LEMMA AddHoldKeepsHolds ==
  ASSUME TypeOK, HoldsInv, NEW r \in Reservations, AddHold(r)
  PROVE  HoldsInv'
<1>1. r \notin Workers
  BY WorkersApart
<1>2. /\ UNCHANGED <<body, status, held>>
      /\ \A s \in Reservations : s # r => pc'[s] = pc[s]
  BY DEF AddHold, Goto, TypeOK, dbVars
<1>3. \A s \in Reservations : s # r /\ pc[s] = "holdAdded"
                                 => ShowOf(s) # ShowOf(r)
  BY DEF AddHold, HoldFree
<1>4. \A s \in Reservations : /\ ShowOf(s)' = ShowOf(s)
                              /\ QtyOf(s)' = QtyOf(s)
  BY <1>2, WorkersApart DEF ShowOf, QtyOf, RowOf
<1>5. HoldLocked'
  BY <1>2, <1>3, <1>4 DEF HoldsInv, HoldLocked, AddHold, Fits
<1>6. HoldExact'
  BY <1>2, HoldExactIn DEF HoldsInv
<1>7. HeldUnderCap'
  BY <1>2 DEF HoldsInv, HeldUnderCap
<1> QED
  BY <1>5, <1>6, <1>7 DEF HoldsInv

LEMMA CommitPendingKeepsHolds ==
  ASSUME TypeOK, RowsInv, HoldsInv, NEW r \in Reservations, CommitPending(r)
  PROVE  HoldsInv'
<1> DEFINE e0 == body[r].event_id
<1> DEFINE q == body[r].quantity
<1>1. /\ body \in [Reservations -> Body]
      /\ status \in [Reservations -> Status \cup {"none"}]
      /\ held \in [Shows -> Nat]
  BY DEF TypeOK, RowsTypeOK
<1>2. e0 \in Shows /\ q \in Nat
  BY <1>1, BodyType
<1>3. ShowOf(r) = e0 /\ QtyOf(r) = q
  BY WorkersApart DEF ShowOf, QtyOf, RowOf
<1>4. /\ UNCHANGED body
      /\ held' = [held EXCEPT ![e0] = @ + q]
      /\ status' = [status EXCEPT ![r] = "pending"]
      /\ pc[r] = "holdAdded" /\ pc' = [pc EXCEPT ![r] = "checkout"]
  BY <1>3 DEF CommitPending, Goto
<1>5. /\ held'[e0] = held[e0] + q
      /\ \A e \in Shows : e # e0 => held'[e] = held[e]
  BY <1>1, <1>2, <1>4
<1>6. /\ status[r] = "none" /\ status'[r] = "pending"
      /\ status' \in [Reservations -> Status \cup {"none"}]
      /\ \A s \in Reservations : s # r => status'[s] = status[s]
  BY <1>1, <1>4 DEF RowsInv, RowFollowsRequest, Status
<1>7. HoldExact'
  <2>1. \A e \in Shows : held'[e] = Cardinality(SpotsIn(status', e))
    <3> SUFFICES ASSUME NEW e \in Shows
                 PROVE  held'[e] = Cardinality(SpotsIn(status', e))
      OBVIOUS
    <3>1. "none" \notin Live /\ "pending" \in Live
      BY DEF Live
    <3>2. Cardinality(SpotsIn(status', e)) =
             Cardinality(SpotsIn(status, e)) + (IF e = e0 THEN q ELSE 0)
      BY <1>1, <1>6, <3>1, LiveRowAddsClaim
    <3>3. held[e] = Cardinality(SpotsIn(status, e)) /\ held[e] \in Nat
      BY <1>1, HoldExactIn DEF HoldsInv
    <3> QED
      BY <1>2, <1>5, <3>2, <3>3
  <2> QED
    BY <1>4, <2>1, HoldExactIn
<1>8. HeldUnderCap'
  <2>1. held[e0] + q <= Cap
    BY <1>3, <1>4 DEF HoldsInv, HoldLocked, Fits
  <2> QED
    BY <1>5, <2>1 DEF HoldsInv, HeldUnderCap
<1>9. HoldLocked'
  <2>1. \A s \in Reservations : ShowOf(s)' = ShowOf(s) /\ QtyOf(s)' = QtyOf(s)
                                 /\ ShowOf(s) \in Shows
    BY <1>1, <1>4, WorkersApart, BodyType DEF ShowOf, QtyOf, RowOf
  <2>2. \A s \in Reservations : pc'[s] = "holdAdded" =>
           s # r /\ pc[s] = "holdAdded"
    BY <1>4 DEF TypeOK
  <2>3. \A s \in Reservations : pc'[s] = "holdAdded" => ShowOf(s) # e0
    BY <1>3, <1>4, <2>2 DEF HoldsInv, HoldLocked
  <2> QED
    BY <1>5, <2>1, <2>2, <2>3 DEF HoldsInv, HoldLocked, Fits
<1> QED
  BY <1>7, <1>8, <1>9 DEF HoldsInv

\* A process takes a pending row out of the live statuses and gives back what
\* the row claimed; the count cannot be short of it.
LEMMA ReleaseKeepsHolds ==
  ASSUME TypeOK, HoldsInv, NEW p \in Procs,
         NEW row \in Reservations, row = RowOf(p),
         status[row] = "pending", Release(p),
         NEW gone \in {"canceled", "expired"},
         status' = [status EXCEPT ![row] = gone],
         UNCHANGED body,
         \A r \in Reservations : pc'[r] = "holdAdded" => pc[r] = "holdAdded"
  PROVE  HoldsInv'
<1> DEFINE e0 == body[row].event_id
<1> DEFINE q == body[row].quantity
<1>1. /\ body \in [Reservations -> Body]
      /\ status \in [Reservations -> Status \cup {"none"}]
      /\ held \in [Shows -> Nat]
  BY DEF TypeOK, RowsTypeOK
<1>2. e0 \in Shows /\ q \in Nat
  BY <1>1, BodyType
<1>3. /\ status' \in [Reservations -> Status \cup {"none"}]
      /\ status'[row] = gone
      /\ \A s \in Reservations : s # row => status'[s] = status[s]
  BY <1>1 DEF Status
<1>4. ASSUME NEW e \in Shows
      PROVE  /\ held[e] = Cardinality(SpotsIn(status', e))
                             + (IF e = e0 THEN q ELSE 0)
             /\ Cardinality(SpotsIn(status', e)) \in Nat
             /\ held[e] \in Nat
  <2>1. status[row] \in Live /\ status'[row] \notin Live
    BY <1>3 DEF Live
  <2>2. \A s \in Reservations : s # row => status[s] = status'[s]
    BY <1>3
  <2>3. Cardinality(SpotsIn(status, e)) =
          Cardinality(SpotsIn(status', e)) + (IF e = e0 THEN q ELSE 0)
    <3> DEFINE Rows == [Reservations -> Status \cup {"none"}]
    <3>1. \A st, up \in Rows :
             /\ st[row] \notin Live
             /\ up[row] \in Live
             /\ \A x \in Reservations : x # row => up[x] = st[x]
             => Cardinality(SpotsIn(up, e)) =
                  Cardinality(SpotsIn(st, e)) + (IF e = e0 THEN q ELSE 0)
      BY <1>1, <1>4, LiveRowAddsClaim
    <3>2. status \in Rows /\ status' \in Rows
      BY <1>1, <1>3
    <3> QED
      BY <2>1, <2>2, <3>1, <3>2
  <2>4. held[e] = Cardinality(SpotsIn(status, e)) /\ held[e] \in Nat
    BY <1>1, <1>4, HoldExactIn DEF HoldsInv
  <2> QED
    BY <2>3, <2>4, SpotsFinite
<1>5. /\ held[e0] = Cardinality(SpotsIn(status', e0)) + q
      /\ Cardinality(SpotsIn(status', e0)) \in Nat
  BY <1>2, <1>4
<1>6. held[e0] >= q
  BY <1>2, <1>5
<1>7. /\ held'[e0] = held[e0] - q
      /\ \A e \in Shows : e # e0 => held'[e] = held[e]
  BY <1>1, <1>2, <1>6 DEF Release, ShowOf, QtyOf
<1>8. HoldExact'
  <2>1. ASSUME NEW e \in Shows
        PROVE  held'[e] = Cardinality(SpotsIn(status', e))
    <3>1. CASE e = e0
      BY <1>2, <1>5, <1>7, <3>1
    <3>2. CASE e # e0
      <4>1. /\ held[e] = Cardinality(SpotsIn(status', e)) + 0
            /\ Cardinality(SpotsIn(status', e)) \in Nat
        BY <1>4, <2>1, <3>2
      <4> QED
        BY <1>7, <2>1, <3>2, <4>1
    <3> QED
      BY <3>1, <3>2
  <2> QED
    BY <2>1, HoldExactIn
<1>9. \A e \in Shows : held'[e] <= held[e]
  BY <1>1, <1>2, <1>7
<1>10. HeldUnderCap'
  BY <1>1, <1>2, <1>6, <1>7, CapPositive DEF HoldsInv, HeldUnderCap
<1>11. HoldLocked'
  <2>1. \A s \in Reservations :
           /\ ShowOf(s)' = ShowOf(s) /\ ShowOf(s) \in Shows
           /\ QtyOf(s)' = QtyOf(s) /\ QtyOf(s) \in Nat
    BY <1>1, WorkersApart, BodyType DEF ShowOf, QtyOf, RowOf
  <2>2. \A e \in Shows : held[e] \in Nat /\ held'[e] \in Int
    BY <1>1, <1>2, <1>7
  <2>3. \A s \in Reservations : pc'[s] = "holdAdded" => Fits(s)'
    BY <1>9, <2>1, <2>2, CapPositive DEF HoldsInv, HoldLocked, Fits
  <2> QED
    BY <2>1, <2>3 DEF HoldsInv, HoldLocked
<1> QED
  BY <1>8, <1>10, <1>11 DEF HoldsInv

LEMMA RequestKeepsHolds ==
  ASSUME TypeOK, RowsInv, HoldsInv, NEW r \in Reservations,
         Request(r) \/ RequestDies(r)
  PROVE  HoldsInv'
<1> USE DEF dbVars, Goto
<1>1. CASE InsertHold(r)
  BY <1>1, QuietStepKeepsHolds DEF InsertHold, TypeOK
<1>2. CASE AddHold(r)
  BY <1>2, AddHoldKeepsHolds
<1>3. CASE Refuse(r)
  BY <1>3, QuietStepKeepsHolds DEF Refuse, TypeOK
<1>4. CASE CommitPending(r)
  BY <1>4, CommitPendingKeepsHolds
<1>5. CASE CheckoutOpens(r)
  BY <1>5, QuietStepKeepsHolds DEF CheckoutOpens, TypeOK
<1>6. CASE \E f \in Failures : CheckoutFails(r, f)
  <2>1. UNCHANGED dbVars /\ (UNCHANGED pc \/ Goto(r, "canceling"))
    BY <1>6 DEF CheckoutFails
  <2> QED
    BY <2>1, QuietStepKeepsHolds DEF TypeOK
<1>7. CASE AttachSession(r)
  BY <1>7, QuietStepKeepsHolds DEF AttachSession, TypeOK
<1>8. CASE WriteRow(r)
  BY <1>8, QuietStepKeepsHolds DEF WriteRow, TypeOK
<1>9. CASE CommitCancel(r)
  <2>1. RowOf(r) = r
    BY WorkersApart DEF RowOf
  <2>2. status[r] = "pending"
    BY <1>9 DEF CommitCancel, RowsInv, RowFollowsRequest
  <2>3. \A s \in Reservations : pc'[s] = "holdAdded" => pc[s] = "holdAdded"
    BY <1>9 DEF CommitCancel, TypeOK
  <2> QED
    BY <1>9, <2>1, <2>2, <2>3, ReleaseKeepsHolds DEF CommitCancel
<1>10. CASE RequestDies(r)
  BY <1>10, QuietStepKeepsHolds DEF RequestDies, TypeOK
<1> QED
  BY <1>1, <1>2, <1>3, <1>4, <1>5, <1>6, <1>7, <1>8, <1>9, <1>10 DEF Request

LEMMA WebhookKeepsHolds ==
  ASSUME Safe, TypeOK, RowsInv, HoldsInv, NEW w \in Workers,
         Webhook(w) \/ WebhookDies(w)
  PROVE  HoldsInv'
<1> USE DEF dbVars, Goto
<1>1. \A r \in Reservations : pc'[r] = pc[r]
  <2>1. pc' = pc \/ \E s : pc' = [pc EXCEPT ![w] = s]
    BY DEF Webhook, WebhookDies, ApplyWebhook, DuplicateWebhook, Transition,
           CommitIgnored, CommitConfirm, WriteRow, CommitExpire, CommitWebhook
  <2> QED
    BY <2>1, WorkersApart DEF TypeOK
<1>2. CASE UNCHANGED <<body, status, held>>
  BY <1>1, <1>2, QuietStepKeepsHolds
<1>3. CASE CommitConfirm(w)
  <2>1. pc[w] # "idle" /\ Moving(w)
    BY <1>3 DEF CommitConfirm, Moving
  <2>2. RowOf(w) \in Reservations /\ status[RowOf(w)] = "pending"
    BY <2>1, JobFacts DEF RowsInv, MoversSeePending
  <2>3. UNCHANGED <<body, held>>
    BY <1>3 DEF CommitConfirm, CommitWebhook
  <2>4. \A e \in Shows : SpotsIn(status', e) = SpotsIn(status, e)
    BY <1>3, <2>2, <2>3, ConfirmKeepsSpots DEF CommitConfirm
  <2>5. HoldExact'
    BY <2>3, <2>4, HoldExactIn DEF HoldsInv
  <2>6. HoldLocked'
    BY <1>1, <2>3, WorkersApart
       DEF HoldsInv, HoldLocked, Fits, ShowOf, QtyOf, RowOf
  <2> QED
    BY <2>3, <2>5, <2>6 DEF HoldsInv, HeldUnderCap
<1>4. CASE CommitExpire(w)
  <2>1. pc[w] # "idle" /\ Moving(w)
    BY <1>4 DEF CommitExpire, Moving
  <2>2. RowOf(w) \in Reservations /\ status[RowOf(w)] = "pending"
    BY <2>1, JobFacts DEF RowsInv, MoversSeePending
  <2>3. UNCHANGED body
    BY <1>4 DEF CommitExpire, CommitWebhook
  <2> QED
    BY <1>1, <1>4, <2>2, <2>3, ReleaseKeepsHolds DEF CommitExpire
<1>5. UNCHANGED <<body, status, held>> \/ CommitConfirm(w) \/ CommitExpire(w)
  BY DEF Webhook, WebhookDies, ApplyWebhook, DuplicateWebhook, Transition,
         CommitIgnored, WriteRow, CommitWebhook
<1> QED
  BY <1>2, <1>3, <1>4, <1>5

LEMMA StripeKeepsHolds ==
  ASSUME TypeOK, HoldsInv, NEW k \in SessionKey,
         CustomerPays(k) \/ SessionExpires(k) \/ StripeSendsExtra(k)
  PROVE  HoldsInv'
<1>1. UNCHANGED <<body, status, held, pc>>
  BY DEF CustomerPays, SessionExpires, StripeSendsExtra, dbVars
<1> QED
  BY <1>1, QuietStepKeepsHolds

LEMMA InitHolds == Init => HoldsInv
<1> SUFFICES ASSUME Init PROVE HoldsInv
  OBVIOUS
<1>1. /\ \A r \in Reservations : pc[r] = "received" /\ status[r] = "none"
      /\ \A e \in Shows : held[e] = 0
  BY WorkersApart DEF Init, RowsInit
<1>2. \A e \in Shows : Spots(e) = {}
  BY <1>1 DEF Spots, Live
<1>3. HoldExact
  BY <1>1, <1>2, FS_EmptySet DEF HoldExact, SpotsTaken
<1> QED
  BY <1>1, <1>3, CapPositive DEF HoldsInv, HoldLocked, HeldUnderCap

LEMMA NextHolds ==
  Safe /\ TypeOK /\ RowsInv /\ HoldsInv /\ [Next]_vars => HoldsInv'
<1>1. ASSUME TypeOK, HoldsInv, UNCHANGED vars
      PROVE  HoldsInv'
  <2>1. UNCHANGED <<body, status, held, pc>>
    BY <1>1 DEF vars, dbVars
  <2> QED
    BY <1>1, <2>1, QuietStepKeepsHolds
<1> QED
  BY <1>1, RequestKeepsHolds, WebhookKeepsHolds, StripeKeepsHolds DEF Next

(***************************************************************************)
(* The invariant of the reservation service holds in every safe            *)
(* configuration.                                                          *)
(***************************************************************************)
THEOREM InvariantHolds ==
  ASSUME Safe
  PROVE  Spec => []IInv
<1>1. Init => IInv
  BY InitType, InitRows, InitHolds DEF IInv
<1>2. IInv /\ [Next]_vars => IInv'
  BY NextType, NextRows, NextHolds DEF IInv
<1> QED
  BY <1>1, <1>2, PTL DEF Spec

(***************************************************************************)
(* event_holds counts exactly the pending and confirmed spots.             *)
(***************************************************************************)
THEOREM HoldIsExact ==
  ASSUME Safe
  PROVE  Spec => []HoldExact
<1>1. IInv => HoldExact
  BY DEF IInv, HoldsInv
<1> QED
  BY <1>1, InvariantHolds, PTL

(***************************************************************************)
(* No event is ever oversold: the rows, counted one by one, stay under the *)
(* cap however the requests interleave.                                    *)
(***************************************************************************)
THEOREM NeverOversold ==
  ASSUME Safe
  PROVE  Spec => []NoOversell
<1>1. IInv => NoOversell
  BY DEF IInv, HoldsInv, HoldExact, HeldUnderCap, NoOversell
<1> QED
  BY <1>1, InvariantHolds, PTL

-----------------------------------------------------------------------------
(***************************************************************************)
(* In a safe configuration the reservation service implements the ledger   *)
(* of README.md's state machine.                                           *)
(***************************************************************************)

LEMMA LedgerCountsSpots ==
  \A e : Ledger!SpotsTaken(e) = SpotsTaken(e)
<1>1. \A S : Ledger!Cardinality(S) = Cardinality(S)
  BY DEF Ledger!Cardinality, Cardinality
<1>2. \A e : Ledger!Spots(e) = Spots(e)
  BY DEF Ledger!Spots, Spots, Ledger!Live, Live,
         Ledger!MaxQuantity, MaxQuantity
<1> QED
  BY <1>1, <1>2 DEF Ledger!SpotsTaken, SpotsTaken

LEMMA InitIsLedgerInit == Init => Ledger!RowsInit
  BY DEF Init, RowsInit, Ledger!RowsInit, Body, Ledger!Body

LEMMA RequestIsLedgerStep ==
  ASSUME IInv, NEW r \in Reservations, Request(r) \/ RequestDies(r)
  PROVE  Ledger!Next \/ UNCHANGED <<body, status>>
<1> USE DEF dbVars, Ledger!Next, Ledger!Move
<1>1. CASE CommitPending(r)
  <2>1. status[r] = "none"
    BY <1>1 DEF CommitPending, IInv, RowsInv, RowFollowsRequest
  <2>2. SpotsTaken(body[r].event_id) + body[r].quantity <= Cap
    <3>1. held[ShowOf(r)] + QtyOf(r) <= Cap
      BY <1>1 DEF CommitPending, IInv, HoldsInv, HoldLocked, Fits
    <3>2. ShowOf(r) = body[r].event_id /\ QtyOf(r) = body[r].quantity
      BY WorkersApart DEF ShowOf, QtyOf, RowOf
    <3>3. ShowOf(r) \in Shows
      BY <3>2, BodyType DEF IInv, TypeOK, RowsTypeOK
    <3> QED
      BY <3>1, <3>2, <3>3 DEF IInv, HoldsInv, HoldExact
  <2>3. Ledger!Reserve(r)
    BY <1>1, <2>1, <2>2, LedgerCountsSpots DEF CommitPending, Ledger!Reserve
  <2> QED
    BY <2>3
<1>2. CASE CommitCancel(r)
  <2>1. status[r] = "pending"
    BY <1>2 DEF CommitCancel, IInv, RowsInv, RowFollowsRequest
  <2> QED
    BY <1>2, <2>1 DEF CommitCancel, Ledger!Cancel
<1>3. CASE ~CommitPending(r) /\ ~CommitCancel(r)
  BY <1>3 DEF Request, RequestDies, InsertHold, AddHold, Refuse,
              CheckoutOpens, CheckoutFails, AttachSession, WriteRow
<1> QED
  BY <1>1, <1>2, <1>3

LEMMA WebhookIsLedgerStep ==
  ASSUME IInv, NEW w \in Workers, Webhook(w) \/ WebhookDies(w)
  PROVE  Ledger!Next \/ UNCHANGED <<body, status>>
<1> USE DEF dbVars, Ledger!Next, Ledger!Move
<1> DEFINE row == RowOf(w)
<1>1. ASSUME Moving(w)
      PROVE  row \in Reservations /\ status[row] = "pending"
  BY <1>1, JobFacts DEF IInv, RowsInv, MoversSeePending, Moving
<1>2. CASE CommitConfirm(w)
  <2>1. Moving(w)
    BY <1>2 DEF CommitConfirm, Moving
  <2> QED
    BY <1>1, <1>2, <2>1 DEF CommitConfirm, CommitWebhook, Ledger!Confirm
<1>3. CASE CommitExpire(w)
  <2>1. Moving(w)
    BY <1>3 DEF CommitExpire, Moving
  <2> QED
    BY <1>1, <1>3, <2>1 DEF CommitExpire, CommitWebhook, Ledger!Expire
<1>4. CASE ~CommitConfirm(w) /\ ~CommitExpire(w)
  BY <1>4 DEF Webhook, WebhookDies, ApplyWebhook, DuplicateWebhook,
              Transition, CommitIgnored, WriteRow, CommitWebhook
<1> QED
  BY <1>2, <1>3, <1>4

(***************************************************************************)
(* Every behaviour of the service, with its locks, retries, redeliveries   *)
(* and crashes, is a behaviour of the ledger: a reservation is made only   *)
(* under the cap, and only a pending one moves, once.                      *)
(***************************************************************************)
THEOREM ServiceImplementsLedger ==
  ASSUME Safe
  PROVE  Spec => ImplementsLedger
<1>1. Init => Ledger!RowsInit
  BY InitIsLedgerInit
<1>2. IInv /\ [Next]_vars => [Ledger!Next]_(Ledger!vars)
  <2>1. ASSUME IInv, Next
        PROVE  Ledger!Next \/ UNCHANGED <<body, status>>
    <3>1. ASSUME NEW k \in SessionKey,
                 CustomerPays(k) \/ SessionExpires(k) \/ StripeSendsExtra(k)
          PROVE  UNCHANGED <<body, status>>
      BY <3>1 DEF CustomerPays, SessionExpires, StripeSendsExtra, dbVars
    <3> QED
      BY <2>1, <3>1, RequestIsLedgerStep, WebhookIsLedgerStep DEF Next
  <2> QED
    BY <2>1 DEF vars, dbVars, Ledger!vars
<1> QED
  BY <1>1, <1>2, InvariantHolds, PTL DEF Spec, ImplementsLedger, Ledger!Spec

LEMMA ConfirmedStep ==
  ASSUME IInv, [Next]_vars, NEW r \in Reservations, status[r] = "confirmed"
  PROVE  status'[r] = "confirmed"
<1>1. ASSUME Ledger!Next
      PROVE  status'[r] = "confirmed"
  <2>1. status \in [Reservations -> Status \cup {"none"}]
    BY DEF IInv, TypeOK, RowsTypeOK
  <2>2. PICK s \in Reservations : status[s] \in {"none", "pending"} /\
                \E to : status' = [status EXCEPT ![s] = to]
    BY <1>1 DEF Ledger!Next, Ledger!Reserve, Ledger!Confirm, Ledger!Expire,
                Ledger!Cancel, Ledger!Move
  <2> QED
    BY <2>1, <2>2
<1>2. ASSUME NEW k \in SessionKey,
             CustomerPays(k) \/ SessionExpires(k) \/ StripeSendsExtra(k)
      PROVE  UNCHANGED status
  BY <1>2 DEF CustomerPays, SessionExpires, StripeSendsExtra, dbVars
<1>3. Ledger!Next \/ UNCHANGED status
  BY <1>2, RequestIsLedgerStep, WebhookIsLedgerStep DEF Next, vars, dbVars
<1> QED
  BY <1>1, <1>3

(***************************************************************************)
(* A confirmed reservation is never undone, in a safe configuration.       *)
(***************************************************************************)
THEOREM PaymentIsNeverUndone ==
  ASSUME Safe
  PROVE  Spec => ConfirmedStays
<1>1. ASSUME IInv, [Next]_vars
      PROVE  [\A r \in Reservations :
                 status[r] = "confirmed" => status'[r] = "confirmed"]_vars
  BY <1>1, ConfirmedStep
<1> QED
  BY <1>1, InvariantHolds, PTL DEF Spec, ConfirmedStays

-----------------------------------------------------------------------------
(***************************************************************************)
(* Sessions and notices, in every configuration, safe or not: whatever the *)
(* database, however many events Stripe makes of one thing, and although a *)
(* session may expire while the request that opened it still runs.         *)
(***************************************************************************)
LEMMA HandledTypes == DOMAIN Handled = {"completed", "expired"}
  BY DEF Handled

(***************************************************************************)
(* What a step of a delivery can do: to the row it works on, to its own    *)
(* stage, and to the notices recorded and answered.                        *)
(***************************************************************************)
MovesRow(w) ==
    \/ /\ pc[w] = "confirming"
       /\ status' = [status EXCEPT ![RowOf(w)] = "confirmed"]
    \/ /\ pc[w] = "rowWritten"
       /\ status' = [status EXCEPT ![RowOf(w)] = "expired"]

LEMMA WebhookEffect ==
  ASSUME TypeOK, NEW w \in Workers, Webhook(w) \/ WebhookDies(w)
  PROVE  /\ UNCHANGED <<body, session, sent>>
         /\ pc' = [pc EXCEPT ![w] = pc'[w]]
         /\ job' = [job EXCEPT ![w] = job'[w]]
         /\ pc'[w] # "idle" =>
               job'[w] \in sent \/ (pc[w] # "idle" /\ UNCHANGED job)
         /\ UNCHANGED status \/ MovesRow(w)
         /\ \/ pc'[w] \in {"idle", "recorded"}
            \/ /\ pc[w] = "recorded"
               /\ pc'[w] = Verdict(job[w])
               /\ UNCHANGED <<job, status>>
            \/ /\ pc[w] = "expiring"
               /\ pc'[w] = "rowWritten"
               /\ UNCHANGED <<job, status>>
         /\ \/ UNCHANGED <<processed, status>> /\ acked' \subseteq acked \cup processed
            \/ /\ processed' = processed \cup {job[w]}
               /\ acked' \subseteq acked \cup {job[w]}
               /\ pc[w] = "ignoring" \/ MovesRow(w)
<1> USE WorkersApart DEF TypeOK, dbVars, stripeVars, Goto, MovesRow, Answer
<1>1. CASE \E n \in Notice : ApplyWebhook(w, n)
  BY <1>1 DEF ApplyWebhook
<1>2. CASE \E n \in Notice : DuplicateWebhook(w, n)
  <2>1. PICK n \in Notice : DuplicateWebhook(w, n)
    BY <1>2
  <2> QED
    BY <2>1 DEF DuplicateWebhook
<1>3. CASE Transition(w)
  BY <1>3 DEF Transition
<1>4. CASE WriteRow(w)
  BY <1>4 DEF WriteRow
<1>5. CASE WebhookDies(w)
  BY <1>5 DEF WebhookDies
<1>6. CASE CommitIgnored(w)
  BY <1>6 DEF CommitIgnored, CommitWebhook
<1>7. CASE CommitConfirm(w)
  BY <1>7 DEF CommitConfirm, CommitWebhook
<1>8. CASE CommitExpire(w)
  BY <1>8 DEF CommitExpire, CommitWebhook
<1> QED
  BY <1>1, <1>2, <1>3, <1>4, <1>5, <1>6, <1>7, <1>8 DEF Webhook

OneKey == \A k \in SessionKey :
              session[k] # "none" => k = IdempotencyKey(k[1], 0)

LEMMA OneKeyNext == TypeOK /\ OneKey /\ [Next]_vars => OneKey'
<1> SUFFICES ASSUME TypeOK, OneKey, [Next]_vars, NEW k \in SessionKey,
                    session'[k] # "none", session[k] = "none"
             PROVE  k = IdempotencyKey(k[1], 0)
  BY DEF OneKey, IdempotencyKey
<1>1. session \in [SessionKey -> {"none", "open", "complete", "expired"}]
  BY DEF TypeOK, StripeTypeOK
<1>2. ASSUME NEW r \in Reservations, Request(r) \/ RequestDies(r)
      PROVE  UNCHANGED session \/ OpenSession(IdempotencyKey(r, tries[r]))
  BY <1>2 DEF Request, RequestDies, InsertHold, AddHold, Refuse, CommitPending,
     CheckoutOpens, CheckoutFails, AttachSession, WriteRow, CommitCancel,
     stripeVars
<1>3. CASE \E r \in Reservations : Request(r) \/ RequestDies(r)
  <2>1. PICK r \in Reservations : OpenSession(IdempotencyKey(r, tries[r]))
    BY <1>2, <1>3
  <2> QED
    BY <1>1, <2>1 DEF OpenSession, IdempotencyKey
<1>4. CASE \E w \in Workers : Webhook(w) \/ WebhookDies(w)
  BY <1>4, WebhookEffect
<1>5. CASE \E l \in SessionKey :
              CustomerPays(l) \/ SessionExpires(l) \/ StripeSendsExtra(l)
  BY <1>1, <1>5 DEF CustomerPays, SessionExpires, StripeSendsExtra, Pay,
     ExpireSession, SendExtra
<1>6. CASE UNCHANGED vars
  BY <1>6 DEF vars, stripeVars
<1> QED
  BY <1>3, <1>4, <1>5, <1>6 DEF Next

(***************************************************************************)
(* Stripe holds at most one session for a reservation, however often the   *)
(* Checkout call is retried: nobody can pay for it twice.                  *)
(***************************************************************************)
THEOREM NobodyPaysTwice == Spec => []OneSession
<1>1. Init => OneKey
  BY DEF Init, StripeInit, OneKey
<1>2. OneKey => OneSession
  BY DEF OneKey, OneSession, IdempotencyKey
<1> QED
  BY <1>1, <1>2, OneKeyNext, TypeCorrect, PTL DEF Spec

(***************************************************************************)
(* What a step of a request does to its row, whatever others did to it in  *)
(* the meantime.                                                           *)
(***************************************************************************)
LEMMA RequestMoves ==
  ASSUME TypeOK, RowsComeFirst, NEW r \in Reservations,
         Request(r) \/ RequestDies(r)
  PROVE  /\ UNCHANGED <<body, sent, acked, processed, job>>
         /\ pc' = [pc EXCEPT ![r] = pc'[r]]
         /\ status' = [status EXCEPT ![r] = status'[r]]
         /\ pc'[r] \in BeforeRow => status'[r] = "none"
         /\ pc'[r] \in WithRow => status'[r] # "none"
         /\ status'[r] = "none" => status[r] = "none"
         /\ Settled(r) => Settled(r)'
         /\ \/ UNCHANGED session
            \/ status[r] # "none" /\ OpenSession(IdempotencyKey(r, tries[r]))
<1> USE WorkersApart DEF TypeOK, RowsTypeOK, RowsComeFirst, dbVars, stripeVars,
        Goto, Status, BeforeRow, WithRow, Settled
<1>1. CASE InsertHold(r) \/ AddHold(r) \/ Refuse(r)
  BY <1>1 DEF InsertHold, AddHold, Refuse
<1>2. CASE CommitPending(r)
  BY <1>2 DEF CommitPending
<1>3. CASE CheckoutOpens(r)
  BY <1>3 DEF CheckoutOpens
<1>4. CASE \E f \in Failures : CheckoutFails(r, f)
  <2>1. PICK f \in Failures : CheckoutFails(r, f)
    BY <1>4
  <2>2. /\ pc[r] = "checkout"
        /\ OpenSession(IdempotencyKey(r, tries[r])) \/ UNCHANGED session
        /\ UNCHANGED pc \/ Goto(r, "canceling")
        /\ UNCHANGED <<dbVars, sent, acked, job>>
    BY <2>1 DEF CheckoutFails
  <2> QED
    BY <2>2
<1>5. CASE AttachSession(r) \/ WriteRow(r)
  BY <1>5 DEF AttachSession, WriteRow
<1>6. CASE CommitCancel(r)
  BY <1>6 DEF CommitCancel
<1>7. CASE RequestDies(r)
  BY <1>7 DEF RequestDies
<1> QED
  BY <1>1, <1>2, <1>3, <1>4, <1>5, <1>6, <1>7 DEF Request

LEMMA RequestKeepsNotices ==
  ASSUME TypeOK, NoticeInv, NEW r \in Reservations, Request(r) \/ RequestDies(r)
  PROVE  NoticeInv'
<1>1. /\ UNCHANGED <<body, sent, acked, processed, job>>
      /\ pc' = [pc EXCEPT ![r] = pc'[r]]
      /\ status' = [status EXCEPT ![r] = status'[r]]
      /\ pc'[r] \in BeforeRow => status'[r] = "none"
      /\ pc'[r] \in WithRow => status'[r] # "none"
      /\ status'[r] = "none" => status[r] = "none"
      /\ Settled(r) => Settled(r)'
      /\ \/ UNCHANGED session
         \/ status[r] # "none" /\ OpenSession(IdempotencyKey(r, tries[r]))
  BY RequestMoves DEF NoticeInv
<1>2. /\ pc \in [Procs -> RequestStage \cup WorkerStage]
      /\ status \in [Reservations -> Status \cup {"none"}]
      /\ session \in [SessionKey -> {"none", "open", "complete", "expired"}]
      /\ sent \subseteq Notice /\ processed \subseteq Notice
  BY DEF TypeOK, RowsTypeOK, StripeTypeOK
<1>3. /\ \A s \in Reservations : s # r => /\ pc'[s] = pc[s]
                                         /\ status'[s] = status[s]
      /\ \A w \in Workers : pc'[w] = pc[w]
  BY <1>1, <1>2, WorkersApart
<1>4. \A s \in Reservations : Settled(s) => Settled(s)'
  BY <1>1, <1>3 DEF Settled
<1>5. \A k \in SessionKey :
         \/ session'[k] = session[k]
         \/ k[1] = r /\ status[r] # "none" /\ session'[k] # "none"
  BY <1>1, <1>2 DEF OpenSession, IdempotencyKey
<1>6. RowsComeFirst'
  <2>1. ASSUME NEW k \in SessionKey, session'[k] # "none"
        PROVE  status'[k[1]] # "none"
    <3>1. k[1] \in Reservations
      BY DEF SessionKey
    <3>2. status[k[1]] # "none"
      BY <1>5, <2>1 DEF NoticeInv, RowsComeFirst
    <3> QED
      BY <1>1, <1>3, <3>1, <3>2
  <2> QED
    BY <1>1, <1>3, <2>1 DEF NoticeInv, RowsComeFirst
<1>7. NoticesOfSessions'
  <2>1. \A n \in sent : n.key \in SessionKey
    BY <1>2, NoticeKeyType
  <2> QED
    BY <1>1, <1>3, <1>5, <2>1 DEF NoticeInv, NoticesOfSessions
<1>8. IgnoredIsSettled'
  <2> SUFFICES ASSUME NEW w \in Workers, pc[w] = "ignoring",
                      job[w].type \in DOMAIN Handled
               PROVE  Settled(RowOf(w))'
    BY <1>1, <1>3 DEF IgnoredIsSettled, Handled
  <2>1. job[w] \in Notice
    BY DEF TypeOK
  <2>2. RowOf(w) \in Reservations /\ Settled(RowOf(w)) /\ RowOf(w)' = RowOf(w)
    BY <1>1, <2>1, NoticeKeyType DEF NoticeInv, IgnoredIsSettled, RowOf
  <2> QED
    BY <1>4, <2>2 DEF Settled
<1>9. AnsweredIsApplied'
  <2>1. \A n \in processed : n.key[1] \in Reservations
    BY <1>2, NoticeKeyType
  <2> QED
    BY <1>1, <1>4, <2>1 DEF NoticeInv, AnsweredIsApplied, Settled, Handled
<1> QED
  BY <1>6, <1>7, <1>8, <1>9 DEF NoticeInv

\* A delivery that ignores a notice it handles has read a settled row.
LEMMA VerdictIgnores ==
  ASSUME NEW n, n.type \in DOMAIN Handled, status[n.key[1]] # "none",
         Verdict(n) = "ignoring"
  PROVE  Settled(n.key[1])
  BY HandledTypes DEF Verdict, Handled, Settled

LEMMA WebhookKeepsNotices ==
  ASSUME TypeOK, NoticeInv, NEW w \in Workers, Webhook(w) \/ WebhookDies(w)
  PROVE  NoticeInv'
<1> DEFINE row == RowOf(w)
<1>1. /\ UNCHANGED <<body, session, sent>>
      /\ pc' = [pc EXCEPT ![w] = pc'[w]]
      /\ job' = [job EXCEPT ![w] = job'[w]]
      /\ UNCHANGED status \/ MovesRow(w)
      /\ \/ pc'[w] \in {"idle", "recorded"}
         \/ /\ pc[w] = "recorded"
            /\ pc'[w] = Verdict(job[w])
            /\ UNCHANGED <<job, status>>
         \/ /\ pc[w] = "expiring"
            /\ pc'[w] = "rowWritten"
            /\ UNCHANGED <<job, status>>
      /\ \/ UNCHANGED <<processed, status>> /\ acked' \subseteq acked \cup processed
         \/ /\ processed' = processed \cup {job[w]}
            /\ acked' \subseteq acked \cup {job[w]}
            /\ pc[w] = "ignoring" \/ MovesRow(w)
  BY WebhookEffect
<1>2. /\ pc \in [Procs -> RequestStage \cup WorkerStage]
      /\ job \in [Workers -> Notice \cup {NoNotice}]
      /\ status \in [Reservations -> Status \cup {"none"}]
      /\ sent \subseteq Notice /\ processed \subseteq Notice
  BY DEF TypeOK, RowsTypeOK, StripeTypeOK
<1>3. /\ \A v \in Workers : v # w => /\ pc'[v] = pc[v] /\ job'[v] = job[v]
                                    /\ RowOf(v)' = RowOf(v)
      /\ \A r \in Reservations : pc'[r] = pc[r]
  BY <1>1, <1>2, WorkersApart DEF RowOf
<1>4. ASSUME NEW v \in Workers, pc[v] # "idle"
      PROVE  /\ job[v] \in Notice /\ RowOf(v) = job[v].key[1]
             /\ RowOf(v) \in Reservations
             /\ status[RowOf(v)] # "none"
  <2>1. job[v] \in Notice /\ job[v] \in sent
    BY <1>4 DEF TypeOK, NoticeInv, NoticesOfSessions
  <2>2. /\ job[v].key \in SessionKey /\ job[v].key[1] \in Reservations
        /\ session[job[v].key] # "none"
    BY <2>1, NoticeKeyType DEF NoticeInv, NoticesOfSessions
  <2> QED
    BY <2>1, <2>2 DEF NoticeInv, RowsComeFirst, RowOf
<1>5. ASSUME MovesRow(w)
      PROVE  /\ pc[w] # "idle"
             /\ row \in Reservations /\ status[row] # "none"
             /\ status'[row] \notin {"none", "pending"}
             /\ \A r \in Reservations : r # row => status'[r] = status[r]
  <2>1. pc[w] # "idle"
    BY <1>5 DEF MovesRow
  <2>2. row \in Reservations /\ status[row] # "none"
    BY <2>1, <1>4
  <2> HIDE DEF row
  <2>3. \E t \in {"confirmed", "expired"} : status' = [status EXCEPT ![row] = t]
    BY <1>5 DEF MovesRow, row
  <2> QED
    BY <1>2, <2>1, <2>2, <2>3
<1>6. ASSUME NEW r \in Reservations
      PROVE  /\ status[r] \notin {"none", "pending"}
                   => status'[r] \notin {"none", "pending"}
             /\ status[r] = "none" <=> status'[r] = "none"
  <2> HIDE DEF row
  <2> QED
    BY <1>1, <1>5
<1>7. RowsComeFirst'
  <2>1. \A k \in SessionKey : k[1] \in Reservations
    BY DEF SessionKey
  <2> QED
    BY <1>1, <1>3, <1>6, <2>1 DEF NoticeInv, RowsComeFirst
<1>8. NoticesOfSessions'
  <2>1. pc'[w] # "idle" => job'[w] \in sent
    BY WebhookEffect DEF NoticeInv, NoticesOfSessions
  <2> QED
    BY <1>1, <1>3, <2>1 DEF NoticeInv, NoticesOfSessions
<1>9. IgnoredIsSettled'
  <2> SUFFICES ASSUME NEW v \in Workers,
                      pc'[v] = "ignoring", job'[v].type \in DOMAIN Handled
               PROVE  Settled(RowOf(v))'
    BY DEF IgnoredIsSettled, Handled
  <2>1. CASE v # w
    <3>1. Settled(RowOf(v)) /\ RowOf(v) \in Reservations
      BY <2>1, <1>3, <1>4 DEF NoticeInv, IgnoredIsSettled
    <3> QED
      BY <3>1, <2>1, <1>3, <1>6 DEF Settled
  <2>2. CASE v = w
    <3>1. /\ pc[w] = "recorded" /\ Verdict(job[w]) = "ignoring"
          /\ UNCHANGED <<job, status>>
      BY <2>2, <1>1
    <3>2. Settled(row)
      BY <3>1, <2>2, <1>4, VerdictIgnores
    <3> QED
      BY <3>1, <3>2, <2>2 DEF Settled, RowOf
  <2> QED
    BY <2>1, <2>2
<1>10. AnsweredIsApplied'
  <2>1. acked' \subseteq processed'
    BY <1>1 DEF NoticeInv, AnsweredIsApplied
  <2>2. ASSUME NEW n \in processed', n.type \in DOMAIN Handled
        PROVE  Settled(n.key[1])'
    <3>1. CASE n \in processed
      <4>1. n.key[1] \in Reservations /\ status[n.key[1]] \notin {"none", "pending"}
        BY <2>2, <3>1, <1>2, NoticeKeyType
           DEF NoticeInv, AnsweredIsApplied, Handled
      <4> QED
        BY <4>1, <1>6 DEF Settled
    <3>2. CASE n \notin processed
      <4>1. n = job[w] /\ (pc[w] = "ignoring" \/ MovesRow(w))
        BY <3>2, <1>1
      <4>2. pc[w] # "idle"
        BY <4>1, <1>5
      <4>3. n.key[1] = row /\ row \in Reservations
        BY <4>1, <4>2, <1>4
      <4>4. CASE pc[w] = "ignoring"
        <5>1. status[row] \notin {"none", "pending"}
          BY <2>2, <4>1, <4>4 DEF NoticeInv, IgnoredIsSettled, Handled, Settled
        <5> HIDE DEF row
        <5> QED
          BY <5>1, <4>3, <1>6 DEF Settled
      <4>5. CASE MovesRow(w)
        BY <4>3, <4>5, <1>5 DEF Settled
      <4> QED
        BY <4>1, <4>4, <4>5
    <3> QED
      BY <3>1, <3>2
  <2> QED
    BY <2>1, <2>2 DEF AnsweredIsApplied, Settled, Handled
<1> QED
  BY <1>7, <1>8, <1>9, <1>10 DEF NoticeInv

LEMMA StripeKeepsNotices ==
  ASSUME TypeOK, NoticeInv, NEW k \in SessionKey,
         CustomerPays(k) \/ SessionExpires(k) \/ StripeSendsExtra(k)
  PROVE  NoticeInv'
<1>1. UNCHANGED <<body, status, processed, pc, job, acked>>
  BY DEF CustomerPays, SessionExpires, StripeSendsExtra, Pay, ExpireSession,
         SendExtra, dbVars
<1>2. /\ session \in [SessionKey -> {"none", "open", "complete", "expired"}]
      /\ sent \subseteq Notice
  BY DEF TypeOK, StripeTypeOK
<1>3. /\ session[k] # "none"
      /\ \A l \in SessionKey : session'[l] = "none" <=> session[l] = "none"
      /\ \E type \in {"completed", "expired", "other"} : Notify(type, k)
  BY <1>2, ExtraTypes DEF CustomerPays, SessionExpires, StripeSendsExtra, Pay,
     ExpireSession, SendExtra
<1>4. sent \subseteq sent' /\ \A n \in sent' : n \in sent \/ n.key = k
  BY <1>3 DEF Notify
<1>5. NoticesOfSessions'
  <2>1. \A n \in sent' : n.key \in SessionKey /\ session[n.key] # "none"
    BY <1>2, <1>3, <1>4, NoticeKeyType DEF NoticeInv, NoticesOfSessions
  <2> QED
    BY <1>1, <1>3, <1>4, <2>1 DEF NoticeInv, NoticesOfSessions
<1>6. RowsComeFirst'
  BY <1>1, <1>3 DEF NoticeInv, RowsComeFirst
<1>7. IgnoredIsSettled' /\ AnsweredIsApplied'
  BY <1>1 DEF NoticeInv, IgnoredIsSettled, AnsweredIsApplied, Settled, RowOf,
              Handled
<1> QED
  BY <1>5, <1>6, <1>7 DEF NoticeInv

(***************************************************************************)
(* A notice that was answered with 2xx is recorded, and a recorded notice  *)
(* has settled its reservation: a failure between the two loses nothing,   *)
(* whatever the database and whatever Stripe sends.                        *)
(***************************************************************************)
THEOREM NoNoticeIsLost == Spec => []AnsweredIsApplied
<1>1. Init => NoticeInv
  <2> SUFFICES ASSUME Init PROVE NoticeInv
    OBVIOUS
  <2>1. /\ \A w \in Workers : pc[w] = "idle"
        /\ \A r \in Reservations : pc[r] = "received" /\ status[r] = "none"
        /\ \A k \in SessionKey : session[k] = "none"
        /\ acked = {} /\ sent = {} /\ processed = {}
    BY WorkersApart DEF Init, StripeInit, RowsInit
  <2> QED
    BY <2>1 DEF NoticeInv, RowsComeFirst, NoticesOfSessions, IgnoredIsSettled,
                AnsweredIsApplied, BeforeRow, WithRow
<1>2. TypeOK /\ NoticeInv /\ UNCHANGED vars => NoticeInv'
  BY DEF vars, dbVars, stripeVars, NoticeInv, RowsComeFirst, NoticesOfSessions,
     IgnoredIsSettled, AnsweredIsApplied, Settled, RowOf, Handled
<1>3. TypeOK /\ NoticeInv /\ [Next]_vars => NoticeInv'
  BY <1>2, RequestKeepsNotices, WebhookKeepsNotices, StripeKeepsNotices DEF Next
<1>4. NoticeInv => AnsweredIsApplied
  BY DEF NoticeInv
<1> QED
  BY <1>1, <1>3, <1>4, TypeCorrect, PTL DEF Spec

-----------------------------------------------------------------------------
(***************************************************************************)
(* Payments, in a safe configuration: as long as Stripe does not call a    *)
(* paid session expired, a paid spot is kept.                              *)
(***************************************************************************)

LEMMA RequestKeepsPayment ==
  ASSUME TypeOK, RowsInv, PaymentInv, NEW r \in Reservations,
         Request(r) \/ RequestDies(r)
  PROVE  PaymentInv'
<1>1. RowStage(pc[r], status[r])
  BY DEF RowsInv, RowFollowsRequest, RowStage
<1> DEFINE key == IdempotencyKey(r, tries[r])
<1>2. /\ pc[r] \notin EndStage
      /\ pc' = [pc EXCEPT ![r] = pc'[r]]
      /\ status' = [status EXCEPT ![r] = status'[r]]
      /\ UNCHANGED <<body, sent, acked, processed, job>>
      /\ UNCHANGED session \/ OpenSession(key)
  BY <1>1, RequestEffect
<1>3. /\ pc \in [Procs -> RequestStage \cup WorkerStage]
      /\ pc[r] \in RequestStage
      /\ status \in [Reservations -> Status \cup {"none"}]
      /\ session \in [SessionKey -> {"none", "open", "complete", "expired"}]
      /\ sent \subseteq Notice /\ processed \subseteq Notice
  BY DEF TypeOK, RowsTypeOK, StripeTypeOK
<1>4. /\ \A p \in Procs : p # r => pc'[p] = pc[p]
      /\ \A s \in Reservations : s # r => status'[s] = status[s]
  BY <1>2, <1>3
<1>5. \A k \in SessionKey :
         \/ session'[k] = session[k]
         \/ session'[k] = "open" /\ k[1] = r /\ session[k] = "none"
  BY <1>2, <1>3 DEF OpenSession, IdempotencyKey
<1>7. \A w \in Workers : /\ pc'[w] = pc[w]
                         /\ pc[w] # "idle" => RowOf(w) \in Reservations \ {r}
                         /\ RowOf(w)' = RowOf(w)
  BY <1>2, <1>4, WorkersApart, JobFacts DEF RowOf
<1>9. ExpirersHeardExpired'
  BY <1>2, <1>7 DEF PaymentInv, ExpirersHeardExpired
<1>10. ExpiredIsExpired'
  BY <1>2, <1>3, <1>5, NoticeKeyType DEF PaymentInv, ExpiredIsExpired, NeverBoth
<1>11. PayableIsPending'
  <2> SUFFICES ASSUME NEW k \in SessionKey,
                      session'[k] = "open", pc'[k[1]] = "done"
               PROVE  status'[k[1]] = "pending"
    BY DEF PayableIsPending
  <2>1. k[1] \in Reservations
    BY DEF SessionKey
  <2>2. CASE k[1] # r
    BY <2>1, <2>2, <1>4, <1>5 DEF PaymentInv, PayableIsPending
  <2>3. CASE k[1] = r
    <3>1. AttachSession(r)
      BY <2>3, <1>2, <1>3 DEF Request, RequestDies, InsertHold, AddHold, Refuse,
         CommitPending, CheckoutOpens, CheckoutFails, WriteRow, CommitCancel, Goto
    <3>2. pc[r] = "attaching" /\ UNCHANGED status
      BY <3>1 DEF AttachSession
    <3> QED
      BY <2>3, <3>2, <1>1 DEF RowStage
  <2> QED
    BY <2>2, <2>3
<1>13. NeverBoth => PaidKept'
  <2> SUFFICES ASSUME NeverBoth, NEW k \in SessionKey, session'[k] = "complete"
               PROVE  status'[k[1]] \in Live
    BY DEF PaidKept, Live
  <2>1. session[k] = "complete" /\ k[1] \in Reservations
    BY <1>5 DEF SessionKey
  <2>2. k[1] # r
    BY <2>1, <1>2 DEF RowsInv, NoticesAfterRequest, Ended
  <2> QED
    BY <2>1, <2>2, <1>4 DEF PaymentInv, PaidKept
<1> QED
  BY <1>9, <1>10, <1>11, <1>13 DEF PaymentInv, NeverBoth

LEMMA VerdictExpires ==
  ASSUME NEW n, Verdict(n) \in {"expiring", "rowWritten"}
  PROVE  n.type = "expired"
  BY HandledTypes DEF Verdict, Handled

LEMMA WebhookKeepsPayment ==
  ASSUME TypeOK, RowsInv, PaymentInv, NEW w \in Workers,
         Webhook(w) \/ WebhookDies(w)
  PROVE  PaymentInv'
<1> DEFINE row == RowOf(w)
<1>1. /\ UNCHANGED <<body, session, sent>>
      /\ pc' = [pc EXCEPT ![w] = pc'[w]]
      /\ job' = [job EXCEPT ![w] = job'[w]]
      /\ UNCHANGED status \/ MovesRow(w)
      /\ \/ pc'[w] \in {"idle", "recorded"}
         \/ /\ pc[w] = "recorded"
            /\ pc'[w] = Verdict(job[w])
            /\ UNCHANGED <<job, status>>
         \/ /\ pc[w] = "expiring"
            /\ pc'[w] = "rowWritten"
            /\ UNCHANGED <<job, status>>
      /\ \/ UNCHANGED <<processed, status>> /\ acked' \subseteq acked \cup processed
         \/ /\ processed' = processed \cup {job[w]}
            /\ acked' \subseteq acked \cup {job[w]}
            /\ pc[w] = "ignoring" \/ MovesRow(w)
  BY WebhookEffect
<1>2. /\ pc \in [Procs -> RequestStage \cup WorkerStage]
      /\ job \in [Workers -> Notice \cup {NoNotice}]
      /\ status \in [Reservations -> Status \cup {"none"}]
      /\ sent \subseteq Notice /\ processed \subseteq Notice
  BY DEF TypeOK, RowsTypeOK, StripeTypeOK
<1>3. \A v \in Workers : v # w => /\ pc'[v] = pc[v] /\ job'[v] = job[v]
                                  /\ RowOf(v)' = RowOf(v)
  BY <1>1, <1>2 DEF RowOf
<1>4. \A r \in Reservations : pc'[r] = pc[r]
  BY <1>1, <1>2, WorkersApart
<1>5. MovesRow(w) => /\ pc[w] # "idle" /\ row \in Reservations
                     /\ status[row] = "pending"
                     /\ status'[row] \in {"confirmed", "expired"}
                     /\ \A r \in Reservations : r # row => status'[r] = status[r]
  <2> SUFFICES ASSUME MovesRow(w)
               PROVE  /\ pc[w] # "idle" /\ row \in Reservations
                      /\ status[row] = "pending"
                      /\ status'[row] \in {"confirmed", "expired"}
                      /\ \A r \in Reservations : r # row => status'[r] = status[r]
    OBVIOUS
  <2>1. pc[w] # "idle" /\ Moving(w)
    BY DEF MovesRow, Moving
  <2>2. row \in Reservations /\ status[row] = "pending"
    BY <2>1, JobFacts DEF RowsInv, MoversSeePending
  <2> QED
    BY <2>1, <2>2, <1>2 DEF MovesRow
<1>8. ExpirersHeardExpired'
  <2> SUFFICES ASSUME NEW v \in Workers, pc'[v] \in {"expiring", "rowWritten"}
               PROVE  job'[v].type = "expired"
    BY DEF ExpirersHeardExpired
  <2>1. CASE v # w
    BY <2>1, <1>3 DEF PaymentInv, ExpirersHeardExpired
  <2>2. CASE v = w
    BY <2>2, <1>1, VerdictExpires DEF PaymentInv, ExpirersHeardExpired
  <2> QED
    BY <2>1, <2>2
<1>9. ExpiredIsExpired'
  BY <1>1 DEF PaymentInv, ExpiredIsExpired, NeverBoth
<1>10. ASSUME NEW k \in SessionKey, MovesRow(w), k[1] = row, session[k] # "none"
       PROVE  k = job[w].key
  <2>1. pc[w] # "idle"
    BY <1>10, <1>5
  <2>2. /\ job[w].key \in SessionKey /\ job[w].key[1] = row
        /\ session[job[w].key] # "none"
    BY <2>1, JobFacts
  <2> QED
    BY <2>2, <1>10 DEF RowsInv, SessionsOpenedLate, IdempotencyKey
<1>11. PayableIsPending'
  <2> SUFFICES ASSUME NEW k \in SessionKey,
                      session'[k] = "open", pc'[k[1]] = "done"
               PROVE  status'[k[1]] = "pending"
    BY DEF PayableIsPending
  <2>1. k[1] \in Reservations
    BY DEF SessionKey
  <2>2. session[k] = "open" /\ status[k[1]] = "pending"
    BY <2>1, <1>1, <1>4 DEF PaymentInv, PayableIsPending
  <2>3. MovesRow(w) => k[1] # row
    BY <2>2, <1>5, <1>10, JobFacts
  <2> QED
    BY <2>1, <2>2, <2>3, <1>1, <1>5
<1>13. NeverBoth => PaidKept'
  <2> SUFFICES ASSUME NeverBoth, NEW k \in SessionKey, session[k] = "complete"
               PROVE  status'[k[1]] \in Live
    BY <1>1 DEF PaidKept, Live
  <2>1. k[1] \in Reservations /\ status[k[1]] \in Live
    BY DEF SessionKey, PaymentInv, PaidKept
  <2>2. CASE UNCHANGED status
    BY <2>1, <2>2
  <2>3. CASE MovesRow(w) /\ k[1] # row
    BY <2>1, <2>3, <1>5
  <2>4. CASE MovesRow(w) /\ k[1] = row
    <3>1. k = job[w].key /\ job[w] \in sent
      BY <2>4, <1>5, <1>10, JobFacts
    <3>2. job[w].type # "expired"
      BY <3>1 DEF PaymentInv, ExpiredIsExpired
    <3>3. pc[w] # "rowWritten"
      BY <3>2 DEF PaymentInv, ExpirersHeardExpired
    <3> QED
      BY <2>4, <3>3, <1>2, <1>5 DEF MovesRow, Live
  <2> QED
    BY <2>2, <2>3, <2>4, <1>1
<1> QED
  BY <1>8, <1>9, <1>11, <1>13 DEF PaymentInv, NeverBoth

LEMMA StripeKeepsPayment ==
  ASSUME TypeOK, RowsInv, PaymentInv, NEW k \in SessionKey,
         CustomerPays(k) \/ SessionExpires(k) \/ StripeSendsExtra(k)
  PROVE  PaymentInv'
<1>1. /\ UNCHANGED <<dbVars, pc, job, acked>>
      /\ UNCHANGED <<body, status, processed>>
  BY DEF CustomerPays, SessionExpires, StripeSendsExtra, Pay, ExpireSession,
         SendExtra, dbVars
<1>2. /\ session \in [SessionKey -> {"none", "open", "complete", "expired"}]
      /\ sent \subseteq Notice /\ processed \subseteq Notice
      /\ k[1] \in Reservations
  BY DEF TypeOK, RowsTypeOK, StripeTypeOK, SessionKey
<1>3. \/ session[k] = "open" /\ pc[k[1]] = "done"
         /\ session' = [session EXCEPT ![k] = "complete"]
      \/ session[k] = "open" /\ session' = [session EXCEPT ![k] = "expired"]
      \/ UNCHANGED session
  BY DEF CustomerPays, SessionExpires, StripeSendsExtra, Pay, ExpireSession,
         SendExtra
<1>4. ExpirersHeardExpired'
  BY <1>1 DEF PaymentInv, ExpirersHeardExpired
<1>5. ExpiredIsExpired'
  <2> SUFFICES ASSUME NeverBoth, NEW n \in sent', n.type = "expired"
               PROVE  session'[n.key] = "expired"
    BY DEF ExpiredIsExpired, NeverBoth
  <2>1. CASE n \in sent
    <3>1. session[n.key] = "expired" /\ n.key \in SessionKey
      BY <2>1, <1>2, NoticeKeyType DEF PaymentInv, ExpiredIsExpired
    <3> QED
      BY <3>1, <1>2, <1>3
  <2>2. CASE n \notin sent
    <3>1. ~CustomerPays(k) /\ ~StripeSendsExtra(k)
      BY <2>2 DEF CustomerPays, Pay, StripeSendsExtra, SendExtra, Notify,
                  NeverBoth
    <3>2. ExpireSession(k)
      BY <3>1 DEF SessionExpires
    <3>3. n.key = k
      BY <2>2, <3>2 DEF ExpireSession, Notify
    <3> QED
      BY <3>2, <3>3, <1>2 DEF ExpireSession
  <2> QED
    BY <2>1, <2>2
<1>6. PayableIsPending'
  BY <1>1, <1>2, <1>3 DEF PaymentInv, PayableIsPending
<1>7. NeverBoth => PaidKept'
  <2> SUFFICES ASSUME NeverBoth, NEW l \in SessionKey, session'[l] = "complete"
               PROVE  status[l[1]] \in Live
    BY <1>1 DEF PaidKept, Live
  <2>1. session[l] = "complete" \/ (session[l] = "open" /\ pc[l[1]] = "done")
    BY <1>2, <1>3
  <2> QED
    BY <2>1 DEF PaymentInv, PaidKept, PayableIsPending, Live
<1> QED
  BY <1>4, <1>5, <1>6, <1>7 DEF PaymentInv, NeverBoth

LEMMA InitPayment == Init => PaymentInv
<1> SUFFICES ASSUME Init PROVE PaymentInv
  OBVIOUS
<1>1. /\ \A w \in Workers : pc[w] = "idle"
      /\ \A k \in SessionKey : session[k] = "none"
      /\ sent = {}
  BY DEF Init, StripeInit
<1> QED
  BY <1>1 DEF PaymentInv, ExpirersHeardExpired, ExpiredIsExpired,
     PayableIsPending, PaidKept

LEMMA NextPayment ==
  TypeOK /\ RowsInv /\ PaymentInv /\ [Next]_vars => PaymentInv'
<1>1. ASSUME PaymentInv, UNCHANGED vars
      PROVE  PaymentInv'
  BY <1>1 DEF vars, dbVars, stripeVars, PaymentInv, ExpirersHeardExpired,
     ExpiredIsExpired, PayableIsPending, PaidKept, NeverBoth
<1> QED
  BY <1>1, RequestKeepsPayment, WebhookKeepsPayment, StripeKeepsPayment DEF Next

(***************************************************************************)
(* The part about payments is an invariant in every safe configuration.    *)
(***************************************************************************)
THEOREM PaymentsHold ==
  ASSUME Safe
  PROVE  Spec => []PaymentInv
<1>1. IInv /\ PaymentInv /\ [Next]_vars => PaymentInv'
  BY NextPayment DEF IInv
<1> QED
  BY <1>1, InitPayment, InvariantHolds, PTL DEF Spec

(***************************************************************************)
(* From the payment on, the row is pending or confirmed, if Stripe does    *)
(* not also say that the paid session expired.                             *)
(***************************************************************************)
THEOREM PaidIsKept ==
  ASSUME Safe, NeverBoth
  PROVE  Spec => []PaidKept
<1>1. PaymentInv => PaidKept
  BY DEF PaymentInv
<1> QED
  BY <1>1, PaymentsHold, PTL
=============================================================================
