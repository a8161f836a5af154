----------------------- MODULE ReservationsRowProofs ------------------------
(***************************************************************************)
(* Theorems about the reservation service, for any number of reservations, *)
(* events, webhook workers, retries and any cap.  Here: its types, and the *)
(* part of the invariant about rows and notices, which says who may move a *)
(* row and which in a safe configuration every step keeps.                 *)
(***************************************************************************)
EXTENDS ReservationsInvariant, FiniteSetTheorems, TLAPS

USE DEF Procs, RequestStage, WorkerStage, EndStage

(***************************************************************************)
(* Type correctness holds in every configuration, safe or not.             *)
(***************************************************************************)
LEMMA BodyType ==
  ASSUME NEW b \in Body
  PROVE  /\ b.event_id \in Shows
         /\ b.quantity \in 1..MaxQuantity
         /\ b.quantity \in Nat \ {0}
<1>1. b.event_id \in Shows /\ b.quantity \in Quantities
  BY DEF Body
<1>2. b.quantity \in 1..MaxQuantity
  BY <1>1, QuantitiesInRange
<1> QED
  BY <1>1, <1>2 DEF MaxQuantity

LEMMA KeyType ==
  ASSUME NEW r \in Reservations, NEW n
  PROVE  IdempotencyKey(r, n) \in SessionKey
<1> 0 \in 0..MaxRetries
  BY MaxRetriesNat
<1> QED
  BY DEF IdempotencyKey, SessionKey

LEMMA InitType == Init => TypeOK
  BY WorkersApart, MaxRetriesNat
     DEF Init, TypeOK, RowsInit, RowsTypeOK, StripeInit, StripeTypeOK,
         Status, NoKey, NoNotice

LEMMA RequestType ==
  ASSUME TypeOK, NEW r \in Reservations, Request(r) \/ RequestDies(r)
  PROVE  TypeOK'
<1> USE WorkersApart, CapPositive, MaxRetriesNat DEF TypeOK, RowsTypeOK,
        StripeTypeOK, dbVars, stripeVars, Goto, Status, NoKey, NoNotice
<1> body[r] \in Body
  OBVIOUS
<1> body[r].quantity \in Nat /\ body[r].event_id \in Shows
  BY BodyType
<1> IdempotencyKey(r, tries[r]) \in SessionKey
  BY KeyType
<1> DEFINE key == IdempotencyKey(r, tries[r])
<1>1. CASE InsertHold(r)
  BY <1>1 DEF InsertHold
<1>2. CASE AddHold(r)
  BY <1>2 DEF AddHold
<1>3. CASE Refuse(r)
  BY <1>3 DEF Refuse
<1>4. CASE CommitPending(r)
  BY <1>4 DEF CommitPending, ShowOf, QtyOf, RowOf
<1>5. CASE CheckoutOpens(r)
  BY <1>5 DEF CheckoutOpens, OpenSession
<1>6. CASE \E f \in Failures : CheckoutFails(r, f)
  <2>1. PICK f \in Failures : CheckoutFails(r, f)
    BY <1>6
  <2>2. OpenSession(key) \/ UNCHANGED session
    BY <2>1 DEF CheckoutFails
  <2>3. session' \in [SessionKey -> {"none", "open", "complete", "expired"}]
    BY <2>2 DEF OpenSession
  <2>4. tries' \in [Reservations -> 0..MaxRetries]
    BY <2>1 DEF CheckoutFails, MayRetry
  <2>5. UNCHANGED pc \/ Goto(r, "canceling")
    BY <2>1 DEF CheckoutFails
  <2> QED
    BY <2>1, <2>3, <2>4, <2>5 DEF CheckoutFails
<1>7. CASE AttachSession(r)
  BY <1>7 DEF AttachSession
<1>8. CASE WriteRow(r)
  BY <1>8 DEF WriteRow
<1>9. CASE CommitCancel(r)
  BY <1>9 DEF CommitCancel, Release, ShowOf, QtyOf, RowOf
<1>10. CASE RequestDies(r)
  BY <1>10 DEF RequestDies
<1> QED
  BY <1>1, <1>2, <1>3, <1>4, <1>5, <1>6, <1>7, <1>8, <1>9, <1>10 DEF Request
LEMMA AnswerType ==
  ASSUME TypeOK, NEW n \in Notice, Answer(n)
  PROVE  acked' \subseteq Notice
  BY DEF TypeOK, StripeTypeOK, Answer

LEMMA NoticeKeyType ==
  ASSUME NEW n \in Notice
  PROVE  n.key \in SessionKey /\ n.key[1] \in Reservations
<1> n.key \in SessionKey
  BY DEF Notice
<1> QED
  BY DEF SessionKey

LEMMA WebhookType ==
  ASSUME TypeOK, NEW w \in Workers, Webhook(w) \/ WebhookDies(w)
  PROVE  TypeOK'
<1> USE WorkersApart, CapPositive DEF TypeOK, RowsTypeOK,
        StripeTypeOK, dbVars, stripeVars, Goto, Status, NoNotice
<1>1. CASE \E n \in Notice : ApplyWebhook(w, n)
  BY <1>1 DEF ApplyWebhook
<1>2. CASE \E n \in Notice : DuplicateWebhook(w, n)
  BY <1>2, AnswerType DEF DuplicateWebhook
<1>3. CASE Transition(w)
  <2>1. Verdict(job[w]) \in WorkerStage
    BY DEF Verdict, Handled
  <2> QED
    BY <1>3, <2>1 DEF Transition
<1>4. CASE WriteRow(w)
  BY <1>4 DEF WriteRow
<1>5. CASE WebhookDies(w)
  BY <1>5 DEF WebhookDies
<1>6. ASSUME pc[w] # "idle", CommitWebhook(w),
             held' \in [Shows -> Nat],
             status' \in [Reservations -> Status \cup {"none"}]
      PROVE  TypeOK'
  <2>1. job[w] \in Notice
    BY <1>6
  <2>2. acked' \subseteq Notice
    BY <1>6, <2>1, AnswerType DEF CommitWebhook
  <2> QED
    BY <1>6, <2>1, <2>2 DEF CommitWebhook
<1>7. CASE CommitIgnored(w)
  BY <1>6, <1>7 DEF CommitIgnored
<1>8. CASE CommitConfirm(w)
  BY <1>6, <1>8 DEF CommitConfirm
<1>9. CASE CommitExpire(w)
  <2>1. job[w] \in Notice
    BY <1>9 DEF CommitExpire
  <2>2. body[RowOf(w)] \in Body
    BY <2>1, NoticeKeyType DEF RowOf
  <2>3. QtyOf(w) \in Nat /\ ShowOf(w) \in Shows
    BY <2>2, BodyType DEF QtyOf, ShowOf
  <2>4. held' \in [Shows -> Nat]
    BY <1>9, <2>3 DEF CommitExpire, Release
  <2>5. status' \in [Reservations -> Status \cup {"none"}]
    BY <1>9 DEF CommitExpire
  <2> QED
    BY <1>6, <1>9, <2>4, <2>5 DEF CommitExpire
<1> QED
  BY <1>1, <1>2, <1>3, <1>4, <1>5, <1>7, <1>8, <1>9 DEF Webhook

LEMMA StripeType ==
  ASSUME TypeOK, NEW k \in SessionKey,
         CustomerPays(k) \/ SessionExpires(k) \/ StripeSendsExtra(k)
  PROVE  TypeOK'
<1>1. ASSUME NEW type \in {"completed", "expired", "other"}, Notify(type, k)
      PROVE  sent' \subseteq Notice
  BY <1>1 DEF Notify, Notice, TypeOK, StripeTypeOK
<1>2. sent' \subseteq Notice
  BY <1>1, ExtraTypes DEF CustomerPays, SessionExpires, StripeSendsExtra,
         Pay, ExpireSession, SendExtra
<1>3. session' \in [SessionKey -> {"none", "open", "complete", "expired"}]
  BY DEF CustomerPays, SessionExpires, StripeSendsExtra,
         Pay, ExpireSession, SendExtra, TypeOK, StripeTypeOK
<1> QED
  BY <1>2, <1>3 DEF CustomerPays, SessionExpires, StripeSendsExtra, Pay,
     ExpireSession, SendExtra, TypeOK, RowsTypeOK, StripeTypeOK, dbVars

LEMMA NextType == TypeOK /\ [Next]_vars => TypeOK'
<1>1. ASSUME TypeOK, UNCHANGED vars
      PROVE  TypeOK'
  BY <1>1 DEF vars, dbVars, stripeVars, TypeOK, RowsTypeOK, StripeTypeOK
<1> QED
  BY <1>1, RequestType, WebhookType, StripeType DEF Next

THEOREM TypeCorrect == Spec => []TypeOK
  BY InitType, NextType, PTL DEF Spec

-----------------------------------------------------------------------------
(***************************************************************************)
(* What a step of a request can do to the row part.                        *)
(***************************************************************************)
RowStage(stage, row) ==
    /\ stage \in {"received", "holdInserted", "holdAdded", "refused"}
          => row = "none"
    /\ stage \in {"checkout", "attaching", "canceling", "rowWritten"}
          => row = "pending"

LEMMA RequestEffect ==
  ASSUME TypeOK, NEW r \in Reservations, Request(r) \/ RequestDies(r),
         RowStage(pc[r], status[r])
  PROVE  /\ pc[r] \notin EndStage
         /\ pc' = [pc EXCEPT ![r] = pc'[r]]
         /\ status' = [status EXCEPT ![r] = status'[r]]
         /\ RowStage(pc'[r], status'[r])
         /\ status'[r] = "none" => status[r] = "none"
         /\ UNCHANGED <<body, sent, acked, processed, job>>
         /\ \/ UNCHANGED session
            \/ /\ pc[r] = "checkout"
               /\ OpenSession(IdempotencyKey(r, tries[r]))
               /\ status'[r] = "pending"
         /\ HasWritten(r)' => HasWritten(r) \/ CanWrite(r)
<1> USE WorkersApart DEF TypeOK, RowsTypeOK, dbVars, stripeVars, Goto,
        Status, RowStage, HasWritten, Ended
<1>1. CASE InsertHold(r)
  BY <1>1 DEF InsertHold
<1>2. CASE AddHold(r)
  BY <1>2 DEF AddHold
<1>3. CASE Refuse(r)
  BY <1>3 DEF Refuse
<1>4. CASE CommitPending(r)
  BY <1>4 DEF CommitPending
<1>5. CASE CheckoutOpens(r)
  BY <1>5 DEF CheckoutOpens
<1>6. CASE \E f \in Failures : CheckoutFails(r, f)
  <2>1. PICK f \in Failures : CheckoutFails(r, f)
    BY <1>6
  <2>2. /\ pc[r] = "checkout"
        /\ OpenSession(IdempotencyKey(r, tries[r])) \/ UNCHANGED session
        /\ UNCHANGED pc \/ Goto(r, "canceling")
        /\ UNCHANGED <<dbVars, sent, acked, job>>
    BY <2>1 DEF CheckoutFails
  <2> QED
    BY <2>2
<1>7. CASE AttachSession(r)
  BY <1>7 DEF AttachSession
<1>8. CASE WriteRow(r)
  BY <1>8 DEF WriteRow
<1>9. CASE CommitCancel(r)
  BY <1>9 DEF CommitCancel
<1>10. CASE RequestDies(r)
  BY <1>10 DEF RequestDies
<1> QED
  BY <1>1, <1>2, <1>3, <1>4, <1>5, <1>6, <1>7, <1>8, <1>9, <1>10 DEF Request

(***************************************************************************)
(* A delivery in progress works on the row of a request that has ended.    *)
(***************************************************************************)
LEMMA JobFacts ==
  ASSUME TypeOK, RowsInv, NEW w \in Workers, pc[w] # "idle"
  PROVE  /\ job[w] \in Notice /\ job[w] \in sent /\ job[w] \notin processed
         /\ RowOf(w) = job[w].key[1]
         /\ RowOf(w) \in Reservations
         /\ job[w].key \in SessionKey
         /\ session[job[w].key] \in {"complete", "expired"}
         /\ pc[RowOf(w)] \in EndStage
<1>1. job[w] \in Notice /\ job[w] \in sent /\ job[w] \notin processed
  BY DEF TypeOK, RowsInv, JobsAreSent
<1>2. job[w].key \in SessionKey /\ job[w].key[1] \in Reservations
  BY <1>1, NoticeKeyType
<1>3. RowOf(w) = job[w].key[1]
  BY DEF RowOf
<1>4. session[job[w].key] \in {"complete", "expired"}
  BY <1>1 DEF RowsInv, NoticesAfterRequest
<1>5. Ended(job[w].key[1])
  BY <1>2, <1>4 DEF RowsInv, NoticesAfterRequest
<1> QED
  BY <1>1, <1>2, <1>3, <1>4, <1>5 DEF Ended

LEMMA RequestKeepsRows ==
  ASSUME TypeOK, RowsInv, NEW r \in Reservations,
         Request(r) \/ RequestDies(r)
  PROVE  RowsInv'
<1>1. RowStage(pc[r], status[r])
  BY DEF RowsInv, RowFollowsRequest, RowStage
<1> DEFINE key == IdempotencyKey(r, tries[r])
<1>2. /\ pc[r] \notin EndStage
      /\ pc' = [pc EXCEPT ![r] = pc'[r]]
      /\ status' = [status EXCEPT ![r] = status'[r]]
      /\ RowStage(pc'[r], status'[r])
      /\ status'[r] = "none" => status[r] = "none"
      /\ UNCHANGED <<body, sent, acked, processed, job>>
      /\ \/ UNCHANGED session
         \/ /\ pc[r] = "checkout"
            /\ OpenSession(key)
            /\ status'[r] = "pending"
      /\ HasWritten(r)' => HasWritten(r) \/ CanWrite(r)
  BY <1>1, RequestEffect
<1>3. /\ pc \in [Procs -> RequestStage \cup WorkerStage]
      /\ status \in [Reservations -> Status \cup {"none"}]
      /\ session \in [SessionKey -> {"none", "open", "complete", "expired"}]
  BY DEF TypeOK, RowsTypeOK, StripeTypeOK
<1>4. \A p \in Procs : p # r => pc'[p] = pc[p]
  BY <1>2, <1>3
<1>5. \A s \in Reservations : s # r => status'[s] = status[s]
  BY <1>2, <1>3
<1>6. \A k \in SessionKey :
         \/ session'[k] = session[k]
         \/ k = key /\ session[k] = "none" /\ session'[k] = "open"
  BY <1>2, <1>3 DEF OpenSession
<1>7. \A w \in Workers : w \in Procs /\ w # r /\ pc'[w] = pc[w]
  BY <1>4, WorkersApart
<1>8. \A w \in Workers : pc[w] # "idle" => RowOf(w)' = RowOf(w) /\ RowOf(w) # r
  BY <1>2, <1>7, JobFacts DEF RowOf
<1>9. RowFollowsRequest'
  BY <1>2, <1>4, <1>5 DEF RowsInv, RowFollowsRequest, RowStage
<1>10. SessionsOpenedLate'
  <2> SUFFICES ASSUME NEW k \in SessionKey, session'[k] # "none"
               PROVE  k = IdempotencyKey(k[1], 0) /\ status'[k[1]] # "none"
    BY DEF SessionsOpenedLate, IdempotencyKey
  <2>1. k[1] \in Reservations
    BY DEF SessionKey
  <2>2. CASE session[k] # "none"
    BY <2>1, <2>2, <1>2, <1>5 DEF RowsInv, SessionsOpenedLate
  <2>3. CASE session[k] = "none"
    <3>1. k = key /\ status'[r] = "pending"
      BY <2>3, <1>2, <1>6
    <3> QED
      BY <3>1 DEF IdempotencyKey
  <2> QED
    BY <2>2, <2>3
<1>11. NoticesAfterRequest'
  <2>1. \A k \in SessionKey : session'[k] \in {"complete", "expired"}
           => session[k] = session'[k]
    BY <1>6
  <2>2. \A k \in SessionKey : session[k] \in {"complete", "expired"}
           => /\ session[k] = session'[k]
              /\ k[1] \in Reservations /\ k[1] # r /\ Ended(k[1])
    BY <1>2, <1>6 DEF RowsInv, NoticesAfterRequest, Ended, SessionKey
  <2>3. \A n \in sent : n.key \in SessionKey
    BY NoticeKeyType DEF TypeOK, StripeTypeOK
  <2> QED
    BY <1>2, <1>4, <2>1, <2>2, <2>3 DEF RowsInv, NoticesAfterRequest, Ended
<1>12. NoticesTellFate'
  <2>1. \A n \in sent : session'[n.key] = session[n.key]
    <3>1. \A n \in sent : n.key \in SessionKey
                         /\ session[n.key] \in {"complete", "expired"}
      BY NoticeKeyType DEF TypeOK, StripeTypeOK, RowsInv, NoticesAfterRequest
    <3> QED
      BY <3>1, <1>6
  <2> QED
    BY <1>2, <2>1 DEF RowsInv, NoticesTellFate, OneEventPerFate
<1>13. JobsAreSent'
  BY <1>2, <1>7 DEF RowsInv, JobsAreSent
<1>14. OneDelivery'
  BY <1>2, <1>7 DEF RowsInv, OneDelivery
<1>15. OneWriter'
  BY <1>2, <1>4 DEF RowsInv, OneWriter, CanWrite, HasWritten
<1>16. MoversSeePending'
  BY <1>2, <1>5, <1>7, <1>8, JobFacts
     DEF RowsInv, MoversSeePending, Moving
<1> QED
  BY <1>9, <1>10, <1>11, <1>12, <1>13, <1>14, <1>15, <1>16 DEF RowsInv

(***************************************************************************)
(* No two deliveries are about to move the same row: either the database   *)
(* has one writer, or both carry the one notice that tells the row's fate. *)
(***************************************************************************)
LEMMA SoleMover ==
  ASSUME Safe, TypeOK, RowsInv, NEW v \in Workers, NEW w \in Workers,
         Moving(v), Moving(w), RowOf(v) = RowOf(w)
  PROVE  v = w
<1>1. pc[v] # "idle" /\ pc[w] # "idle" /\ HasWritten(v) /\ HasWritten(w)
  BY DEF Moving, HasWritten
<1>2. CASE Isolation = "sqlite"
  BY <1>1, <1>2 DEF RowsInv, OneWriter
<1>3. CASE OneEventPerFate
  <2>1. /\ job[v] \in Notice /\ job[w] \in Notice
        /\ job[v] \in sent /\ job[w] \in sent
        /\ job[v].key \in SessionKey /\ job[w].key \in SessionKey
        /\ session[job[v].key] \in {"complete", "expired"}
        /\ session[job[w].key] \in {"complete", "expired"}
        /\ job[v].key[1] = job[w].key[1]
    BY <1>1, JobFacts
  <2>2. job[v].key = job[w].key
    BY <2>1 DEF RowsInv, SessionsOpenedLate
  <2>3. job[v].type # "other" /\ job[w].type # "other"
    BY DEF RowsInv, MoversSeePending
  <2>4. job[v].type = job[w].type
    <3>1. \A n \in Notice : n.type \in {"completed", "expired", "other"}
      BY DEF Notice
    <3> QED
      BY <1>3, <2>1, <2>2, <2>3, <3>1 DEF RowsInv, NoticesTellFate
  <2>5. job[v].copy = 1 /\ job[w].copy = 1
    <3>1. \A n \in Notice : n.copy \in 1..1
      BY <1>3 DEF Notice, OneEventPerFate
    <3> QED
      BY <2>1, <3>1
  <2>6. job[v] = job[w]
    BY <2>1, <2>2, <2>4, <2>5 DEF Notice
  <2> QED
    BY <1>1, <2>6 DEF RowsInv, OneDelivery
<1> QED
  BY <1>2, <1>3 DEF Safe

(***************************************************************************)
(* A step that leaves rows and sessions alone, moves one worker only, and  *)
(* has it write only when it may, keeps the row part if the worker's new   *)
(* stage is justified.                                                     *)
(***************************************************************************)
LEMMA WorkerStepKeepsRows ==
  ASSUME TypeOK, RowsInv, NEW w \in Workers,
         UNCHANGED <<body, status, session, sent, processed>>,
         pc' = [pc EXCEPT ![w] = pc'[w]],
         job' = [job EXCEPT ![w] = job'[w]],
         HasWritten(w)' => HasWritten(w) \/ CanWrite(w),
         pc'[w] # "idle" => /\ job'[w] \in sent \ processed
                            /\ NoticeFree(w, job'[w]),
         Moving(w)' => /\ status[job'[w].key[1]] = "pending"
                       /\ job'[w].type # "other"
  PROVE  RowsInv'
<1>1. /\ pc \in [Procs -> RequestStage \cup WorkerStage]
      /\ job \in [Workers -> Notice \cup {NoNotice}]
  BY DEF TypeOK
<1>2. \A p \in Procs : p # w => pc'[p] = pc[p]
  BY <1>1
<1>3. \A v \in Workers : v # w => job'[v] = job[v] /\ pc'[v] = pc[v]
  BY <1>1, <1>2
<1>4. \A r \in Reservations : pc'[r] = pc[r]
  BY <1>2, WorkersApart
<1>5. RowFollowsRequest'
  BY <1>4 DEF RowsInv, RowFollowsRequest
<1>6. SessionsOpenedLate'
  BY DEF RowsInv, SessionsOpenedLate, IdempotencyKey
<1>7. NoticesAfterRequest'
  <2>1. \A k \in SessionKey : k[1] \in Reservations
    BY DEF SessionKey
  <2> QED
    BY <1>4, <2>1 DEF RowsInv, NoticesAfterRequest, Ended
<1>8. NoticesTellFate'
  BY DEF RowsInv, NoticesTellFate, OneEventPerFate
<1>9. JobsAreSent'
  BY <1>3 DEF RowsInv, JobsAreSent
<1>10. OneDelivery'
  BY <1>3 DEF RowsInv, OneDelivery, NoticeFree
<1>11. OneWriter'
  BY <1>2 DEF RowsInv, OneWriter, CanWrite, HasWritten
<1>12. MoversSeePending'
  BY <1>3 DEF RowsInv, MoversSeePending, Moving, RowOf
<1> QED
  BY <1>5, <1>6, <1>7, <1>8, <1>9, <1>10, <1>11, <1>12 DEF RowsInv

(***************************************************************************)
(* A delivery that commits settles its row, which no other process is      *)
(* about to move.                                                          *)
(***************************************************************************)
LEMMA CommitKeepsRows ==
  ASSUME Safe, TypeOK, RowsInv, NEW w \in Workers, pc[w] # "idle",
         CommitWebhook(w),
         \/ UNCHANGED status
         \/ /\ Moving(w)
            /\ \E s \in {"confirmed", "expired"} :
                  status' = [status EXCEPT ![RowOf(w)] = s]
  PROVE  RowsInv'
<1> DEFINE row == RowOf(w)
<1>1. /\ pc \in [Procs -> RequestStage \cup WorkerStage]
      /\ job \in [Workers -> Notice \cup {NoNotice}]
      /\ status \in [Reservations -> Status \cup {"none"}]
  BY DEF TypeOK, RowsTypeOK
<1>2. /\ UNCHANGED <<body, session, sent>>
      /\ processed' = processed \cup {job[w]}
      /\ pc' = [pc EXCEPT ![w] = "idle"]
      /\ job' = [job EXCEPT ![w] = NoNotice]
  BY DEF CommitWebhook, Goto
<1>3. \A p \in Procs : p # w => pc'[p] = pc[p]
  BY <1>1, <1>2
<1>4. /\ pc'[w] = "idle"
      /\ \A v \in Workers : v # w => job'[v] = job[v] /\ pc'[v] = pc[v]
  BY <1>1, <1>2, <1>3
<1>5. \A r \in Reservations : pc'[r] = pc[r]
  BY <1>3, WorkersApart
<1>6. row \in Reservations /\ pc[row] \in EndStage
  BY JobFacts
<1>7. \A r \in Reservations : r # row => status'[r] = status[r]
  BY <1>1
<1>8. /\ status'[row] = "none" => status[row] = "none"
      /\ pc[row] = "refused" => status'[row] = "none"
  BY <1>1, <1>6 DEF RowsInv, RowFollowsRequest, MoversSeePending
<1>9. RowFollowsRequest'
  BY <1>5, <1>6, <1>7, <1>8 DEF RowsInv, RowFollowsRequest
<1>10. SessionsOpenedLate'
  <2>1. \A k \in SessionKey : k[1] \in Reservations
    BY DEF SessionKey
  <2> QED
    BY <1>2, <1>7, <1>8, <2>1 DEF RowsInv, SessionsOpenedLate, IdempotencyKey
<1>11. NoticesAfterRequest'
  <2>1. \A k \in SessionKey : k[1] \in Reservations
    BY DEF SessionKey
  <2> QED
    BY <1>2, <1>5, <2>1 DEF RowsInv, NoticesAfterRequest, Ended
<1>12. NoticesTellFate'
  BY <1>2 DEF RowsInv, NoticesTellFate, OneEventPerFate
<1>13. JobsAreSent'
  <2>1. \A v \in Workers : v # w /\ pc[v] # "idle" => job[v] # job[w]
    BY DEF RowsInv, OneDelivery
  <2> QED
    BY <1>2, <1>4, <2>1 DEF RowsInv, JobsAreSent
<1>14. OneDelivery'
  BY <1>4 DEF RowsInv, OneDelivery
<1>15. OneWriter'
  <2>1. w \in Procs /\ ~HasWritten(w)'
    BY <1>4 DEF HasWritten
  <2> QED
    BY <1>3, <2>1 DEF RowsInv, OneWriter, HasWritten
<1>16. MoversSeePending'
  <2> SUFFICES ASSUME NEW v \in Workers, Moving(v)'
               PROVE  (status[RowOf(v)] = "pending" /\ job[v].type # "other")'
    BY DEF MoversSeePending
  <2>1. v # w /\ Moving(v) /\ job'[v] = job[v] /\ RowOf(v)' = RowOf(v)
    BY <1>4 DEF Moving, RowOf
  <2>2. pc[v] # "idle"
    BY <2>1 DEF Moving
  <2>3. RowOf(v) \in Reservations
    BY <2>2, JobFacts
  <2>4. status'[RowOf(v)] = status[RowOf(v)]
    BY <1>7, <2>1, <2>3, SoleMover
  <2> QED
    BY <2>1, <2>4 DEF RowsInv, MoversSeePending
<1> QED
  BY <1>9, <1>10, <1>11, <1>12, <1>13, <1>14, <1>15, <1>16 DEF RowsInv

LEMMA WebhookKeepsRows ==
  ASSUME Safe, TypeOK, RowsInv, NEW w \in Workers,
         Webhook(w) \/ WebhookDies(w)
  PROVE  RowsInv'
<1> USE DEF dbVars, stripeVars, Goto
<1>1. ASSUME NEW n \in Notice, ApplyWebhook(w, n)
      PROVE  RowsInv'
  <2>1. pc'[w] = "recorded" /\ job'[w] = n
    BY <1>1 DEF ApplyWebhook, TypeOK
  <2> QED
    BY <1>1, <2>1, WorkerStepKeepsRows
       DEF ApplyWebhook, TypeOK, HasWritten, Moving
<1>2. ASSUME NEW n \in Notice, DuplicateWebhook(w, n)
      PROVE  RowsInv'
  <2>1. UNCHANGED <<body, status, session, sent, processed, pc, job>>
    BY <1>2 DEF DuplicateWebhook
  <2> QED
    BY <2>1 DEF RowsInv, RowFollowsRequest, SessionsOpenedLate,
                NoticesAfterRequest, NoticesTellFate, JobsAreSent, OneDelivery,
                OneWriter, MoversSeePending, Ended, HasWritten, Moving, RowOf,
                IdempotencyKey, OneEventPerFate
<1>3. ASSUME pc[w] # "idle",
             HasWritten(w)' => HasWritten(w) \/ CanWrite(w),
             UNCHANGED <<body, status, session, sent, processed, job>>,
             pc' = [pc EXCEPT ![w] = pc'[w]],
             Moving(w)' => /\ status[job[w].key[1]] = "pending"
                           /\ job[w].type # "other"
      PROVE  RowsInv'
  <2>1. job[w] \in sent \ processed /\ NoticeFree(w, job[w])
    BY <1>3 DEF RowsInv, JobsAreSent, OneDelivery, NoticeFree
  <2> QED
    BY <1>3, <2>1, WorkerStepKeepsRows DEF TypeOK
<1>4. CASE Transition(w)
  <2>1. pc'[w] = Verdict(job[w])
    BY <1>4 DEF Transition, TypeOK
  <2>2. /\ Verdict(job[w]) \in {"ignoring", "confirming", "expiring"}
        /\ Verdict(job[w]) # "ignoring" =>
              /\ status[job[w].key[1]] = "pending"
              /\ job[w].type # "other"
    BY DEF Verdict, Handled
  <2>3. UNCHANGED <<body, status, session, sent, processed, job>>
    BY <1>4 DEF Transition
  <2>4. pc[w] = "recorded" /\ pc' = [pc EXCEPT ![w] = pc'[w]]
    BY <1>4, <2>1 DEF Transition
  <2> QED
    BY <1>3, <2>1, <2>2, <2>3, <2>4 DEF HasWritten, Moving
<1>5. CASE WriteRow(w)
  <2>1. pc[w] = "expiring"
    BY <1>5 DEF WriteRow, TypeOK
  <2>2. pc'[w] = "rowWritten" /\ pc' = [pc EXCEPT ![w] = pc'[w]]
    BY <1>5 DEF WriteRow, TypeOK
  <2>3. UNCHANGED <<body, status, session, sent, processed, job>>
    BY <1>5 DEF WriteRow
  <2>4. status[job[w].key[1]] = "pending" /\ job[w].type # "other"
    BY <2>1 DEF RowsInv, MoversSeePending, Moving, RowOf
  <2> QED
    BY <1>3, <2>1, <2>2, <2>3, <2>4 DEF HasWritten
<1>6. CASE WebhookDies(w)
  <2>1. pc'[w] = "idle"
    BY <1>6 DEF WebhookDies, TypeOK
  <2> QED
    BY <1>6, <2>1, WorkerStepKeepsRows DEF WebhookDies, TypeOK, HasWritten, Moving
<1>7. CASE CommitIgnored(w)
  BY <1>7, CommitKeepsRows DEF CommitIgnored
<1>8. CASE CommitConfirm(w)
  BY <1>8, CommitKeepsRows DEF CommitConfirm, Moving
<1>9. CASE CommitExpire(w)
  BY <1>9, CommitKeepsRows DEF CommitExpire, Moving
<1> QED
  BY <1>1, <1>2, <1>4, <1>5, <1>6, <1>7, <1>8, <1>9 DEF Webhook

(***************************************************************************)
(* Stripe's steps touch sessions that are open or paid, and speak only of  *)
(* requests that have ended.                                               *)
(***************************************************************************)
LEMMA NotifyEffect ==
  ASSUME NEW kind, NEW k, Notify(kind, k), NEW n \in sent', n \notin sent
  PROVE  n.key = k /\ n.type = kind
<1> DEFINE fresh == [type : {kind}, key : {k}, copy : 1..Copies]
<1>1. n \in fresh
  BY DEF Notify
<1>2. n.type \in {kind} /\ n.key \in {k}
  BY <1>1
<1> QED
  BY <1>2

LEMMA StripeKeepsRows ==
  ASSUME Safe, TypeOK, RowsInv, NEW k \in SessionKey,
         CustomerPays(k) \/ SessionExpires(k) \/ StripeSendsExtra(k)
  PROVE  RowsInv'
<1> USE DEF dbVars
<1>1. /\ UNCHANGED <<body, status, processed, pc, job>>
      /\ sent \subseteq sent'
  BY DEF CustomerPays, SessionExpires, StripeSendsExtra,
         Pay, ExpireSession, SendExtra, Notify
<1>2. session \in [SessionKey -> {"none", "open", "complete", "expired"}]
  BY DEF TypeOK, StripeTypeOK
<1>3. \A n \in sent : n.key \in SessionKey
  BY NoticeKeyType DEF TypeOK, StripeTypeOK
<1>4. RowFollowsRequest' /\ JobsAreSent' /\ OneDelivery' /\ OneWriter'
      /\ MoversSeePending'
  BY <1>1 DEF RowsInv, RowFollowsRequest, JobsAreSent, OneDelivery, OneWriter,
              HasWritten, MoversSeePending, Moving, RowOf
<1>5. k[1] \in Reservations
  BY DEF SessionKey
<1>6. ASSUME NEW fate \in {"complete", "expired"}, NEW type,
             session[k] = "open", Ended(k[1]),
             session' = [session EXCEPT ![k] = fate],
             Notify(type, k),
             type # "other" /\ fate = (IF type = "completed" THEN "complete"
                                                            ELSE "expired")
      PROVE  RowsInv'
  <2>1. /\ session'[k] = fate
        /\ \A l \in SessionKey : l # k => session'[l] = session[l]
    BY <1>2, <1>6
  <2>2. \A n \in sent' : n \in sent \/ (n.key = k /\ n.type = type)
    BY <1>6, NotifyEffect
  <2>3. \A n \in sent : n.key \in SessionKey /\ n.key # k
    BY <1>3, <1>6 DEF RowsInv, NoticesAfterRequest
  <2>4. SessionsOpenedLate'
    BY <1>1, <1>6, <2>1 DEF RowsInv, SessionsOpenedLate, IdempotencyKey
  <2>5. NoticesAfterRequest'
    <3>1. \A l \in SessionKey : session'[l] \in {"complete", "expired"}
                                   => Ended(l[1])
      BY <1>6, <2>1 DEF RowsInv, NoticesAfterRequest
    <3>2. \A n \in sent' : session'[n.key] \in {"complete", "expired"}
      BY <2>1, <2>2, <2>3 DEF RowsInv, NoticesAfterRequest
    <3> QED
      BY <1>1, <3>1, <3>2 DEF NoticesAfterRequest, Ended
  <2>6. NoticesTellFate'
    <3> SUFFICES ASSUME OneEventPerFate, NEW n \in sent', n.type # "other"
                 PROVE  session'[n.key] = (IF n.type = "completed"
                                           THEN "complete" ELSE "expired")
      BY DEF NoticesTellFate, OneEventPerFate
    <3>1. CASE n \in sent
      BY <3>1, <2>1, <2>3 DEF RowsInv, NoticesTellFate
    <3>2. CASE n.key = k /\ n.type = type
      BY <3>2, <2>1, <1>6
    <3> QED
      BY <2>2, <3>1, <3>2
  <2> QED
    BY <1>4, <2>4, <2>5, <2>6 DEF RowsInv
<1>7. CASE CustomerPays(k)
  <2>1. Ended(k[1])
    BY <1>7 DEF CustomerPays, Ended
  <2> QED
    BY <1>6, <1>7, <2>1 DEF CustomerPays, Pay
<1>8. CASE SessionExpires(k)
  <2>1. Ended(k[1])
    BY <1>8 DEF SessionExpires, Safe
  <2> QED
    BY <1>6, <1>8, <2>1 DEF SessionExpires, ExpireSession
<1>9. CASE StripeSendsExtra(k)
  <2>1. PICK type \in Extra : Notify(type, k)
    BY <1>9 DEF StripeSendsExtra, SendExtra
  <2>2. /\ session[k] = "complete"
        /\ UNCHANGED session
    BY <1>9 DEF StripeSendsExtra, SendExtra
  <2>3. \A n \in sent' : n \in sent \/ (n.key = k /\ n.type = type)
    BY <2>1, NotifyEffect
  <2>4. SessionsOpenedLate'
    BY <1>1, <2>2 DEF RowsInv, SessionsOpenedLate, IdempotencyKey
  <2>5. NoticesAfterRequest'
    BY <1>1, <2>2, <2>3 DEF RowsInv, NoticesAfterRequest, Ended
  <2>6. NoticesTellFate'
    <3>1. OneEventPerFate => type = "other"
      BY <2>1, ExtraTypes DEF OneEventPerFate
    <3> QED
      BY <2>2, <2>3, <3>1 DEF RowsInv, NoticesTellFate, OneEventPerFate
  <2> QED
    BY <1>4, <2>4, <2>5, <2>6 DEF RowsInv
<1> QED
  BY <1>7, <1>8, <1>9

LEMMA InitRows == Init => RowsInv
<1> SUFFICES ASSUME Init PROVE RowsInv
  OBVIOUS
<1>1. /\ \A r \in Reservations : pc[r] = "received" /\ status[r] = "none"
      /\ \A w \in Workers : pc[w] = "idle"
      /\ \A k \in SessionKey : session[k] = "none"
      /\ sent = {}
  BY WorkersApart DEF Init, RowsInit, StripeInit
<1> QED
  BY <1>1 DEF RowsInv, RowFollowsRequest, SessionsOpenedLate,
     NoticesAfterRequest, NoticesTellFate, JobsAreSent, OneDelivery,
     OneWriter, HasWritten, MoversSeePending, Moving

LEMMA NextRows == Safe /\ TypeOK /\ RowsInv /\ [Next]_vars => RowsInv'
<1>1. ASSUME RowsInv, UNCHANGED vars
      PROVE  RowsInv'
  BY <1>1 DEF vars, dbVars, stripeVars, RowsInv, RowFollowsRequest,
     SessionsOpenedLate, NoticesAfterRequest, NoticesTellFate, JobsAreSent,
     OneDelivery, OneWriter, MoversSeePending, Ended, HasWritten, Moving,
     RowOf, IdempotencyKey, OneEventPerFate
<1> QED
  BY <1>1, RequestKeepsRows, WebhookKeepsRows, StripeKeepsRows DEF Next
=============================================================================
