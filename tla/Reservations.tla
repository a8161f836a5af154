---------------------------- MODULE Reservations ----------------------------
(***************************************************************************)
(* The reservation service: the handlers of api/reservations.py, the       *)
(* transactions of reservations/service.py and the Checkout call of        *)
(* reservations/stripe_checkout.py, one action per statement that another  *)
(* transaction can come between.                                           *)
(*                                                                         *)
(* A reservation id doubles as the process that serves its POST; webhook   *)
(* deliveries run on Workers.  The database variables hold committed data: *)
(* what a transaction has written so far is told by its stage, and takes   *)
(* effect when it commits.  The locks the statements take (see "Locks")    *)
(* make that the same as writing in place.                                 *)
(***************************************************************************)
EXTENDS Stripe

CONSTANTS Workers,    \* webhook deliveries in flight at once
          Isolation,  \* "sqlite" or "postgres" (db.py)
          Prompt,     \* TRUE: Stripe expires a session (30 minutes) only
                      \* after the POST that opened it has ended
          Faults      \* which of the faults below can happen

ASSUME WorkersApart == Workers \cap Reservations = {}
ASSUME IsolationKnown == Isolation \in {"sqlite", "postgres"}
ASSUME PromptBool == Prompt \in BOOLEAN
ASSUME FaultsKnown == Faults \subseteq {"request", "webhook", "reply"}

VARIABLES holdRows,   \* events with a row in event_holds
          held,       \* held_quantity of each event (0 before the row exists)
          saved,      \* stripe_session_id of each reservation
          processed,  \* ids in processed_webhook_events
          pc,         \* stage of each process
          tries,      \* attempts at the Checkout call made so far
          job         \* notice that each worker is delivering

dbVars == <<body, status, holdRows, held, saved, processed>>
vars == <<dbVars, stripeVars, pc, tries, job>>

Procs == Reservations \cup Workers
NoKey == <<>>
NoNotice == [type |-> "none"]

RequestStage == {"received", "holdInserted", "holdAdded", "checkout",
                 "attaching", "canceling", "rowWritten",
                 "done", "refused", "failed", "dead"}
EndStage == {"done", "refused", "failed", "dead"}
WorkerStage == {"idle", "recorded", "ignoring", "confirming", "expiring",
                "rowWritten"}

TypeOK == /\ RowsTypeOK
          /\ StripeTypeOK
          /\ holdRows \subseteq Shows
          /\ held \in [Shows -> Nat]
          /\ saved \in [Reservations -> SessionKey \cup {NoKey}]
          /\ processed \subseteq Notice
          /\ pc \in [Procs -> RequestStage \cup WorkerStage]
          /\ \A r \in Reservations : pc[r] \in RequestStage
          /\ \A w \in Workers : pc[w] \in WorkerStage
          /\ tries \in [Reservations -> 0..MaxRetries]
          /\ job \in [Workers -> Notice \cup {NoNotice}]
          /\ \A w \in Workers : pc[w] # "idle" => job[w] \in Notice

Init == /\ RowsInit
        /\ StripeInit
        /\ holdRows = {}
        /\ held = [e \in Shows |-> 0]
        /\ saved = [r \in Reservations |-> NoKey]
        /\ processed = {}
        /\ pc = [p \in Procs |-> IF p \in Workers THEN "idle" ELSE "received"]
        /\ tries = [r \in Reservations |-> 0]
        /\ job = [w \in Workers |-> NoNotice]

Goto(p, stage) == pc' = [pc EXCEPT ![p] = stage]

Ended(r) == pc[r] \in EndStage

\* The row a process works on, and that row's event and quantity.
RowOf(p)  == IF p \in Workers THEN job[p].key[1] ELSE p
ShowOf(p) == body[RowOf(p)].event_id
QtyOf(p)  == body[RowOf(p)].quantity
-----------------------------------------------------------------------------
(***************************************************************************)
(* Locks.  SQLite: one writer at a time, from its first INSERT or UPDATE   *)
(* to COMMIT or ROLLBACK.  Postgres (READ COMMITTED): a written row stays  *)
(* locked to the end of the transaction, and an INSERT waits for an open   *)
(* transaction that inserted the same primary key.  Plain SELECTs do not   *)
(* wait.                                                                   *)
(***************************************************************************)
HasWritten(p) == pc[p] \in {"holdInserted", "holdAdded", "rowWritten",
                            "recorded", "ignoring", "confirming", "expiring"}

\* Bug: SQLite without its write lock (an engine that never begins a write).
BugNoWriteLock(p) == TRUE
CanWrite(p) == Isolation = "sqlite" =>
                  \A o \in Procs \ {p} : ~HasWritten(o)

RowFree(p) == \A o \in Procs \ {p} :
                 ~(pc[o] = "rowWritten" /\ RowOf(o) = RowOf(p))

\* Bug: the capacity check takes no lock ("count in a separate statement").
BugNoHoldLock(p) == TRUE
HoldFree(p) == \A o \in Reservations \ {p} :
                  ~(pc[o] = "holdAdded" /\ ShowOf(o) = ShowOf(p))

HoldKeyFree(p) == ShowOf(p) \notin holdRows =>
    \A o \in Reservations \ {p} :
       ~(pc[o] \in {"holdInserted", "holdAdded"} /\ ShowOf(o) = ShowOf(p))

NoticeFree(w, n) == \A o \in Workers \ {w} : pc[o] # "idle" => job[o] # n
-----------------------------------------------------------------------------
(***************************************************************************)
(* POST /api/reservations: create_pending, one transaction.                *)
(***************************************************************************)
InsertHold(r) == /\ pc[r] = "received"
                 /\ CanWrite(r)
                 /\ HoldKeyFree(r)
                 /\ Goto(r, "holdInserted")
                 /\ UNCHANGED <<dbVars, stripeVars, tries, job>>

\* Bug: is there any spot left, instead of are there enough.
BugAnySpotLeft(r) == held[ShowOf(r)] < Cap
Fits(r) == held[ShowOf(r)] + QtyOf(r) <= Cap

AddHold(r) == /\ pc[r] = "holdInserted"
              /\ HoldFree(r)
              /\ Fits(r)
              /\ Goto(r, "holdAdded")
              /\ UNCHANGED <<dbVars, stripeVars, tries, job>>

Refuse(r) == /\ pc[r] = "holdInserted"
             /\ ~Fits(r)
             /\ Goto(r, "refused")
             /\ UNCHANGED <<dbVars, stripeVars, tries, job>>

CommitPending(r) ==
    /\ pc[r] = "holdAdded"
    /\ holdRows' = holdRows \cup {ShowOf(r)}
    /\ held' = [held EXCEPT ![ShowOf(r)] = @ + QtyOf(r)]
    /\ status' = [status EXCEPT ![r] = "pending"]
    /\ Goto(r, "checkout")
    /\ UNCHANGED <<body, saved, processed, stripeVars, tries, job>>
-----------------------------------------------------------------------------
(***************************************************************************)
(* The Checkout call under call_with_backoff, and its two outcomes.        *)
(* A lost reply, a 5xx or an answer without a url may leave a session      *)
(* behind; no url is raised outside the retried call.                      *)
(***************************************************************************)
Failures  == {"connection", "rate_limited", "server_error",
              "rejected", "no_url"}
Retryable == {"connection", "rate_limited", "server_error"}
MayOpen   == {"connection", "server_error", "no_url"}
MustOpen  == {"no_url"}

\* Bug: a fresh key for every attempt.
BugKeyPerAttempt(r, attempt) == <<r, attempt>>
IdempotencyKey(r, attempt) == <<r, 0>>

\* Bug: one attempt too many.
BugOneMoreRetry(r, f) == f \in Retryable /\ tries[r] <= MaxRetries
MayRetry(r, f) == f \in Retryable /\ tries[r] < MaxRetries

CheckoutOpens(r) == /\ pc[r] = "checkout"
                    /\ OpenSession(IdempotencyKey(r, tries[r]))
                    /\ Goto(r, "attaching")
                    /\ UNCHANGED <<dbVars, sent, acked, tries, job>>

CheckoutFails(r, f) ==
    /\ pc[r] = "checkout"
    /\ \/ f \in MayOpen /\ OpenSession(IdempotencyKey(r, tries[r]))
       \/ f \notin MustOpen /\ UNCHANGED session
    /\ IF MayRetry(r, f)
       THEN /\ tries' = [tries EXCEPT ![r] = @ + 1]
            /\ UNCHANGED pc
       ELSE /\ Goto(r, "canceling")
            /\ UNCHANGED tries
    /\ UNCHANGED <<dbVars, sent, acked, job>>

\* attach_session: its status check reads the object that create_pending left
\* in the session's identity map, which still says "pending".
AttachSession(r) ==
    /\ pc[r] = "attaching"
    /\ CanWrite(r)
    /\ RowFree(r)
    /\ saved' = [saved EXCEPT ![r] = IdempotencyKey(r, tries[r])]
    /\ Goto(r, "done")
    /\ UNCHANGED <<body, status, holdRows, held, processed,
                   stripeVars, tries, job>>
-----------------------------------------------------------------------------
(***************************************************************************)
(* Giving spots back: cancel_pending after a failed Checkout call, and the *)
(* expire transition of a webhook.  Each writes the reservation row, then  *)
(* event_holds, then commits.  cancel_pending's status check, like         *)
(* attach_session's, never reads the row.                                  *)
(***************************************************************************)
\* Bug: one spot back, whatever the quantity.
BugReleaseOne(p) == held' = [held EXCEPT ![ShowOf(p)] =
                                IF @ >= QtyOf(p) THEN @ - 1 ELSE @]
Release(p) == held' = [held EXCEPT ![ShowOf(p)] =
                          IF @ >= QtyOf(p) THEN @ - QtyOf(p) ELSE @]

\* An UPDATE whose WHERE matches no row has no lock to wait for.
CanRelease(p) == held[ShowOf(p)] >= QtyOf(p) => HoldFree(p)

WriteRow(p) == /\ pc[p] \in {"canceling", "expiring"}
               /\ CanWrite(p)
               /\ RowFree(p)
               /\ Goto(p, "rowWritten")
               /\ UNCHANGED <<dbVars, stripeVars, tries, job>>

CommitCancel(r) ==
    /\ pc[r] = "rowWritten"
    /\ CanRelease(r)
    /\ status' = [status EXCEPT ![r] = "canceled"]
    /\ Release(r)
    /\ Goto(r, "failed")
    /\ UNCHANGED <<body, holdRows, saved, processed, stripeVars, tries, job>>

\* The process stops or the database fails before the next statement.
RequestDies(r) == /\ "request" \in Faults
                  /\ pc[r] # "received"
                  /\ ~Ended(r)
                  /\ Goto(r, "dead")
                  /\ UNCHANGED <<dbVars, stripeVars, tries, job>>
-----------------------------------------------------------------------------
(***************************************************************************)
(* POST /api/stripe/webhook: apply_webhook and _transition.                *)
(***************************************************************************)
\* Bug: nobody subscribed to checkout.session.expired.
BugOnlyCompleted == [completed |-> "confirming"]
Handled == [completed |-> "confirming", expired |-> "expiring"]

Answer(n) == \/ acked' = acked \cup {n}
             \/ "reply" \in Faults /\ UNCHANGED acked

\* Bug: the event id is committed before the transition is made.
BugRecordFirst(w, n) == /\ pc[w] = "idle"
                        /\ n \in sent \ processed
                        /\ CanWrite(w)
                        /\ processed' = processed \cup {n}
                        /\ job' = [job EXCEPT ![w] = n]
                        /\ Goto(w, "recorded")
                        /\ UNCHANGED <<body, status, holdRows, held, saved,
                                       stripeVars, tries>>

\* The INSERT of the event id, flushed.
ApplyWebhook(w, n) == /\ pc[w] = "idle"
                      /\ n \in sent \ processed
                      /\ CanWrite(w)
                      /\ NoticeFree(w, n)
                      /\ job' = [job EXCEPT ![w] = n]
                      /\ Goto(w, "recorded")
                      /\ UNCHANGED <<dbVars, stripeVars, tries>>

DuplicateWebhook(w, n) == /\ pc[w] = "idle"
                          /\ n \in sent \cap processed
                          /\ CanWrite(w)
                          /\ Answer(n)
                          /\ UNCHANGED <<dbVars, session, sent,
                                         pc, tries, job>>

\* Bug: the row's status is not looked at.
BugBlindVerdict(n) == IF n.type \in DOMAIN Handled THEN Handled[n.type]
                                                   ELSE "ignoring"
\* Bug: every event type that is not "completed" expires the hold.
BugOtherExpires(n) ==
    IF status[n.key[1]] # "pending" THEN "ignoring"
    ELSE IF n.type = "completed" THEN "confirming" ELSE "expiring"

\* The SELECT of the row, and the choice made on the status it returned.
Verdict(n) == IF status[n.key[1]] = "pending" /\ n.type \in DOMAIN Handled
              THEN Handled[n.type]
              ELSE "ignoring"

Transition(w) == /\ pc[w] = "recorded"
                 /\ Goto(w, Verdict(job[w]))
                 /\ UNCHANGED <<dbVars, stripeVars, tries, job>>

CommitWebhook(w) == /\ processed' = processed \cup {job[w]}
                    /\ Answer(job[w])
                    /\ job' = [job EXCEPT ![w] = NoNotice]
                    /\ Goto(w, "idle")
                    /\ UNCHANGED <<body, holdRows, saved,
                                   session, sent, tries>>

CommitIgnored(w) == /\ pc[w] = "ignoring"
                    /\ CommitWebhook(w)
                    /\ UNCHANGED <<status, held>>

CommitConfirm(w) ==
    /\ pc[w] = "confirming"
    /\ RowFree(w)
    /\ status' = [status EXCEPT ![RowOf(w)] = "confirmed"]
    /\ CommitWebhook(w)
    /\ UNCHANGED held

CommitExpire(w) ==
    /\ pc[w] = "rowWritten"
    /\ CanRelease(w)
    /\ status' = [status EXCEPT ![RowOf(w)] = "expired"]
    /\ Release(w)
    /\ CommitWebhook(w)

\* Bug: any exception, not only IntegrityError, is answered with 200.
BugAnswersFailure(w) == /\ "webhook" \in Faults
                        /\ pc[w] # "idle"
                        /\ Answer(job[w])
                        /\ Goto(w, "idle")
                        /\ job' = [job EXCEPT ![w] = NoNotice]
                        /\ UNCHANGED <<dbVars, session, sent, tries>>

\* Rolled back; Stripe got no 2xx and delivers the notice again.
WebhookDies(w) == /\ "webhook" \in Faults
                  /\ pc[w] # "idle"
                  /\ Goto(w, "idle")
                  /\ job' = [job EXCEPT ![w] = NoNotice]
                  /\ UNCHANGED <<dbVars, stripeVars, tries>>
-----------------------------------------------------------------------------
\* Only a reply with the url lets anybody pay.
CustomerPays(k) == /\ pc[k[1]] = "done"
                   /\ Pay(k)
                   /\ UNCHANGED <<dbVars, pc, tries, job>>

SessionExpires(k) == /\ Prompt => Ended(k[1])
                     /\ ExpireSession(k)
                     /\ UNCHANGED <<dbVars, pc, tries, job>>

StripeSendsExtra(k) == /\ SendExtra(k)
                       /\ UNCHANGED <<dbVars, pc, tries, job>>

Request(r) == \/ InsertHold(r) \/ AddHold(r) \/ Refuse(r) \/ CommitPending(r)
              \/ CheckoutOpens(r) \/ (\E f \in Failures : CheckoutFails(r, f))
              \/ AttachSession(r) \/ WriteRow(r) \/ CommitCancel(r)

Webhook(w) == \/ \E n \in Notice : ApplyWebhook(w, n) \/ DuplicateWebhook(w, n)
              \/ Transition(w) \/ CommitIgnored(w) \/ CommitConfirm(w)
              \/ WriteRow(w) \/ CommitExpire(w)

Next == \/ \E r \in Reservations : Request(r) \/ RequestDies(r)
        \/ \E w \in Workers : Webhook(w) \/ WebhookDies(w)
        \/ \E k \in SessionKey :
              CustomerPays(k) \/ SessionExpires(k) \/ StripeSendsExtra(k)

Spec == Init /\ [][Next]_vars
-----------------------------------------------------------------------------
(***************************************************************************)
(* event_holds is the running count of the spots that are pending or       *)
(* confirmed (models.py:50), through every retry, redelivery and crash.    *)
(***************************************************************************)
HoldExact == \A e \in Shows : held[e] = SpotsTaken(e)

(***************************************************************************)
(* Money taken is a spot kept: from the payment on, whatever notices come  *)
(* in whatever order, the row is pending or confirmed.                     *)
(***************************************************************************)
PaidKept == \A k \in SessionKey :
               session[k] = "complete" => status[k[1]] \in Live

(***************************************************************************)
(* However often the Checkout call is retried, Stripe holds at most one    *)
(* session for a reservation, so nobody can pay for it twice.              *)
(***************************************************************************)
OneSession == \A k, l \in SessionKey :
                 /\ k[1] = l[1]
                 /\ session[k] # "none"
                 /\ session[l] # "none"
                 => k = l

(***************************************************************************)
(* An expired notice that comes after the completed one does not undo the  *)
(* payment or free the spot (service.py:166).                              *)
(***************************************************************************)
ConfirmedStays == [][\A r \in Reservations :
                        status[r] = "confirmed" => status'[r] = "confirmed"]_vars

(***************************************************************************)
(* A notice answered with 2xx is recorded, and a recorded notice has done  *)
(* its work: its reservation is settled.  Otherwise a failure between the  *)
(* two would lose a payment for good, since Stripe stops delivering.       *)
(***************************************************************************)
AnsweredIsApplied ==
    /\ acked \subseteq processed
    /\ \A n \in processed : n.type \in DOMAIN Handled =>
                               status[n.key[1]] \notin {"none", "pending"}

(***************************************************************************)
(* The service implements the ledger: every change of a row is one legal   *)
(* move, made against the cap as the rows themselves count it.             *)
(***************************************************************************)
Ledger == INSTANCE ReservationLedger WITH body <- body, status <- status
ImplementsLedger == Ledger!Spec
-----------------------------------------------------------------------------
(***************************************************************************)
(* Fairness.  The event loop runs every handler it has started and the     *)
(* locks are released in finitely many steps; Stripe expires an unpaid     *)
(* session and delivers a notice until it hears a 2xx (it tries for three  *)
(* days); deliveries do not fail for ever.  Nobody has to pay.             *)
(***************************************************************************)
Fairness ==
    /\ \A r \in Reservations : WF_vars(Request(r))
    /\ \A w \in Workers : WF_vars(/\ pc[w] # "idle"
                                  /\ Webhook(w))
    /\ WF_vars(\E w \in Workers, n \in Notice : /\ n \notin acked
                                                /\ ApplyWebhook(w, n))
    /\ \A k \in SessionKey : WF_vars(SessionExpires(k))
    /\ <>[][\A w \in Workers : ~WebhookDies(w)]_vars

FairSpec == Spec /\ Fairness

(***************************************************************************)
(* A hold lasts until it is paid for, expires or is canceled (README.md:50 *)
(* "A hold lasts until Stripe expires the Checkout Session (30 minutes) or *)
(* the webhook marks it confirmed"): no spot stays pending for ever.       *)
(***************************************************************************)
EveryHoldSettles == \A r \in Reservations :
                       status[r] = "pending" ~> status[r] # "pending"

(***************************************************************************)
(* Whoever pays is confirmed in the end, even when deliveries fail half    *)
(* way, are repeated, or their answers are lost.                           *)
(***************************************************************************)
PaidIsConfirmed == \A k \in SessionKey :
                      session[k] = "complete" ~> status[k[1]] = "confirmed"
=============================================================================
