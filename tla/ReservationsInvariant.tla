------------------------ MODULE ReservationsInvariant ------------------------
(***************************************************************************)
(* Why the hold count stays exact: the inductive invariant of the          *)
(* reservation service, and the configurations in which it holds.          *)
(***************************************************************************)
EXTENDS Reservations

(***************************************************************************)
(* Safe configurations.  Requests end long before Stripe expires their     *)
(* session, and either the database lets one writer in at a time, or       *)
(* Stripe creates one Event object for one thing that happened.            *)
(***************************************************************************)
OneEventPerFate == Copies = 1 /\ "expired" \notin Extra
Safe == Prompt /\ (Isolation = "sqlite" \/ OneEventPerFate)

\* While a request runs, nobody but that request has moved its row.
RowFollowsRequest == \A r \in Reservations :
    /\ pc[r] \in {"received", "holdInserted", "holdAdded", "refused"}
          => status[r] = "none"
    /\ pc[r] \in {"checkout", "attaching", "canceling", "rowWritten"}
          => status[r] = "pending"

\* Sessions are opened by requests that hold spots, all under one key.
SessionsOpenedLate == \A k \in SessionKey :
    session[k] # "none" => /\ k = IdempotencyKey(k[1], 0)
                           /\ status[k[1]] # "none"

\* Stripe speaks of a session only once the request that opened it has ended.
NoticesAfterRequest ==
    /\ \A k \in SessionKey : session[k] \in {"complete", "expired"}
                                => Ended(k[1])
    /\ \A n \in sent : session[n.key] \in {"complete", "expired"}

\* With one event per fate, a handled notice says what became of the session.
NoticesTellFate == OneEventPerFate =>
    \A n \in sent : n.type # "other" =>
        session[n.key] = (IF n.type = "completed" THEN "complete"
                                                  ELSE "expired")

JobsAreSent == \A w \in Workers :
    pc[w] # "idle" => job[w] \in sent \ processed

\* The primary key of processed_webhook_events keeps deliveries apart.
OneDelivery == \A v, w \in Workers :
    pc[v] # "idle" /\ pc[w] # "idle" /\ job[v] = job[w] => v = w

OneWriter == Isolation = "sqlite" =>
    \A p, q \in Procs : HasWritten(p) /\ HasWritten(q) => p = q

Moving(w) == pc[w] \in {"confirming", "expiring", "rowWritten"}

\* The status a delivery read is still there when it acts on it.
MoversSeePending == \A w \in Workers :
    Moving(w) => /\ status[RowOf(w)] = "pending"
                 /\ job[w].type # "other"

\* The row lock on event_holds that the capacity check leans on.
HoldLocked ==
    /\ \A r \in Reservations : pc[r] = "holdAdded" => Fits(r)
    /\ \A r, s \in Reservations :
          /\ pc[r] = "holdAdded"
          /\ pc[s] = "holdAdded"
          /\ ShowOf(r) = ShowOf(s)
          => r = s

HeldUnderCap == \A e \in Shows : held[e] <= Cap

RowsInv == /\ RowFollowsRequest
           /\ SessionsOpenedLate
           /\ NoticesAfterRequest
           /\ NoticesTellFate
           /\ JobsAreSent
           /\ OneDelivery
           /\ OneWriter
           /\ MoversSeePending

HoldsInv == HoldLocked /\ HoldExact /\ HeldUnderCap

IInv == TypeOK /\ RowsInv /\ HoldsInv
-----------------------------------------------------------------------------
(***************************************************************************)
(* Why answered notices have done their work, in every configuration: a    *)
(* notice is about a row that was committed before its session was opened, *)
(* and such a row never becomes pending again.                             *)
(***************************************************************************)
Settled(r) == status[r] \notin {"none", "pending"}

BeforeRow == {"received", "holdInserted", "holdAdded", "refused"}
WithRow == {"checkout", "attaching", "canceling", "rowWritten"}

RowsComeFirst ==
    /\ \A r \in Reservations : /\ pc[r] \in BeforeRow => status[r] = "none"
                               /\ pc[r] \in WithRow => status[r] # "none"
    /\ \A k \in SessionKey : session[k] # "none" => status[k[1]] # "none"

NoticesOfSessions ==
    /\ \A n \in sent : session[n.key] # "none"
    /\ \A w \in Workers : pc[w] # "idle" => job[w] \in sent

IgnoredIsSettled == \A w \in Workers :
    pc[w] = "ignoring" /\ job[w].type \in DOMAIN Handled => Settled(RowOf(w))

NoticeInv == /\ RowsComeFirst
             /\ NoticesOfSessions
             /\ IgnoredIsSettled
             /\ AnsweredIsApplied
-----------------------------------------------------------------------------
(***************************************************************************)
(* Why paid spots are kept: what to add to IInv.  A paid session is spoken *)
(* of as expired only if Stripe says so of it later.                       *)
(***************************************************************************)
ExpirersHeardExpired == \A w \in Workers :
    pc[w] \in {"expiring", "rowWritten"} => job[w].type = "expired"

NeverBoth == "expired" \notin Extra
ExpiredIsExpired == NeverBoth =>
    \A n \in sent : n.type = "expired" => session[n.key] = "expired"

\* Who can still pay has a hold.
PayableIsPending == \A k \in SessionKey :
    session[k] = "open" /\ pc[k[1]] = "done" => status[k[1]] = "pending"

PaymentInv == /\ ExpirersHeardExpired
              /\ ExpiredIsExpired
              /\ PayableIsPending
              /\ NeverBoth => PaidKept
=============================================================================
