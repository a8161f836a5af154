------------------------------- MODULE Stripe -------------------------------
(***************************************************************************)
(* Stripe as the service uses it: Checkout sessions opened under an        *)
(* idempotency key, and the webhook notices sent about them.  External:    *)
(* modelled from stripe_checkout.py, the webhook handler and the tests.    *)
(*                                                                         *)
(* `sent' is the set of notices ever sent.  A notice stays in it, so it    *)
(* can reach the webhook late, more than once and in any order.            *)
(***************************************************************************)
EXTENDS ReservationRows

CONSTANTS MaxRetries,    \* settings.http_max_retries
          Copies,        \* Event objects (distinct ids) Stripe may create
                         \* for one thing that happened
          Extra          \* types of further notices about a paid session

ASSUME MaxRetriesNat == MaxRetries \in Nat
ASSUME CopiesPositive == Copies \in Nat \ {0}
ASSUME ExtraTypes == Extra \subseteq {"expired", "other"}

VARIABLES session,       \* session[k]: state of the session with that key
          sent,          \* notices sent so far
          acked          \* notices answered with a 2xx that Stripe heard

stripeVars == <<session, sent, acked>>

(***************************************************************************)
(* An idempotency key names the reservation whose metadata the session     *)
(* carries; the second part tells keys of one reservation apart, should    *)
(* the client ever use more than one.                                      *)
(***************************************************************************)
SessionKey == Reservations \X (0..MaxRetries)
Notice == [type : {"completed", "expired", "other"},
           key  : SessionKey,
           copy : 1..Copies]

StripeTypeOK == /\ session \in [SessionKey ->
                                  {"none", "open", "complete", "expired"}]
                /\ sent \subseteq Notice
                /\ acked \subseteq Notice

StripeInit == /\ session = [k \in SessionKey |-> "none"]
              /\ sent = {}
              /\ acked = {}

Notify(type, k) ==
    sent' = sent \cup [type : {type}, key : {k}, copy : 1..Copies]

\* A second create under the same key answers with the session of the first.
OpenSession(k) ==
    session' = [session EXCEPT ![k] = IF @ = "none" THEN "open" ELSE @]

Pay(k) == /\ session[k] = "open"
          /\ session' = [session EXCEPT ![k] = "complete"]
          /\ Notify("completed", k)
          /\ UNCHANGED acked

ExpireSession(k) == /\ session[k] = "open"
                    /\ session' = [session EXCEPT ![k] = "expired"]
                    /\ Notify("expired", k)
                    /\ UNCHANGED acked

\* Anything else Stripe says of a paid session: an event type the service does
\* not handle, or the expired-after-completed that service.py:166 prepares for.
SendExtra(k) == /\ session[k] = "complete"
                /\ \E type \in Extra : Notify(type, k)
                /\ UNCHANGED <<session, acked>>
=============================================================================
