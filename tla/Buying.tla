------------------------------- MODULE Buying -------------------------------
(***************************************************************************)
(* The reservation service with what stands around it: the startup guard   *)
(* (src/app/config.py), restarts under other secrets, the reservation form *)
(* (src/web/app.js), Checkout in the buyer's browser, and the success and  *)
(* cancel pages (src/web/reservation-*.html), which read the row.          *)
(***************************************************************************)
EXTENDS Reservations

CONSTANTS Buyers,      \* one browser tab each
          Polls,       \* fetches of the success page before it gives up
          Settings     \* secrets that an operator may start the service with

ASSUME PollsNat == Polls \in Nat
ASSUME NoKeyApart == NoKey \notin Reservations
ASSUME SecretsKnown == Settings \subseteq [key  : {"", "sk_live", "sk_test"},
                                           hook : {"", "whsec", "padded"}]

VARIABLES secrets,     \* the Stripe settings of the running process
          tab,         \* what the buyer's tab shows
          post,        \* the reservation its page is about
          text,        \* the status line of that page
          polls        \* fetches the success page has left

pageVars == <<tab, post, text, polls>>
siteVars == <<vars, secrets, pageVars>>

Tab == {"form", "waiting", "checkout", "success", "cancel"}
Refusal == {"off", "sold out", "released", "failed", "unreachable"}
SiteTypeOK == /\ TypeOK
              /\ secrets \in Settings
              /\ tab \in [Buyers -> Tab]
              /\ post \in [Buyers -> Reservations \cup {NoKey}]
              /\ text \in [Buyers -> {"", "checking", "none"} \cup Refusal
                                            \cup Status]
              /\ polls \in [Buyers -> 0..Polls]

SiteInit == /\ Init
            /\ secrets \in Settings
            /\ tab = [b \in Buyers |-> "form"]
            /\ post = [b \in Buyers |-> NoKey]
            /\ text = [b \in Buyers |-> ""]
            /\ polls = [b \in Buyers |-> 0]
-----------------------------------------------------------------------------
(***************************************************************************)
(* payments_enabled: off without secrets, on with a test pair; with half a *)
(* pair or a live key the process does not start.  The guard strips the    *)
(* secrets; the signature check takes the webhook secret as it is, so one  *)
(* with a space around it turns payments on and verifies nothing.          *)
(***************************************************************************)
Off == secrets.key = "" /\ secrets.hook = ""
\* Bug: any key will do.
BugAnyKey == secrets.key # "" /\ secrets.hook # ""
On == secrets.key = "sk_test" /\ secrets.hook # ""
Verifies == On /\ secrets.hook = "whsec"

\* A shutdown lets the requests in progress end; RequestDies and WebhookDies
\* are those that it does not.
Restart(s) == /\ \A r \in Reservations : pc[r] = "received" \/ Ended(r)
              /\ \A w \in Workers : pc[w] = "idle"
              /\ secrets' = s
              /\ UNCHANGED <<vars, pageVars>>
-----------------------------------------------------------------------------
Line(b, line) == text' = [text EXCEPT ![b] = line]
Visit(b, page, line) == tab' = [tab EXCEPT ![b] = page] /\ Line(b, line)

\* The submit handler disables the button until it has an answer.
Press(b, r) == /\ tab[b] = "form"
               /\ pc[r] = "received"
               /\ \A c \in Buyers : post[c] # r
               /\ post' = [post EXCEPT ![b] = r]
               /\ Visit(b, "waiting", "")
               /\ UNCHANGED <<vars, secrets, polls>>

\* _require_payments, then the handler.
Posted(r) == \E b \in Buyers : tab[b] = "waiting" /\ post[b] = r
Serve(r) == /\ pc[r] = "received" => On /\ Posted(r)
            /\ Request(r)
            /\ UNCHANGED <<secrets, pageVars>>

Deliver(w) == /\ Verifies
              /\ Webhook(w)
              /\ UNCHANGED <<secrets, pageVars>>

\* Bug: the answer is sent before the hold is released.
BugAnswerEarly(r) == IF pc[r] \in {"canceling", "rowWritten"}
                     THEN "released" ELSE "none"
\* The error that a request ends with; "none" while it goes on, or without one.
ErrorOf(r) == CASE pc[r] = "received" /\ Off -> "off"
                [] pc[r] = "refused"         -> "sold out"
                [] pc[r] = "failed"          -> "released"
                [] pc[r] = "dead"            -> "failed"
                [] OTHER                     -> "none"

Refused(b) == /\ tab[b] = "waiting"
              /\ ErrorOf(post[b]) # "none"
              /\ Visit(b, "form", ErrorOf(post[b]))
              /\ UNCHANGED <<vars, secrets, post, polls>>

\* The POST or its answer is lost; the service may be at work all the same.
Unreachable(b) == /\ tab[b] = "waiting"
                  /\ Visit(b, "form", "unreachable")
                  /\ UNCHANGED <<vars, secrets, post, polls>>

GoToCheckout(b) == /\ tab[b] = "waiting"
                   /\ pc[post[b]] = "done"
                   /\ Visit(b, "checkout", "")
                   /\ UNCHANGED <<vars, secrets, post, polls>>

PayInCheckout(b) == /\ tab[b] = "checkout"
                    /\ CustomerPays(saved[post[b]])
                    /\ Visit(b, "success", "checking")
                    /\ polls' = [polls EXCEPT ![b] = Polls]
                    /\ UNCHANGED <<secrets, post>>

LeaveCheckout(b) == /\ tab[b] = "checkout"
                    /\ Visit(b, "cancel", "checking")
                    /\ UNCHANGED <<vars, secrets, post, polls>>

\* The link back to the events; or the browser's Back, into Checkout.
GoBack(b) == /\ \/ tab[b] \in {"cancel", "success"} /\ Visit(b, "form", "")
                \/ tab[b] = "cancel" /\ Visit(b, "checkout", "")
             /\ polls' = [polls EXCEPT ![b] = 0]
             /\ UNCHANGED <<vars, secrets, post>>
-----------------------------------------------------------------------------
\* Bug: who comes back from Checkout has paid, so the reservation is made.
BugTrustRedirect(r) == "confirmed"
\* GET /api/reservations/{id}.
StatusOf(r) == status[r]

(***************************************************************************)
(* One fetch of the success page.  It stops at an error, at any status but *)
(* "pending", after its last try, and, its line as it is, when nobody      *)
(* answers.                                                                *)
(***************************************************************************)
Stop(b) == polls' = [polls EXCEPT ![b] = 0]
Poll(b) == /\ tab[b] = "success"
           /\ polls[b] > 0
           /\ \/ /\ On
                 /\ Line(b, StatusOf(post[b]))
                 /\ IF StatusOf(post[b]) = "pending"
                    THEN polls' = [polls EXCEPT ![b] = @ - 1]
                    ELSE Stop(b)
              \/ Off /\ Line(b, "off") /\ Stop(b)
              \/ UNCHANGED text /\ Stop(b)
           /\ UNCHANGED <<vars, secrets, tab, post>>

\* The cancel page asks once; anything but a status leaves its line alone.
LookUp(b) == /\ tab[b] = "cancel"
             /\ text[b] = "checking"
             /\ On
             /\ Line(b, StatusOf(post[b]))
             /\ UNCHANGED <<vars, secrets, tab, post, polls>>

Browse(b) == \/ \E r \in Reservations : Press(b, r)
             \/ Refused(b) \/ Unreachable(b) \/ GoToCheckout(b)
             \/ PayInCheckout(b) \/ LeaveCheckout(b) \/ GoBack(b)
             \/ Poll(b) \/ LookUp(b)

\* What happens at Stripe and to the process, whatever its settings are.
Outside == \/ \E r \in Reservations : RequestDies(r)
           \/ \E w \in Workers : WebhookDies(w)
           \/ \E k \in SessionKey : SessionExpires(k) \/ StripeSendsExtra(k)

SiteNext == \/ \E s \in Settings : Restart(s)
            \/ \E r \in Reservations : Serve(r)
            \/ \E w \in Workers : Deliver(w)
            \/ \E b \in Buyers : Browse(b)
            \/ Outside /\ UNCHANGED <<secrets, pageVars>>

SiteSpec == SiteInit /\ [][SiteNext]_siteVars
-----------------------------------------------------------------------------
(***************************************************************************)
(* The success page tells the truth, and goes on doing so: it says         *)
(* "confirmed" only of a reservation that is paid for and confirmed, and,  *)
(* as whoever gets there has paid, it never says that the spots are gone   *)
(* (reservation-success.html:26, one buyer's poll against the webhooks).   *)
(***************************************************************************)
SuccessPageIsTrue ==
    \A b \in Buyers : tab[b] = "success" =>
       /\ session[saved[post[b]]] = "complete"
       /\ text[b] = "confirmed" => status[post[b]] = "confirmed"
       /\ text[b] \notin {"expired", "canceled", "none"}

(***************************************************************************)
(* A refusal holds nothing: who reads that the event is sold out, that     *)
(* reservations are off, or that the hold was released                     *)
(* (api/reservations.py:85) keeps no spot, then and later.                 *)
(***************************************************************************)
RefusedHoldsNothing ==
    \A b \in Buyers : text[b] \in {"off", "sold out", "released"} /\ tab[b] = "form"
                         => status[post[b]] \notin Live

(***************************************************************************)
(* No real charges: a Checkout session is opened only by a process with a  *)
(* test key, through retries and restarts under other secrets              *)
(* (config.py:44).                                                         *)
(***************************************************************************)
TestModeOnly == [][session' # session /\ secrets.key # "sk_test" =>
                      \A k \in SessionKey : session[k] = "none" =>
                                               session'[k] = "none"]_siteVars
-----------------------------------------------------------------------------
(***************************************************************************)
(* Fairness.  As for the service, with what the surroundings add: a        *)
(* request is served while its page waits and payments are on, notices     *)
(* are delivered only to a process that verifies them, and in the end the  *)
(* operator leaves such a process running.  No buyer has to do anything.   *)
(***************************************************************************)
SiteFairness ==
    /\ \A r \in Reservations : WF_siteVars(Serve(r))
    /\ \A w \in Workers : WF_siteVars(pc[w] # "idle" /\ Deliver(w))
    /\ WF_siteVars(\E w \in Workers, n \in Notice \ acked :
                      /\ Verifies
                      /\ ApplyWebhook(w, n)
                      /\ UNCHANGED <<secrets, pageVars>>)
    /\ \A k \in SessionKey : WF_siteVars(/\ SessionExpires(k)
                                         /\ UNCHANGED <<secrets, pageVars>>)
    /\ <>[]Verifies
    /\ <>[][\A w \in Workers : ~WebhookDies(w)]_siteVars

SiteFairSpec == SiteSpec /\ SiteFairness
-----------------------------------------------------------------------------
(***************************************************************************)
(* Why the pages tell the truth: where a buyer stands follows from the     *)
(* stage of the request behind the page, and no two tabs share a request.  *)
(***************************************************************************)
PagesFollow == \A b \in Buyers :
    /\ tab[b] # "form" => post[b] \in Reservations
    /\ tab[b] \in {"checkout", "success", "cancel"} => pc[post[b]] = "done"

OneTabEach == \A b, c \in Buyers :
    post[b] \in Reservations /\ post[b] = post[c] => b = c

SavedWhenDone == \A r \in Reservations :
    pc[r] = "done" => saved[r] = IdempotencyKey(r, 0)

ServedUnderTestKey == \A r \in Reservations :
    pc[r] = "received" \/ Ended(r) \/ secrets.key = "sk_test"

RefusedHaveEnded == \A b \in Buyers :
    tab[b] = "form" /\ text[b] \in {"off", "sold out", "released"} =>
       /\ post[b] \in Reservations
       /\ text[b] = "off"      => pc[post[b]] = "received"
       /\ text[b] = "sold out" => pc[post[b]] = "refused"
       /\ text[b] = "released" => pc[post[b]] = "failed"

SiteInv == /\ SiteTypeOK
           /\ PagesFollow
           /\ OneTabEach
           /\ SavedWhenDone
           /\ ServedUnderTestKey
           /\ RefusedHaveEnded
=============================================================================
