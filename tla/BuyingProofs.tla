---------------------------- MODULE BuyingProofs ----------------------------
(***************************************************************************)
(* Theorems about the reservation site: what runs inside it is the         *)
(* reservation service, so the service's theorems hold of it; and its      *)
(* pages and answers tell buyers the truth.                                *)
(***************************************************************************)
EXTENDS Buying, ReservationsProofs

USE DEF Procs, RequestStage, WorkerStage, EndStage

-----------------------------------------------------------------------------
(***************************************************************************)
(* What the service's own steps do to the stages that the pages lean on.   *)
(***************************************************************************)
LEMMA RequestStages ==
  ASSUME TypeOK, NEW r \in Reservations, Request(r) \/ RequestDies(r)
  PROVE  /\ pc[r] \notin EndStage
         /\ pc[r] = "received" => ~RequestDies(r)
         /\ pc' = [pc EXCEPT ![r] = pc'[r]]
         /\ \/ pc'[r] # "done" /\ UNCHANGED saved
            \/ saved' = [saved EXCEPT ![r] = IdempotencyKey(r, tries[r])]
         /\ UNCHANGED session \/ pc[r] = "checkout"
<1> USE WorkersApart DEF TypeOK, dbVars, stripeVars, Goto, Ended
<1>1. CASE \E f \in Failures : CheckoutFails(r, f)
  <2>1. PICK f \in Failures : CheckoutFails(r, f)
    BY <1>1
  <2>2. /\ pc[r] = "checkout"
        /\ UNCHANGED pc \/ Goto(r, "canceling")
        /\ UNCHANGED saved
    BY <2>1 DEF CheckoutFails
  <2> QED
    BY <2>2 DEF RequestDies
<1>2. CASE AttachSession(r)
  BY <1>2 DEF AttachSession, RequestDies
<1>3. CASE RequestDies(r)
  BY <1>3 DEF RequestDies
<1>4. CASE \/ InsertHold(r) \/ AddHold(r) \/ Refuse(r) \/ CommitPending(r)
           \/ CheckoutOpens(r) \/ WriteRow(r) \/ CommitCancel(r)
  BY <1>4 DEF InsertHold, AddHold, Refuse, CommitPending, CheckoutOpens,
              WriteRow, CommitCancel, RequestDies
<1> QED
  BY <1>1, <1>2, <1>3, <1>4 DEF Request

LEMMA WebhookStages ==
  ASSUME TypeOK, NEW w \in Workers, Webhook(w) \/ WebhookDies(w)
  PROVE  /\ \A r \in Reservations : pc'[r] = pc[r]
         /\ UNCHANGED <<saved, session>>
<1>1. /\ UNCHANGED session
      /\ pc' = [pc EXCEPT ![w] = pc'[w]]
  BY WebhookEffect
<1>2. UNCHANGED saved
  BY DEF Webhook, WebhookDies, ApplyWebhook, DuplicateWebhook, Transition,
         CommitIgnored, CommitConfirm, CommitExpire, CommitWebhook, WriteRow,
         dbVars
<1> QED
  BY <1>1, <1>2, WorkersApart DEF TypeOK

LEMMA StripeStages ==
  ASSUME NEW k \in SessionKey,
         CustomerPays(k) \/ SessionExpires(k) \/ StripeSendsExtra(k)
  PROVE  UNCHANGED <<pc, saved>>
  BY DEF CustomerPays, SessionExpires, StripeSendsExtra, dbVars

-----------------------------------------------------------------------------
(***************************************************************************)
(* Every step of the site is a step of the service, or leaves it alone.    *)
(***************************************************************************)
BuyerStep(b) == \/ UNCHANGED vars
                \/ \E k \in SessionKey : CustomerPays(k)

LEMMA BrowseStep ==
  ASSUME SiteInv, NEW b \in Buyers, Browse(b)
  PROVE  BuyerStep(b) /\ UNCHANGED secrets
<1>1. CASE PayInCheckout(b)
  <2>1. post[b] \in Reservations /\ pc[post[b]] = "done"
    BY <1>1 DEF PayInCheckout, SiteInv, PagesFollow
  <2>2. saved[post[b]] \in SessionKey
    BY <2>1, KeyType DEF SiteInv, SavedWhenDone
  <2> QED
    BY <1>1, <2>2 DEF PayInCheckout, BuyerStep
<1>2. CASE ~PayInCheckout(b)
  BY <1>2 DEF Browse, Press, Refused, Unreachable, GoToCheckout,
              LeaveCheckout, GoBack, Poll, LookUp, BuyerStep
<1> QED
  BY <1>1, <1>2

LEMMA SiteStepIsServiceStep == SiteInv /\ [SiteNext]_siteVars => [Next]_vars
<1>1. ASSUME SiteInv, SiteNext
      PROVE  [Next]_vars
  <2>1. CASE \E s \in Settings : Restart(s)
    BY <2>1 DEF Restart
  <2>2. CASE \E r \in Reservations : Serve(r)
    BY <2>2 DEF Serve, Next
  <2>3. CASE \E w \in Workers : Deliver(w)
    BY <2>3 DEF Deliver, Next
  <2>4. CASE \E b \in Buyers : Browse(b)
    BY <1>1, <2>4, BrowseStep DEF BuyerStep, Next
  <2>5. CASE Outside
    BY <2>5 DEF Outside, Next
  <2> QED
    BY <1>1, <2>1, <2>2, <2>3, <2>4, <2>5 DEF SiteNext
<1>2. UNCHANGED siteVars => UNCHANGED vars
  BY DEF siteVars, vars
<1> QED
  BY <1>1, <1>2

-----------------------------------------------------------------------------
(***************************************************************************)
(* The invariant of the pages.                                             *)
(***************************************************************************)
PagesInv == /\ PagesFollow
            /\ OneTabEach
            /\ SavedWhenDone
            /\ ServedUnderTestKey
            /\ RefusedHaveEnded

PageTypeOK == /\ secrets \in Settings
              /\ tab \in [Buyers -> Tab]
              /\ post \in [Buyers -> Reservations \cup {NoKey}]
              /\ text \in [Buyers -> {"", "checking", "none"} \cup Refusal
                                            \cup Status]
              /\ polls \in [Buyers -> 0..Polls]

LEMMA SiteInvParts == SiteInv <=> TypeOK /\ PageTypeOK /\ PagesInv
  BY DEF SiteInv, SiteTypeOK, PageTypeOK, PagesInv

LEMMA QuietKeepsPages ==
  ASSUME PagesInv, PageTypeOK, UNCHANGED <<secrets, pageVars, saved>>,
         \A r \in Reservations : pc'[r] = pc[r]
  PROVE  PagesInv' /\ PageTypeOK'
<1> USE DEF pageVars
<1>1. PagesFollow'
  BY DEF PagesInv, PagesFollow
<1>2. OneTabEach'
  BY DEF PagesInv, OneTabEach
<1>3. SavedWhenDone' /\ ServedUnderTestKey'
  BY DEF PagesInv, SavedWhenDone, ServedUnderTestKey, Ended, IdempotencyKey
<1>4. RefusedHaveEnded'
  BY DEF PagesInv, RefusedHaveEnded
<1>5. PageTypeOK'
  BY DEF PageTypeOK, Tab, Refusal, Status, NoKey
<1> QED
  BY <1>1, <1>2, <1>3, <1>4, <1>5 DEF PagesInv

LEMMA RestartKeepsPages ==
  ASSUME PagesInv, PageTypeOK, NEW s \in Settings, Restart(s)
  PROVE  PagesInv' /\ PageTypeOK'
<1> USE DEF pageVars, vars, dbVars
<1>1. UNCHANGED <<pageVars, pc, saved>> /\ secrets' = s
  BY DEF Restart
<1>2. PagesFollow' /\ OneTabEach'
  BY <1>1 DEF PagesInv, PagesFollow, OneTabEach
<1>3. SavedWhenDone' /\ RefusedHaveEnded'
  BY <1>1 DEF PagesInv, SavedWhenDone, RefusedHaveEnded, IdempotencyKey
<1>4. ServedUnderTestKey'
  BY <1>1 DEF Restart, ServedUnderTestKey, Ended
<1>5. PageTypeOK'
  BY <1>1 DEF PageTypeOK, Tab, Refusal, Status, NoKey
<1> QED
  BY <1>2, <1>3, <1>4, <1>5 DEF PagesInv

(***************************************************************************)
(* A request moves on, or dies: no page has its stage, or its page waits.  *)
(***************************************************************************)
LEMMA RequestKeepsPages ==
  ASSUME TypeOK, PagesInv, PageTypeOK, NEW r \in Reservations,
         Request(r) \/ RequestDies(r),
         pc[r] = "received" => secrets.key = "sk_test" /\ Posted(r),
         UNCHANGED <<secrets, pageVars>>
  PROVE  PagesInv' /\ PageTypeOK'
<1> USE DEF pageVars
<1>1. /\ pc[r] \notin EndStage
      /\ pc' = [pc EXCEPT ![r] = pc'[r]]
      /\ \/ pc'[r] # "done" /\ UNCHANGED saved
         \/ saved' = [saved EXCEPT ![r] = IdempotencyKey(r, tries[r])]
  BY RequestStages
<1>2. \A s \in Reservations : s # r => pc'[s] = pc[s]
  BY <1>1 DEF TypeOK
<1>3. /\ \A s \in Reservations : s # r => saved'[s] = saved[s]
      /\ pc'[r] = "done" => saved'[r] = IdempotencyKey(r, 0)
  BY <1>1 DEF TypeOK, IdempotencyKey
<1>4. PagesFollow'
  <2> SUFFICES ASSUME NEW b \in Buyers,
                      tab[b] \in {"checkout", "success", "cancel"}
               PROVE  pc'[post[b]] = "done"
    BY DEF PagesInv, PagesFollow
  <2>1. post[b] \in Reservations /\ pc[post[b]] = "done"
    BY DEF PagesInv, PagesFollow
  <2> QED
    BY <2>1, <1>1, <1>2
<1>5. OneTabEach'
  BY DEF PagesInv, OneTabEach
<1>6. SavedWhenDone'
  BY <1>2, <1>3 DEF PagesInv, SavedWhenDone, IdempotencyKey
<1>7. ServedUnderTestKey'
  BY <1>1, <1>2 DEF PagesInv, ServedUnderTestKey, Ended
<1>8. RefusedHaveEnded'
  <2> SUFFICES ASSUME NEW b \in Buyers, tab[b] = "form",
                      text[b] \in {"off", "sold out", "released"}
               PROVE  post[b] \in Reservations /\ pc'[post[b]] = pc[post[b]]
    BY DEF PagesInv, RefusedHaveEnded
  <2>1. /\ post[b] \in Reservations
        /\ pc[post[b]] \in {"received", "refused", "failed"}
    BY DEF PagesInv, RefusedHaveEnded
  <2>2. post[b] # r
    <3>1. CASE pc[r] = "received"
      <4>1. PICK c \in Buyers : tab[c] = "waiting" /\ post[c] = r
        BY <3>1 DEF Posted
      <4> QED
        BY <4>1 DEF PagesInv, OneTabEach
    <3>2. CASE pc[r] # "received"
      BY <3>2, <2>1, <1>1
    <3> QED
      BY <3>1, <3>2
  <2> QED
    BY <2>1, <2>2, <1>2
<1>9. PageTypeOK'
  BY DEF PageTypeOK, Tab, Refusal, Status, NoKey
<1> QED
  BY <1>4, <1>5, <1>6, <1>7, <1>8, <1>9 DEF PagesInv

LEMMA ErrorFacts ==
  ASSUME NEW r
  PROVE  /\ ErrorOf(r) \in {"off", "sold out", "released", "failed", "none"}
         /\ ErrorOf(r) = "off"      => pc[r] = "received"
         /\ ErrorOf(r) = "sold out" => pc[r] = "refused"
         /\ ErrorOf(r) = "released" => pc[r] = "failed"
  BY DEF ErrorOf

\* A move of one tab: where from, where to, and what its line says.
TabMoves(b, page, line) ==
    /\ page \in Tab
    /\ line \in {"", "checking", "none"} \cup Refusal \cup Status
    /\ tab' = [tab EXCEPT ![b] = page]
    /\ text' = [text EXCEPT ![b] = line]

LEMMA PressKeepsPages ==
  ASSUME TypeOK, PagesInv, PageTypeOK, NEW b \in Buyers,
         NEW r \in Reservations, Press(b, r)
  PROVE  PagesInv' /\ PageTypeOK'
<1> USE DEF vars, dbVars
<1>1. /\ UNCHANGED <<secrets, pc, saved, polls>>
      /\ post' = [post EXCEPT ![b] = r]
      /\ tab' = [tab EXCEPT ![b] = "waiting"]
      /\ text' = [text EXCEPT ![b] = ""]
      /\ \A c \in Buyers : post[c] # r
  BY DEF Press, Visit, Line
<1>2. PageTypeOK'
  BY <1>1 DEF PageTypeOK, Tab, Refusal, Status, NoKey
<1>3. /\ tab'[b] = "waiting" /\ post'[b] = r
      /\ \A c \in Buyers : c # b => /\ tab'[c] = tab[c] /\ post'[c] = post[c]
                                    /\ text'[c] = text[c]
  BY <1>1 DEF PageTypeOK
<1>4. PagesFollow' /\ RefusedHaveEnded'
  <2>1. PagesFollow'
    BY <1>1, <1>3 DEF PagesInv, PagesFollow
  <2>2. RefusedHaveEnded'
    <3> SUFFICES ASSUME NEW c \in Buyers, tab'[c] = "form",
                        text'[c] \in {"off", "sold out", "released"}
                 PROVE  /\ post'[c] \in Reservations
                        /\ text'[c] = "off"      => pc'[post'[c]] = "received"
                        /\ text'[c] = "sold out" => pc'[post'[c]] = "refused"
                        /\ text'[c] = "released" => pc'[post'[c]] = "failed"
      BY DEF RefusedHaveEnded
    <3>1. tab[c] = "form" /\ text[c] = text'[c] /\ post'[c] = post[c]
      BY <1>3
    <3>2. UNCHANGED pc
      BY <1>1
    <3> QED
      BY <3>1, <3>2 DEF PagesInv, RefusedHaveEnded
  <2> QED
    BY <2>1, <2>2
<1>5. OneTabEach'
  BY <1>1, <1>3 DEF PagesInv, OneTabEach
<1>6. SavedWhenDone' /\ ServedUnderTestKey'
  BY <1>1 DEF PagesInv, SavedWhenDone, ServedUnderTestKey, Ended, IdempotencyKey
<1> QED
  BY <1>2, <1>4, <1>5, <1>6 DEF PagesInv

LEMMA TabMoveKeepsPages ==
  ASSUME TypeOK, PagesInv, PageTypeOK, NEW b \in Buyers, NEW page, NEW line,
         TabMoves(b, page, line),
         UNCHANGED <<secrets, pc, saved, post>>,
         polls' \in [Buyers -> 0..Polls],
         tab[b] # "form",
         page \in {"checkout", "success", "cancel"} => pc[post[b]] = "done",
         page = "form" => /\ line = "off"      => pc[post[b]] = "received"
                          /\ line = "sold out" => pc[post[b]] = "refused"
                          /\ line = "released" => pc[post[b]] = "failed"
  PROVE  PagesInv' /\ PageTypeOK'
<1>1. PageTypeOK'
  BY DEF PageTypeOK, TabMoves, Tab, Refusal, Status, NoKey
<1>2. /\ tab'[b] = page /\ text'[b] = line
      /\ \A c \in Buyers : c # b => tab'[c] = tab[c] /\ text'[c] = text[c]
  BY DEF PageTypeOK, TabMoves
<1>3. post[b] \in Reservations
  BY DEF PagesInv, PagesFollow
<1>4. PagesFollow'
  BY <1>2, <1>3 DEF PagesInv, PagesFollow
<1>5. RefusedHaveEnded'
  BY <1>2, <1>3 DEF PagesInv, RefusedHaveEnded
<1>6. OneTabEach' /\ SavedWhenDone' /\ ServedUnderTestKey'
  BY DEF PagesInv, OneTabEach, SavedWhenDone, ServedUnderTestKey, Ended,
         IdempotencyKey
<1> QED
  BY <1>1, <1>4, <1>5, <1>6 DEF PagesInv

LEMMA BrowseKeepsPages ==
  ASSUME TypeOK, PagesInv, PageTypeOK, NEW b \in Buyers, Browse(b)
  PROVE  PagesInv' /\ PageTypeOK'
<1> USE DEF vars, dbVars, TabMoves, Tab, Refusal, Status
<1>1. CASE \E r \in Reservations : Press(b, r)
  BY <1>1, PressKeepsPages
<1>2. tab[b] # "form" =>
         /\ post[b] \in Reservations
         /\ tab[b] \in {"checkout", "success", "cancel"} => pc[post[b]] = "done"
  BY DEF PagesInv, PagesFollow
<1>3. /\ polls \in [Buyers -> 0..Polls]
      /\ tab \in [Buyers -> Tab]
      /\ [polls EXCEPT ![b] = 0] \in [Buyers -> 0..Polls]
      /\ [polls EXCEPT ![b] = Polls] \in [Buyers -> 0..Polls]
      /\ polls[b] > 0 => [polls EXCEPT ![b] = @ - 1] \in [Buyers -> 0..Polls]
  <2>1. tab \in [Buyers -> Tab] /\ polls \in [Buyers -> 0..Polls]
    BY DEF PageTypeOK
  <2>2. 0 \in 0..Polls /\ Polls \in 0..Polls
    BY PollsNat
  <2>3. polls[b] > 0 => polls[b] - 1 \in 0..Polls
    BY <2>1, PollsNat
  <2> QED
    BY <2>1, <2>2, <2>3
<1>4. CASE Refused(b)
  <2> DEFINE line == ErrorOf(post[b])
  <2>1. /\ line \in {"off", "sold out", "released", "failed"}
        /\ line = "off"      => pc[post[b]] = "received"
        /\ line = "sold out" => pc[post[b]] = "refused"
        /\ line = "released" => pc[post[b]] = "failed"
    BY <1>4, ErrorFacts DEF Refused
  <2>2. TabMoves(b, "form", line) /\ tab[b] # "form"
    BY <1>4, <2>1 DEF Refused, Visit, Line
  <2>3. UNCHANGED <<secrets, pc, saved, post, polls>>
    BY <1>4 DEF Refused
  <2> HIDE DEF line, TabMoves
  <2> QED
    BY <2>1, <2>2, <2>3, <1>3, TabMoveKeepsPages
<1>5. CASE Unreachable(b)
  <2>1. TabMoves(b, "form", "unreachable") /\ tab[b] # "form"
    BY <1>5 DEF Unreachable, Visit, Line
  <2>2. UNCHANGED <<secrets, pc, saved, post, polls>>
    BY <1>5 DEF Unreachable
  <2> QED
    BY <2>1, <2>2, <1>3, TabMoveKeepsPages
<1>6. CASE GoToCheckout(b)
  <2>1. /\ TabMoves(b, "checkout", "") /\ tab[b] # "form"
        /\ pc[post[b]] = "done"
    BY <1>6 DEF GoToCheckout, Visit, Line
  <2>2. UNCHANGED <<secrets, pc, saved, post, polls>>
    BY <1>6 DEF GoToCheckout
  <2> QED
    BY <2>1, <2>2, <1>3, TabMoveKeepsPages
<1>7. CASE PayInCheckout(b)
  <2>1. TabMoves(b, "success", "checking") /\ tab[b] = "checkout"
    BY <1>7 DEF PayInCheckout, Visit, Line
  <2>2. /\ UNCHANGED <<secrets, pc, saved, post>>
        /\ polls' = [polls EXCEPT ![b] = Polls]
    BY <1>7 DEF PayInCheckout, CustomerPays
  <2> QED
    BY <2>1, <2>2, <1>2, <1>3, TabMoveKeepsPages
<1>8. CASE LeaveCheckout(b)
  <2>1. TabMoves(b, "cancel", "checking") /\ tab[b] = "checkout"
    BY <1>8 DEF LeaveCheckout, Visit, Line
  <2>2. UNCHANGED <<secrets, pc, saved, post, polls>>
    BY <1>8 DEF LeaveCheckout
  <2> QED
    BY <2>1, <2>2, <1>2, <1>3, TabMoveKeepsPages
<1>9. CASE GoBack(b)
  <2>1. /\ \/ TabMoves(b, "form", "")
           \/ TabMoves(b, "checkout", "")
        /\ tab[b] \in {"cancel", "success"}
    BY <1>9 DEF GoBack, Visit, Line
  <2>2. /\ UNCHANGED <<secrets, pc, saved, post>>
        /\ polls' = [polls EXCEPT ![b] = 0]
    BY <1>9 DEF GoBack
  <2> QED
    BY <2>1, <2>2, <1>2, <1>3, TabMoveKeepsPages
<1>10. status \in [Reservations -> Status \cup {"none"}]
  BY DEF TypeOK, RowsTypeOK
<1>11. CASE Poll(b)
  <2>1. tab[b] = "success" /\ tab' = [tab EXCEPT ![b] = "success"]
    BY <1>11, <1>3 DEF Poll
  <2>2. /\ UNCHANGED <<secrets, pc, saved, post>>
        /\ polls' \in [Buyers -> 0..Polls]
    BY <1>11, <1>3 DEF Poll, Stop
  <2>3. PICK line \in {"off", "none"} \cup Status \cup {text[b]} :
           text' = [text EXCEPT ![b] = line]
    <3>1. text \in [Buyers -> {"", "checking", "none"} \cup Refusal \cup Status]
      BY DEF PageTypeOK
    <3>2. text = [text EXCEPT ![b] = text[b]]
      BY <3>1
    <3>3. status[post[b]] \in {"none"} \cup Status
      BY <1>2, <1>10, <2>1
    <3> QED
      BY <1>11, <3>2, <3>3 DEF Poll, Line, StatusOf
  <2>4. TabMoves(b, "success", line)
    BY <2>1, <2>3 DEF PageTypeOK
  <2> QED
    BY <2>1, <2>2, <2>4, <1>2, TabMoveKeepsPages
<1>12. CASE LookUp(b)
  <2> DEFINE line == status[post[b]]
  <2>1. /\ tab[b] = "cancel" /\ tab' = [tab EXCEPT ![b] = "cancel"]
        /\ text' = [text EXCEPT ![b] = line]
        /\ UNCHANGED <<secrets, pc, saved, post, polls>>
    BY <1>12, <1>3 DEF LookUp, Line, StatusOf
  <2>2. line \in Status \cup {"none"} /\ pc[post[b]] = "done"
    BY <1>2, <1>10, <2>1
  <2>3. TabMoves(b, "cancel", line)
    BY <2>1, <2>2
  <2>4. "cancel" # "form"
    OBVIOUS
  <2> HIDE DEF line, TabMoves
  <2> QED
    BY <2>1, <2>2, <2>3, <2>4, <1>3, TabMoveKeepsPages
<1> QED
  BY <1>1, <1>4, <1>5, <1>6, <1>7, <1>8, <1>9, <1>11, <1>12 DEF Browse

LEMMA SiteInitHolds == SiteInit => SiteInv
<1> SUFFICES ASSUME SiteInit PROVE SiteInv
  OBVIOUS
<1>1. TypeOK /\ \A r \in Reservations : pc[r] = "received"
  BY InitType, WorkersApart DEF SiteInit, Init
<1>2. PageTypeOK
  <2>1. 0 \in 0..Polls
    BY PollsNat
  <2> QED
    BY <2>1 DEF SiteInit, PageTypeOK, Tab, Refusal, Status, NoKey
<1>3. PagesInv
  BY <1>1, NoKeyApart DEF SiteInit, PagesInv, PagesFollow, OneTabEach,
     SavedWhenDone, ServedUnderTestKey, RefusedHaveEnded
<1> QED
  BY <1>1, <1>2, <1>3, SiteInvParts

LEMMA SiteNextHolds == SiteInv /\ [SiteNext]_siteVars => SiteInv'
<1> SUFFICES ASSUME SiteInv, [SiteNext]_siteVars PROVE SiteInv'
  OBVIOUS
<1>1. TypeOK /\ PageTypeOK /\ PagesInv
  BY SiteInvParts
<1>2. TypeOK'
  BY <1>1, SiteStepIsServiceStep, NextType
<1> SUFFICES PageTypeOK' /\ PagesInv'
  <2>1. TypeOK' /\ PageTypeOK' /\ PagesInv' => SiteInv'
    BY SiteInvParts, PTL
  <2> QED
    BY <1>2, <2>1
<1>3. CASE UNCHANGED siteVars
  BY <1>1, <1>3, QuietKeepsPages DEF siteVars, vars, dbVars
<1>4. CASE \E s \in Settings : Restart(s)
  BY <1>1, <1>4, RestartKeepsPages
<1>5. CASE \E r \in Reservations : Serve(r)
  BY <1>1, <1>5, RequestKeepsPages DEF Serve, On
<1>6. CASE \E w \in Workers : Deliver(w)
  BY <1>1, <1>6, WebhookStages, QuietKeepsPages DEF Deliver
<1>7. CASE \E b \in Buyers : Browse(b)
  BY <1>1, <1>7, BrowseKeepsPages
<1>8. CASE Outside /\ UNCHANGED <<secrets, pageVars>>
  <2>1. CASE \E r \in Reservations : RequestDies(r)
    BY <1>1, <1>8, <2>1, RequestStages, RequestKeepsPages
  <2>2. CASE \E w \in Workers : WebhookDies(w)
    BY <1>1, <1>8, <2>2, WebhookStages, QuietKeepsPages
  <2>3. CASE \E k \in SessionKey : SessionExpires(k) \/ StripeSendsExtra(k)
    BY <1>1, <1>8, <2>3, StripeStages, QuietKeepsPages
  <2> QED
    BY <1>8, <2>1, <2>2, <2>3 DEF Outside
<1> QED
  BY <1>3, <1>4, <1>5, <1>6, <1>7, <1>8 DEF SiteNext

(***************************************************************************)
(* The site keeps the invariant of its pages in every configuration, safe  *)
(* or not.                                                                 *)
(***************************************************************************)
THEOREM SiteIsConsistent == SiteSpec => []SiteInv
  BY SiteInitHolds, SiteNextHolds, PTL DEF SiteSpec

(***************************************************************************)
(* Every variable of the site keeps its type.                              *)
(***************************************************************************)
THEOREM SiteTypeCorrect == SiteSpec => []SiteTypeOK
<1>1. SiteInv => SiteTypeOK
  BY DEF SiteInv
<1> QED
  BY <1>1, SiteIsConsistent, PTL

(***************************************************************************)
(* Inside the site runs the reservation service: nothing that buyers,      *)
(* restarts or settings do is a step that the service does not have.       *)
(***************************************************************************)
THEOREM SiteRunsTheService == SiteSpec => Spec
<1>1. SiteInit => Init
  BY DEF SiteInit
<1> QED
  BY <1>1, SiteIsConsistent, SiteStepIsServiceStep, PTL DEF SiteSpec, Spec

(***************************************************************************)
(* Only a process with a test key opens a Checkout session.                *)
(***************************************************************************)
THEOREM NoRealCharge == SiteSpec => TestModeOnly
<1> DEFINE TestModeStep ==
       session' # session /\ secrets.key # "sk_test" =>
          \A k \in SessionKey : session[k] = "none" => session'[k] = "none"
<1>1. ASSUME SiteInv, [SiteNext]_siteVars, session' # session,
             secrets.key # "sk_test",
             NEW k \in SessionKey, session[k] = "none"
      PROVE  session'[k] = "none"
  <2>1. TypeOK /\ session \in [SessionKey -> {"none", "open", "complete", "expired"}]
    BY <1>1, SiteInvParts DEF TypeOK, StripeTypeOK
  <2>2. ASSUME NEW r \in Reservations, Serve(r)
        PROVE  UNCHANGED session
    <3>1. pc[r] # "checkout"
      BY <1>1, <2>2 DEF Serve, SiteInv, ServedUnderTestKey, Ended
    <3> QED
      BY <2>1, <2>2, <3>1, RequestStages DEF Serve
  <2>3. ASSUME NEW r \in Reservations, RequestDies(r)
        PROVE  UNCHANGED session
    BY <2>3 DEF RequestDies, stripeVars
  <2>4. ASSUME NEW w \in Workers, Webhook(w) \/ WebhookDies(w)
        PROVE  UNCHANGED session
    BY <2>1, <2>4, WebhookStages
  <2>5. ASSUME NEW l \in SessionKey,
               CustomerPays(l) \/ SessionExpires(l) \/ StripeSendsExtra(l)
        PROVE  session'[k] = "none"
    BY <1>1, <2>1, <2>5 DEF CustomerPays, SessionExpires, StripeSendsExtra,
       Pay, ExpireSession, SendExtra
  <2>6. ASSUME NEW b \in Buyers, Browse(b)
        PROVE  session'[k] = "none" \/ UNCHANGED session
    BY <1>1, <2>5, <2>6, BrowseStep DEF BuyerStep, vars, stripeVars
  <2>7. Outside => session'[k] = "none" \/ UNCHANGED session
    BY <2>3, <2>4, <2>5 DEF Outside
  <2>8. (\E s \in Settings : Restart(s)) \/ UNCHANGED siteVars
           => UNCHANGED session
    BY DEF Restart, siteVars, vars, stripeVars
  <2> QED
    BY <1>1, <2>2, <2>4, <2>6, <2>7, <2>8 DEF SiteNext, Deliver
<1>2. SiteInv /\ [SiteNext]_siteVars => [TestModeStep]_siteVars
  BY <1>1
<1> QED
  BY <1>2, SiteIsConsistent, PTL DEF SiteSpec, TestModeOnly
-----------------------------------------------------------------------------
(***************************************************************************)
(* A request that failed keeps nothing.                                    *)
(***************************************************************************)
FailedIsFree == \A r \in Reservations : pc[r] = "failed" => status[r] \notin Live

LEMMA FailedIsFreeStep ==
  IInv /\ FailedIsFree /\ [Next]_vars => FailedIsFree'
<1> SUFFICES ASSUME IInv, FailedIsFree, [Next]_vars,
                    NEW r \in Reservations, pc'[r] = "failed"
             PROVE  status'[r] \notin Live
  BY DEF FailedIsFree, Live
<1>1. /\ TypeOK /\ RowsInv
      /\ status \in [Reservations -> Status \cup {"none"}]
      /\ pc \in [Procs -> RequestStage \cup WorkerStage]
  BY DEF IInv, TypeOK, RowsTypeOK
<1>2. CASE \E s \in Reservations : Request(s) \/ RequestDies(s)
  <2>1. PICK s \in Reservations : Request(s) \/ RequestDies(s)
    BY <1>2
  <2>2. RowStage(pc[s], status[s])
    BY <1>1 DEF RowsInv, RowFollowsRequest, RowStage
  <2>3. /\ pc[s] \notin EndStage
        /\ pc' = [pc EXCEPT ![s] = pc'[s]]
        /\ status' = [status EXCEPT ![s] = status'[s]]
    BY <1>1, <2>1, <2>2, RequestEffect
  <2>4. CASE r # s
    BY <1>1, <2>3, <2>4 DEF FailedIsFree
  <2>5. CASE r = s
    <3>1. CommitCancel(r)
      BY <1>1, <2>1, <2>3, <2>5 DEF Request, RequestDies, InsertHold, AddHold,
         Refuse, CommitPending, CheckoutOpens, CheckoutFails, AttachSession,
         WriteRow, Goto
    <3> QED
      BY <1>1, <3>1 DEF CommitCancel, Live
  <2> QED
    BY <2>4, <2>5
<1>3. CASE \E w \in Workers : Webhook(w) \/ WebhookDies(w)
  <2>1. PICK w \in Workers : Webhook(w) \/ WebhookDies(w)
    BY <1>3
  <2>2. pc[r] = "failed" /\ (UNCHANGED status \/ MovesRow(w))
    BY <1>1, <2>1, WebhookStages, WebhookEffect
  <2>3. MovesRow(w) => RowOf(w) # r
    BY <2>2 DEF MovesRow, Moving, IInv, RowsInv, MoversSeePending,
                FailedIsFree, Live
  <2> QED
    BY <1>1, <2>2, <2>3 DEF MovesRow, FailedIsFree
<1>4. CASE \/ UNCHANGED vars
           \/ \E k \in SessionKey :
                 CustomerPays(k) \/ SessionExpires(k) \/ StripeSendsExtra(k)
  <2>1. UNCHANGED <<pc, status>>
    BY <1>4 DEF CustomerPays, SessionExpires, StripeSendsExtra, vars, dbVars
  <2> QED
    BY <2>1 DEF FailedIsFree
<1> QED
  BY <1>2, <1>3, <1>4 DEF Next

(***************************************************************************)
(* In a safe configuration, who reads that nothing was reserved holds      *)
(* nothing.                                                                *)
(***************************************************************************)
THEOREM RefusalsAreTrue ==
  ASSUME Safe
  PROVE  SiteSpec => []RefusedHoldsNothing
<1>1. Init => FailedIsFree
  BY WorkersApart DEF Init, FailedIsFree
<1>2. Spec => []FailedIsFree
  BY <1>1, FailedIsFreeStep, InvariantHolds, PTL DEF Spec
<1>3. SiteInv /\ IInv /\ FailedIsFree => RefusedHoldsNothing
  BY DEF SiteInv, RefusedHaveEnded, IInv, RowsInv, RowFollowsRequest,
         FailedIsFree, RefusedHoldsNothing, Live
<1> QED
  BY <1>2, <1>3, InvariantHolds, SiteIsConsistent, SiteRunsTheService, PTL

-----------------------------------------------------------------------------
LEMMA CompleteStays ==
  ASSUME TypeOK, [Next]_vars, NEW k \in SessionKey, session[k] = "complete"
  PROVE  session'[k] = "complete"
<1>1. session \in [SessionKey -> {"none", "open", "complete", "expired"}]
  BY DEF TypeOK, StripeTypeOK
<1>2. ASSUME NEW r \in Reservations, Request(r) \/ RequestDies(r)
      PROVE  session'[k] = "complete"
  BY <1>1, <1>2 DEF Request, RequestDies, InsertHold, AddHold, Refuse,
     CommitPending, CheckoutOpens, CheckoutFails, AttachSession, WriteRow,
     CommitCancel, OpenSession, stripeVars
<1>3. ASSUME NEW w \in Workers, Webhook(w) \/ WebhookDies(w)
      PROVE  UNCHANGED session
  BY <1>3, WebhookStages
<1>4. ASSUME NEW l \in SessionKey,
             CustomerPays(l) \/ SessionExpires(l) \/ StripeSendsExtra(l)
      PROVE  session'[k] = "complete"
  BY <1>1, <1>4 DEF CustomerPays, SessionExpires, StripeSendsExtra,
     Pay, ExpireSession, SendExtra
<1> QED
  BY <1>2, <1>3, <1>4 DEF Next, vars, stripeVars

\* A success page before and after a step: how it can have come to its line.
LEMMA SuccessLine ==
  ASSUME SiteInv, [SiteNext]_siteVars, NEW b \in Buyers, tab'[b] = "success"
  PROVE  \/ tab[b] = "success" /\ text'[b] = text[b] /\ post'[b] = post[b]
         \/ /\ tab[b] = "success" /\ post'[b] = post[b] /\ UNCHANGED status
            /\ text'[b] \in {"off", status[post[b]]}
         \/ /\ tab[b] = "checkout" /\ post'[b] = post[b]
            /\ text'[b] = "checking"
            /\ session'[saved'[post'[b]]] = "complete"
<1>1. /\ tab \in [Buyers -> Tab]
      /\ text \in [Buyers -> {"", "checking", "none"} \cup Refusal \cup Status]
      /\ post \in [Buyers -> Reservations \cup {NoKey}]
      /\ session \in [SessionKey -> {"none", "open", "complete", "expired"}]
  BY DEF SiteInv, SiteTypeOK, TypeOK, StripeTypeOK
<1>2. CASE UNCHANGED pageVars
  BY <1>2 DEF pageVars
<1>3. CASE \E c \in Buyers : Browse(c)
  <2>1. PICK c \in Buyers : Browse(c)
    BY <1>3
  <2>2. CASE Poll(c)
    BY <1>1, <2>2 DEF Poll, Line, StatusOf, vars, dbVars
  <2>3. CASE PayInCheckout(c)
    <3>1. /\ tab[c] = "checkout" /\ UNCHANGED post
          /\ tab' = [tab EXCEPT ![c] = "success"]
          /\ text' = [text EXCEPT ![c] = "checking"]
          /\ CustomerPays(saved[post[c]])
      BY <2>3 DEF PayInCheckout, Visit, Line
    <3>2. post[c] \in Reservations /\ pc[post[c]] = "done"
      BY <3>1 DEF SiteInv, PagesFollow
    <3>3. saved[post[c]] \in SessionKey /\ UNCHANGED saved
      BY <3>1, <3>2, KeyType DEF SiteInv, SavedWhenDone, CustomerPays, dbVars
    <3>4. session'[saved'[post'[c]]] = "complete"
      BY <1>1, <3>1, <3>3 DEF CustomerPays, Pay
    <3> QED
      BY <1>1, <3>1, <3>4
  <2>4. CASE \/ \E r \in Reservations : Press(c, r)
             \/ Refused(c) \/ Unreachable(c) \/ GoToCheckout(c)
             \/ LeaveCheckout(c) \/ GoBack(c)
    <3>1. \A d \in Buyers : d # c => /\ tab'[d] = tab[d] /\ text'[d] = text[d]
                                     /\ post'[d] = post[d]
      BY <1>1, <2>4 DEF Press, Refused, Unreachable, GoToCheckout,
         LeaveCheckout, GoBack, Visit, Line
    <3>2. tab'[c] # "success"
      BY <1>1, <2>4 DEF Press, Refused, Unreachable, GoToCheckout,
         LeaveCheckout, GoBack, Visit, Line
    <3> QED
      BY <3>1, <3>2
  <2>5. CASE LookUp(c)
    BY <1>1, <2>5 DEF LookUp, Line
  <2> QED
    BY <2>1, <2>2, <2>3, <2>4, <2>5 DEF Browse
<1>4. (\E c \in Buyers : Browse(c)) \/ UNCHANGED pageVars
  BY DEF SiteNext, Restart, Serve, Deliver, siteVars
<1> QED
  BY <1>2, <1>3, <1>4

LEMMA SuccessPageStep ==
  /\ SiteInv /\ SiteInv' /\ IInv /\ PaidKept
  /\ SuccessPageIsTrue /\ [SiteNext]_siteVars
  => SuccessPageIsTrue'
<1> SUFFICES ASSUME SiteInv, SiteInv', IInv, PaidKept, SuccessPageIsTrue,
                    [SiteNext]_siteVars, NEW b \in Buyers, tab'[b] = "success"
             PROVE  /\ session'[saved'[post'[b]]] = "complete"
                    /\ text'[b] = "confirmed" => status'[post'[b]] = "confirmed"
                    /\ text'[b] \notin {"expired", "canceled", "none"}
  BY DEF SuccessPageIsTrue
<1>1. [Next]_vars
  BY SiteStepIsServiceStep
<1>2. CASE tab[b] = "success" /\ post'[b] = post[b]
  <2>1. /\ post[b] \in Reservations /\ pc[post[b]] = "done"
        /\ pc'[post[b]] = "done"
    BY <1>2 DEF SiteInv, PagesFollow
  <2>2. /\ saved[post[b]] = IdempotencyKey(post[b], 0)
        /\ saved'[post[b]] = IdempotencyKey(post[b], 0)
    BY <2>1 DEF SiteInv, SavedWhenDone, IdempotencyKey
  <2>3. saved[post[b]] \in SessionKey /\ saved'[post[b]] = saved[post[b]]
    BY <2>1, <2>2, KeyType
  <2>4. session[saved[post[b]]] = "complete"
    BY <1>2 DEF SuccessPageIsTrue
  <2>5. session'[saved'[post[b]]] = "complete"
    BY <1>1, <2>3, <2>4, CompleteStays DEF IInv
  <2>6. status[post[b]] \in Live
    BY <2>2, <2>3, <2>4 DEF PaidKept, IdempotencyKey
  <2>7. status[post[b]] = "confirmed" => status'[post[b]] = "confirmed"
    BY <1>1, <2>1, ConfirmedStep
  <2> QED
    BY <1>2, <2>5, <2>6, <2>7, SuccessLine DEF SuccessPageIsTrue, Live
<1>3. CASE ~(tab[b] = "success" /\ post'[b] = post[b])
  BY <1>3, SuccessLine
<1> QED
  BY <1>2, <1>3

(***************************************************************************)
(* The success page tells the truth, in a safe configuration, if Stripe    *)
(* does not also call a paid session expired.                              *)
(***************************************************************************)
THEOREM SuccessPagesAreTrue ==
  ASSUME Safe, NeverBoth
  PROVE  SiteSpec => []SuccessPageIsTrue
<1>1. SiteInit => SuccessPageIsTrue
  BY DEF SiteInit, SuccessPageIsTrue
<1> QED
  BY <1>1, SuccessPageStep, PaidIsKept, InvariantHolds, SiteIsConsistent,
     SiteRunsTheService, PTL DEF SiteSpec

(***************************************************************************)
(* Whatever buyers and operators do, no event is oversold and no notice is *)
(* lost: the service's theorems, read on the site.                         *)
(***************************************************************************)
THEOREM SiteNeverOversells ==
  ASSUME Safe
  PROVE  SiteSpec => [](NoOversell /\ AnsweredIsApplied)
  BY SiteRunsTheService, NeverOversold, NoNoticeIsLost, PTL
=============================================================================
