--------------------------- MODULE JamBaseClient ---------------------------
(***************************************************************************)
(* JamBaseClient.get (src/app/providers/jambase/client.py): one call, its  *)
(* attempts, and what it gives its caller.  A reply is one of the classes  *)
(* that the code tells apart; the log keeps them in order.                 *)
(***************************************************************************)
EXTENDS Integers, Sequences

CONSTANT MaxRetries    \* settings.http_max_retries

ASSUME MaxRetriesNat == MaxRetries \in Nat

VARIABLES apiKey,      \* is JAMBASE_API_KEY set
          log,         \* replies so far
          call,        \* stage of the call
          outcome      \* what the call returned or raised

clientVars == <<apiKey, log, call, outcome>>

(***************************************************************************)
(* "noReply" is a timeout or a transport error.  RETRY_STATUS names four   *)
(* of the 5xx; others exist (501, 520).  "notJson" is a 2xx or a redirect, *)
(* which httpx does not follow, with a body that is not JSON.              *)
(***************************************************************************)
Hiccups == {"noReply", "429", "listed5xx"}
Reply == Hiccups \cup {"other5xx", "keyRejected", "other4xx", "404",
                       "page", "notJson"}
Outcome == {"page", "empty", "authError", "unavailable", "exception"}

ClientTypeOK == /\ apiKey \in BOOLEAN
                /\ log \in Seq(Reply)
                /\ Len(log) <= MaxRetries + 1
                /\ call \in {"idle", "sending", "pausing", "ended"}
                /\ outcome \in Outcome \cup {"none"}
                /\ call = "ended" <=> outcome # "none"

ClientInit == /\ apiKey \in BOOLEAN
              /\ log = <<>>
              /\ call = "idle"
              /\ outcome = "none"

End(o) == call' = "ended" /\ outcome' = o

\* Bug: a rejected key is taken for a hiccup.
BugRetryKey(reply) == reply \in Hiccups \cup {"keyRejected"}
Transient(reply) == reply \in Hiccups

\* Bug: max_retries counts the attempts after the first retry.
BugOneMore == Len(log) <= MaxRetries
AttemptsLeft == Len(log) < MaxRetries

\* Bug: a call that has given up returns nothing instead of raising.
BugGivesNothing(reply) == CASE reply = "keyRejected" -> "authError"
                            [] reply = "page"        -> "page"
                            [] reply = "notJson"     -> "exception"
                            [] OTHER                 -> "empty"
\* What a reply that is not retried makes of the call.
Verdict(reply) == CASE reply = "keyRejected" -> "authError"
                    [] reply = "404"         -> "empty"
                    [] reply = "page"        -> "page"
                    [] reply = "notJson"     -> "exception"
                    [] OTHER                 -> "unavailable"

Call == /\ IF apiKey THEN call' = "sending" /\ UNCHANGED outcome
                     ELSE End("authError")
        /\ UNCHANGED <<apiKey, log>>

Receive(reply) == /\ call = "sending"
                  /\ log' = Append(log, reply)
                  /\ IF Transient(reply) /\ AttemptsLeft
                     THEN call' = "pausing" /\ UNCHANGED outcome
                     ELSE End(Verdict(reply))
                  /\ UNCHANGED apiKey

Retry == /\ call = "pausing"
         /\ call' = "sending"
         /\ UNCHANGED <<apiKey, log, outcome>>

\* The next call starts from nothing.
Forget == /\ log' = <<>>
          /\ call' = "idle"
          /\ outcome' = "none"
          /\ UNCHANGED apiKey
-----------------------------------------------------------------------------
(***************************************************************************)
(* Retries where the client holds that they help (client.py:19-20, 63-85): *)
(* no request follows an answer that would not change, a rejected key      *)
(* above all; a call gives up on a timeout, a transport error or a status  *)
(* of RETRY_STATUS only with its retries spent; and it returns a page      *)
(* exactly when the last reply was one, whatever failed before.  A 5xx     *)
(* outside RETRY_STATUS is among the answers that end a call at once: less *)
(* than the README promises, see ServerErrorsAreRetried.                   *)
(***************************************************************************)
RetriesWhereItHelps ==
    /\ \A i \in 1..(Len(log) - 1) : log[i] \in Hiccups
    /\ call = "ended" /\ Len(log) \in 1..MaxRetries =>
          log[Len(log)] \notin Hiccups
    /\ outcome = "page" <=> log # <<>> /\ log[Len(log)] = "page"

(***************************************************************************)
(* "429/5xx/timeouts get two retries" (README.md:169): a call that ends on *)
(* one of them, whichever 5xx it is, has made all its attempts.  The code  *)
(* does not have this property: one reply "other5xx", such as 501 or 520,  *)
(* ends a call.  As an invariant of PickInTheStates.cfg it fails with the  *)
(* log <<"other5xx">>.                                                     *)
(***************************************************************************)
ServerErrorsAreRetried ==
    call = "ended" /\ log # <<>> /\ log[Len(log)] \in Hiccups \cup {"other5xx"} =>
        Len(log) = MaxRetries + 1
=============================================================================
