----------------------------- MODULE Discovery -----------------------------
(***************************************************************************)
(* GET /api/events: resolve the location, ask every provider, answer       *)
(* (src/app/services/discovery.py, api/routes.py).  Searches run as        *)
(* coroutines on one event loop and share the cache: a step runs from one  *)
(* await to the next.  What a page contains is left to module Merging;     *)
(* here a provider's answer is a record of who was asked, what, when the   *)
(* page arrived, and whether it is risky: it lists records on which enrich *)
(* or sorted() may raise (EnrichRaises and SortRaises there).              *)
(***************************************************************************)
EXTENDS TTLCache, FiniteSets

CONSTANTS Searches,   \* requests being served
          Providers,  \* registry.all(): a sequence of names
          Queries,    \* location texts, stripped and in lower case
          Places,     \* what a geocoder can find
          Filters     \* radius, dates, genres, keyword and limit, together

ASSUME ProvidersDistinct == IsInjective(Providers)

VARIABLES ask,        \* ask[s]: the query and the filter of search s
          stage,      \* how far the search is
          location,   \* the location it resolved to
          task,       \* task[s][p]: the state of _fetch_one
          result      \* result[s][p]: what _fetch_one returned, and when

vars == <<data, clock, ask, stage, location, task, result>>

Names == ToSet(Providers)
None == [none |-> TRUE]

\* Values in the cache: a location with all the matches it was taken from,
\* and a provider's answer to one search.
Found(q, matches) == [query |-> q, matches |-> matches, seen |-> clock]
Page(p, place, filter, risky) ==
    [provider |-> p, place |-> place, filter |-> filter, risky |-> risky,
     seen |-> clock]

LocationValue == [query : Queries, matches : SUBSET Places, seen : Nat]
PageValue == [provider : Names, place : Places, filter : Filters,
              risky : BOOLEAN, seen : Nat]
Result == [ok : {TRUE}, cached : BOOLEAN, page : PageValue, at : Nat]
             \cup [ok : {FALSE}, at : Nat]
\* The stages from the known place on; "error" is a 500 after the fan-out.
Reached == {"gathering", "answered", "error"}
Stage == {"received", "locating", "notFound", "ambiguous", "failed"} \cup Reached

LocKey(q) == <<"loc", q>>
\* Bug: the key leaves the provider out.
BugKeyWithoutName(p, place, filter) == <<"ev", place, filter>>
EventKey(p, place, filter) == <<"ev", p, place, filter>>

\* Bug: the busiest place, whenever there is one.
BugGuess(matches) == matches # {}
Unique(matches) == Cardinality(matches) = 1

PlaceOf(s) == CHOOSE x \in location[s].matches : TRUE

TypeOK == /\ \A e \in ToSet(data) :
                e.value \in LocationValue \cup PageValue /\ e.expires_at \in Nat
          /\ clock \in 0..Horizon
          /\ ask \in [Searches -> [query : Queries, filter : Filters]]
          /\ stage \in [Searches -> Stage]
          /\ location \in [Searches -> LocationValue \cup {None}]
          /\ task \in [Searches -> [Names -> {"ready", "asking", "done"}]]
          /\ result \in [Searches -> [Names -> Result \cup {None}]]
          /\ \A s \in Searches :
                /\ location[s] # None <=> stage[s] \in Reached
                /\ \A p \in Names : task[s][p] = "done" <=> result[s][p] # None

Init == /\ CacheInit
        /\ ask \in [Searches -> [query : Queries, filter : Filters]]
        /\ stage = [s \in Searches |-> "received"]
        /\ location = [s \in Searches |-> None]
        /\ task = [s \in Searches |-> [p \in Names |-> "ready"]]
        /\ result = [s \in Searches |-> [p \in Names |-> None]]

Goto(s, to) == stage' = [stage EXCEPT ![s] = to]
-----------------------------------------------------------------------------
(***************************************************************************)
(* resolve_location: the cache, then the geocoder.  One match is an        *)
(* answer, several are handed back to the user.                            *)
(***************************************************************************)
LocateFromCache(s) ==
    LET k == LocKey(ask[s].query)
    IN  /\ stage[s] = "received"
        /\ Get(k)
        /\ IF Hit(k)
           THEN /\ location' = [location EXCEPT ![s] = ValueOf(k)]
                /\ Goto(s, "gathering")
           ELSE /\ Goto(s, "locating")
                /\ UNCHANGED location
        /\ UNCHANGED <<clock, ask, task, result>>

Located(s, matches) ==
    LET v == Found(ask[s].query, matches)
    IN  /\ stage[s] = "locating"
        /\ IF Unique(matches)
           THEN /\ Set(LocKey(ask[s].query), v)
                /\ location' = [location EXCEPT ![s] = v]
                /\ Goto(s, "gathering")
           ELSE /\ Goto(s, IF matches = {} THEN "notFound" ELSE "ambiguous")
                /\ UNCHANGED <<data, location>>
        /\ UNCHANGED <<clock, ask, task, result>>

\* find_cities raised: resolve_location does not catch it.
GeocoderFails(s) == /\ stage[s] = "locating"
                    /\ Goto(s, "failed")
                    /\ UNCHANGED <<data, clock, ask, location, task, result>>
-----------------------------------------------------------------------------
(***************************************************************************)
(* _fetch_one, a task per provider.  gather starts the tasks in order;     *)
(* between a cache miss and the write that follows it, anyone may run.     *)
(***************************************************************************)
KeyOf(s, p) == EventKey(p, PlaceOf(s), ask[s].filter)

EarlierStarted(s, p) == \A i, j \in DOMAIN Providers :
    Providers[j] = p /\ i < j => task[s][Providers[i]] # "ready"

Finish(s, p, r) == /\ result' = [result EXCEPT ![s][p] = r]
                   /\ task' = [task EXCEPT ![s][p] = "done"]

StartFetch(s, p) ==
    /\ stage[s] = "gathering"
    /\ task[s][p] = "ready"
    /\ EarlierStarted(s, p)
    /\ Get(KeyOf(s, p))
    /\ IF Hit(KeyOf(s, p))
       THEN Finish(s, p, [ok |-> TRUE, cached |-> TRUE,
                          page |-> ValueOf(KeyOf(s, p)), at |-> clock])
       ELSE /\ task' = [task EXCEPT ![s][p] = "asking"]
            /\ UNCHANGED result
    /\ UNCHANGED <<clock, ask, stage, location>>

PageArrives(s, p, risky) ==
    LET page == Page(p, PlaceOf(s), ask[s].filter, risky)
    IN  /\ task[s][p] = "asking"
        /\ Set(KeyOf(s, p), page)
        /\ Finish(s, p, [ok |-> TRUE, cached |-> FALSE,
                         page |-> page, at |-> clock])
        /\ UNCHANGED <<clock, ask, stage, location>>

\* Bug: an unexpected exception goes through gather.
BugRaises(s, p) == /\ task[s][p] = "asking"
                   /\ Goto(s, "error")
                   /\ task' = [task EXCEPT ![s][p] = "done"]
                   /\ UNCHANGED <<data, clock, ask, location, result>>
\* Bug: the empty list of a failure is cached like an answer.
BugCachesFailure(s, p) ==
    /\ task[s][p] = "asking"
    /\ Set(KeyOf(s, p), Page(p, PlaceOf(s), ask[s].filter, FALSE))
    /\ Finish(s, p, [ok |-> FALSE, at |-> clock])
    /\ UNCHANGED <<clock, ask, stage, location>>
\* Whatever search_events raises becomes a status.
ProviderFails(s, p) == /\ task[s][p] = "asking"
                       /\ Finish(s, p, [ok |-> FALSE, at |-> clock])
                       /\ UNCHANGED <<data, clock, ask, stage, location>>

(***************************************************************************)
(* gather returns, the pages are merged and the response is built.  What   *)
(* follows the fan-out is not isolated: if a page is risky, from the cache *)
(* or not, the search may end in an exception.  It depends on the records  *)
(* that stay after the merge, and on the sort, whether it does.            *)
(***************************************************************************)
Gathered(s) == stage[s] = "gathering" /\ \A p \in Names : task[s][p] = "done"

SomePageRisky(s) == \E p \in Names :
    result[s][p] # None /\ result[s][p].ok /\ result[s][p].page.risky

Answer(s) == /\ Gathered(s)
             /\ Goto(s, "answered")
             /\ UNCHANGED <<data, clock, ask, location, task, result>>

AnswerRaises(s) == /\ Gathered(s)
                   /\ SomePageRisky(s)
                   /\ Goto(s, "error")
                   /\ UNCHANGED <<data, clock, ask, location, task, result>>

Serve(s) == \/ LocateFromCache(s)
            \/ \E matches \in SUBSET Places : Located(s, matches)
            \/ GeocoderFails(s)
            \/ \E p \in Names :
                  \/ StartFetch(s, p)
                  \/ \E risky \in BOOLEAN : PageArrives(s, p, risky)
                  \/ ProviderFails(s, p)
            \/ Answer(s) \/ AnswerRaises(s)

TimePasses == Tick /\ UNCHANGED <<ask, stage, location, task, result>>

Next == TimePasses \/ \E s \in Searches : Serve(s)

Spec == Init /\ [][Next]_vars
-----------------------------------------------------------------------------
(***************************************************************************)
(* A page shown under a provider's name is that provider's answer to this  *)
(* very search, and no older than the TTL when it was taken, whichever     *)
(* search asked for it and however the fetches overlapped.                 *)
(***************************************************************************)
PagesFit == \A s \in Searches, p \in Names :
    LET r == result[s][p]
    IN  r # None /\ r.ok => /\ r.page.provider = p
                            /\ r.page.place = PlaceOf(s)
                            /\ r.page.filter = ask[s].filter
                            /\ r.at <= r.page.seen + TTL

(***************************************************************************)
(* Nobody guesses a place (README.md:250): a search goes on only with a    *)
(* place that was the single match of its own text, cached or not.         *)
(***************************************************************************)
NeverGuesses == \A s \in Searches : location[s] # None =>
                   /\ location[s].query = ask[s].query
                   /\ Cardinality(location[s].matches) = 1

(***************************************************************************)
(* A failure is never remembered: what the cache holds is what the         *)
(* geocoder or a provider answered to some search, so a provider that      *)
(* failed is asked again by the next one.                                  *)
(***************************************************************************)
AnswersOnly == \A e \in ToSet(data) :
    \/ \E s \in Searches : location[s] = e.value
    \/ \E s \in Searches, p \in Names :
          LET r == result[s][p]
          IN  r # None /\ r.ok /\ ~r.cached /\ r.page = e.value

EntryFits(e) ==
    /\ e.expires_at = e.value.seen + TTL
    /\ \/ /\ e.value \in LocationValue
          /\ Unique(e.value.matches)
          /\ e.key = LocKey(e.value.query)
       \/ /\ e.value \in PageValue
          /\ e.key = EventKey(e.value.provider, e.value.place, e.value.filter)

PlaceComesFirst == \A s \in Searches, p \in Names :
    task[s][p] # "ready" => stage[s] \in Reached

(***************************************************************************)
(* Why searches may share the cache: the key of an entry tells what its    *)
(* value is (discovery.py:48 and 140-143), whoever wrote it in between,    *)
(* and no provider is asked before the place is known.                     *)
(***************************************************************************)
SearchInv == /\ TypeOK
             /\ data \in Seq(ToSet(data))
             /\ \A e \in ToSet(data) : EntryFits(e)
             /\ PlaceComesFirst
             /\ PagesFit
             /\ NeverGuesses
             /\ AnswersOnly

(***************************************************************************)
(* The event loop runs every coroutine that can go on, and a provider call *)
(* ends: each attempt has a timeout and the attempts are counted           *)
(* (jambase/client.py).                                                    *)
(***************************************************************************)
FairSpec == Spec /\ \A s \in Searches : WF_vars(Serve(s))

(***************************************************************************)
(* One dead provider degrades the result set, never the request            *)
(* (README.md:166): once the place is known the search ends, and unless    *)
(* some provider did answer, with records on which the merge raises, it is *)
(* answered, however many providers failed and whoever else searches.      *)
(***************************************************************************)
LocatedIsAnswered == \A s \in Searches :
    stage[s] = "gathering" ~> \/ stage[s] = "answered"
                              \/ stage[s] = "error" /\ SomePageRisky(s)
=============================================================================
