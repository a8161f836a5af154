----------------------------- MODULE Geocoding -----------------------------
(***************************************************************************)
(* From the text in the search box to a place: find_cities and the helpers *)
(* of src/app/providers/jambase/provider.py, the choice resolve_location   *)
(* makes on their answer (services/discovery.py), and the buttons that let *)
(* the user pick one of several places (web/app.js).  A pick is submitted  *)
(* as a new text, the label of the candidate.  Each lookup is one call of  *)
(* the HTTP client, with its retries.                                      *)
(***************************************************************************)
EXTENDS JamBaseClient, FiniteSets, FiniteSetsExt

CONSTANTS Cities,    \* what the API knows: records with an id, name, region,
                     \* country, upcoming (x-numUpcomingEvents), away (distance
                     \* from the user's point) and mappable
          Typed,     \* texts that users type
          Begins,    \* <<t, n>>: the API finds name n for the text t
          USStates   \* the codes in US_STATES

ASSUME CitiesHaveIds == \A c, d \in Cities : c.id = d.id => c = d
ASSUME NoneIsNoState == "none" \notin USStates

VARIABLES live,        \* cities with upcoming events
          box,         \* the text in #location
          picked,      \* the candidate whose button was pressed last
          stage,
          candidates,  \* cities behind the buttons
          place        \* the location a search goes on with

pageVars == <<live, box, picked, stage, candidates, place>>
vars == <<pageVars, clientVars>>

Nobody == [id |-> "none"]
Text(name, state) == [kind |-> "name", name |-> name, state |-> state]
Point == [kind |-> "point", name |-> "", state |-> ""]
OffEarth == [kind |-> "offEarth", name |-> "", state |-> ""]

\* _city_to_location: "US-TX" is shown as "TX"; no region, no comma.
\* Bug: the region is left out of the label.
BugNameOnly(c) == Text(c.name, "")
Label(c) == Text(c.name, c.region)

\* _split_city_state: what follows the comma counts if US_STATES has it.
Hint(text) == IF text.state \in USStates THEN text.state ELSE "none"

(***************************************************************************)
(* The API (external): names are matched by prefix, a state is a US state, *)
(* and only cities with upcoming events are sent, a page of them at most.  *)
(***************************************************************************)
Matches(text) == {c \in live :
                    /\ <<text.name, c.name>> \in Begins
                    /\ Hint(text) # "none" => /\ c.country = "US"
                                              /\ c.region = Hint(text)}
Sent(S, perPage) == kSubset(IF Cardinality(S) < perPage THEN Cardinality(S)
                                                        ELSE perPage, S)
Mappable(S) == {c \in S : c.mappable}

Stage == {"asked", "looking", "found", "ambiguous", "notFound", "error"}
TypeOK == /\ ClientTypeOK
          /\ live \subseteq Cities
          /\ box \in Typed \cup {Label(c) : c \in Cities}
          /\ picked \in Cities \cup {Nobody}
          /\ stage \in Stage
          /\ candidates \subseteq Cities
          /\ place \in [geo : Cities \cup {Point}, label : Cities \cup {Point}]
                          \cup {Nobody}
          /\ candidates # {} <=> stage = "ambiguous"
          /\ Cardinality(candidates) # 1
          /\ place # Nobody <=> stage = "found"

Init == /\ ClientInit
        /\ live \in SUBSET Cities
        /\ box \in Typed
        /\ picked = Nobody
        /\ stage = "asked"
        /\ candidates = {}
        /\ place = Nobody

Settle(to, cs, pl) == /\ stage' = to
                      /\ candidates' = cs
                      /\ place' = pl

\* Bug: with several matches, the busiest one.
BugBusiest(found) ==
    IF found = {} THEN Settle("notFound", {}, Nobody)
    ELSE LET c == CHOOSE c \in found :
                     \A d \in found : d.upcoming <= c.upcoming
         IN  Settle("found", {}, [geo |-> c, label |-> c])
\* resolve_location: none, one or several.
Resolve(found) ==
    IF found = {} THEN Settle("notFound", {}, Nobody)
    ELSE IF Cardinality(found) = 1
         THEN \E c \in found : Settle("found", {}, [geo |-> c, label |-> c])
         ELSE Settle("ambiguous", found, Nobody)

Look == /\ stage = "asked"
        /\ box.kind \in {"name", "point"}
        /\ Call
        /\ stage' = "looking"
        /\ UNCHANGED <<live, box, picked, candidates, place>>

\* A latitude above 90 is no place, and nobody is asked.
NoSuchPoint == /\ stage = "asked"
               /\ box.kind = "offEarth"
               /\ Resolve({})
               /\ UNCHANGED <<live, box, picked, clientVars>>

Exchange == /\ stage = "looking"
            /\ Retry \/ \E reply \in Reply : Receive(reply)
            /\ UNCHANGED pageVars

\* The cities in the payload: a 404 reads as an empty one.
Payload(S, perPage) == IF outcome = "page" THEN Sent(S, perPage) ELSE {{}}

FindCities == /\ stage = "looking"
              /\ box.kind = "name"
              /\ outcome \in {"page", "empty"}
              /\ \E sent \in Payload(Matches(box), 10) : Resolve(Mappable(sent))
              /\ UNCHANGED <<live, box, picked, clientVars>>

\* Whatever the client raised goes to the user as an error.
LookupFails == /\ stage = "looking"
               /\ outcome \in {"authError", "unavailable", "exception"}
               /\ Settle("error", {}, Nobody)
               /\ UNCHANGED <<live, box, picked, clientVars>>

Borrow(c) == Settle("found", {}, [geo |-> Point, label |-> c])

\* _nearest_city: of the cities sent, one with the most upcoming events lends
\* its label; without a label the coordinates are shown.
Busiest(S) == {c \in S : \A d \in S : d.upcoming <= c.upcoming}
Near == {c \in live : c.away <= 50}

NearestCity ==
    /\ stage = "looking"
    /\ box.kind = "point"
    /\ outcome \in {"page", "empty"}
    /\ \E sent \in Payload(Near, 5) :
          \/ \E c \in Busiest(sent) : c.mappable /\ Borrow(c)
          \/ /\ sent = {} \/ \E c \in Busiest(sent) : ~c.mappable
             /\ Settle("found", {}, [geo |-> Point, label |-> Point])
    /\ UNCHANGED <<live, box, picked, clientVars>>

Submit(text, c) == /\ box' = text
                   /\ picked' = c
                   /\ stage' = "asked"
                   /\ candidates' = {}
                   /\ place' = Nobody
                   /\ Forget
                   /\ UNCHANGED live

\* A search that is still going on is left to module SearchPage.
Type(text) == stage \notin {"asked", "looking"} /\ Submit(text, Nobody)

Pick(c) == /\ stage = "ambiguous"
           /\ c \in candidates
           /\ Submit(Label(c), c)

Next == \/ Look \/ NoSuchPoint \/ Exchange
        \/ FindCities \/ NearestCity \/ LookupFails
        \/ \E text \in Typed : Type(text)
        \/ \E c \in Cities : Pick(c)

Spec == Init /\ [][Next]_vars
-----------------------------------------------------------------------------
(***************************************************************************)
(* The place a text leads to is never guessed by how busy it is            *)
(* (README.md:250): among the cities with events that fit the text, no     *)
(* other one was there to be picked.                                       *)
(***************************************************************************)
NoOtherFits == stage = "found" /\ box.kind = "name" =>
    \A c \in Mappable(Matches(box)) : c = place.geo

(***************************************************************************)
(* "Pick one" (discovery.py:64) works: whoever presses a candidate's       *)
(* button gets that place, not another one and not the question again,     *)
(* once the lookup gets through.                                           *)
(***************************************************************************)
PickSettles ==
    picked # Nobody /\ outcome = "page" /\ stage # "looking" =>
        stage = "found" /\ place.geo = picked

\* Cities between which picking can decide: in the US, and no other US city
\* of the state has a name that begins with this one's.
Pickable(S) == \A c \in Mappable(S) :
    /\ c.country = "US" /\ c.region \in USStates
    /\ <<c.name, c.name>> \in Begins
    /\ \A d \in Mappable(S) : /\ d.country = "US" /\ d.region = c.region
                             /\ <<c.name, d.name>> \in Begins
                             => d = c

(***************************************************************************)
(* An outage is never told as an unknown place: the user reads "could not  *)
(* find" only when no city with events fits, or the API itself said 404,   *)
(* whatever replies the client met on the way.                             *)
(***************************************************************************)
NotFoundIsTold == stage = "notFound" /\ box.kind = "name" =>
    \/ Mappable(Matches(box)) = {}
    \/ log # <<>> /\ log[Len(log)] = "404"
=============================================================================
