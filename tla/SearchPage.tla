----------------------------- MODULE SearchPage -----------------------------
(***************************************************************************)
(* The search page (src/web/app.js): its state, the handlers that start a  *)
(* search, and the answers, which arrive in any order.  Nothing tells an   *)
(* answer to an old search from one to the latest.                         *)
(***************************************************************************)
EXTENDS Integers, FiniteSets

CONSTANTS Locations,    \* texts that name a place
          Windows, Sorts, Genres,
          MaxSearches   \* bound on the searches a user starts

ASSUME MaxSearchesNat == MaxSearches \in Nat

VARIABLES query,        \* state.location, window, sort and genres
          chips,        \* state.facets: a button for each genre
          events,       \* state.events: the query they answer, or None
          candidates,   \* are the candidate buttons visible
          loading,      \* state.loading, and the disabled submit button
          flying,       \* fetches not answered yet
          searches,     \* searches started
          patient       \* has the user always waited for the answer so far

vars == <<query, chips, events, candidates, loading, flying, searches,
          patient>>

Blank == ""             \* nothing, or only spaces, in the box
None == [none |-> TRUE]
Query == [location : Locations \cup {Blank}, window : Windows, sort : Sorts,
          genres : SUBSET Genres]
Fetch == [number : 1..MaxSearches, query : Query, keepFacets : BOOLEAN]

TypeOK == /\ query \in Query
          /\ chips \subseteq Genres
          /\ events \in Query \cup {None}
          /\ candidates \in BOOLEAN
          /\ loading \in BOOLEAN
          /\ flying \subseteq Fetch
          /\ searches \in 0..MaxSearches
          /\ loading => flying # {}
          /\ patient \in BOOLEAN

Init == /\ query \in [location : {Blank}, window : Windows, sort : Sorts,
                      genres : {{}}]
        /\ chips = {}
        /\ events = None
        /\ candidates = FALSE
        /\ loading = FALSE
        /\ flying = {}
        /\ searches = 0
        /\ patient = TRUE

UserActs == /\ searches < MaxSearches
            /\ patient' = (patient /\ flying = {})

\* search(): a blank location returns at once.
Search(q, keepFacets) ==
    IF q.location = Blank
    THEN UNCHANGED <<candidates, loading, flying, searches>>
    ELSE /\ candidates' = FALSE
         /\ loading' = TRUE
         /\ flying' = flying \cup {[number |-> searches + 1, query |-> q,
                                    keepFacets |-> keepFacets]}
         /\ searches' = searches + 1

\* Bug: the active genres outlive the search they were found in.
BugKeepGenres(l, s) == [query EXCEPT !.location = l, !.sort = s]
FormQuery(l, s) == [query EXCEPT !.location = l, !.sort = s, !.genres = {}]

\* The form, also submitted by a candidate button and by "Near me".
SubmitForm(l, s) == /\ UserActs
                    /\ query' = FormQuery(l, s)
                    /\ Search(query', FALSE)
                    /\ UNCHANGED <<chips, events>>

\* Sorting an empty list asks nobody.
ChangeSort(s) == /\ UserActs
                 /\ s # query.sort
                 /\ query' = [query EXCEPT !.sort = s]
                 /\ IF events # None
                    THEN Search(query', TRUE)
                    ELSE UNCHANGED <<candidates, loading, flying, searches>>
                 /\ UNCHANGED <<chips, events>>

\* Bug: like ChangeSort, only when something is shown.
BugWindowWaits(w) ==
    /\ UserActs
    /\ query' = [query EXCEPT !.window = w]
    /\ UNCHANGED <<chips, events, candidates, loading, flying, searches>>
PickWindow(w) == /\ UserActs
                 /\ query' = [query EXCEPT !.window = w]
                 /\ Search(query', TRUE)
                 /\ UNCHANGED <<chips, events>>

ToggleGenre(g) ==
    /\ UserActs
    /\ g \in chips
    /\ query' = [query EXCEPT !.genres = IF g \in @ THEN @ \ {g} ELSE @ \cup {g}]
    /\ Search(query', TRUE)
    /\ UNCHANGED <<chips, events>>
-----------------------------------------------------------------------------
(***************************************************************************)
(* The rest of search(), when the answer to f is there; its finally block  *)
(* ends the loading state, whatever else is still due.                     *)
(***************************************************************************)
\* Bug: only an answer in the 200s ends the loading state.
BugNoFinally(f) == /\ f \in flying
                   /\ flying' = flying \ {f}
                   /\ UNCHANGED <<query, searches, patient, loading>>
Answered(f) == /\ f \in flying
               /\ flying' = flying \ {f}
               /\ loading' = FALSE
               /\ UNCHANGED <<query, searches, patient>>

ArriveEvents(f, found, genres) ==
    /\ Answered(f)
    /\ candidates' = FALSE
    /\ events' = IF found THEN f.query ELSE None
    /\ chips' = IF f.keepFacets THEN chips ELSE genres

\* Bug: the old list stays under the question.
BugLeaveEvents(f) == /\ Answered(f)
                     /\ candidates' = TRUE
                     /\ UNCHANGED <<events, chips>>
ArriveCandidates(f) == /\ Answered(f)
                       /\ candidates' = TRUE
                       /\ events' = None
                       /\ UNCHANGED chips

ArriveError(f) == /\ Answered(f)
                  /\ candidates' = FALSE
                  /\ events' = None
                  /\ UNCHANGED chips

\* The catch block hides no candidates.
FetchFails(f) == /\ Answered(f)
                 /\ events' = None
                 /\ UNCHANGED <<candidates, chips>>

Arrive(f) ==
    \/ \E genres \in SUBSET Genres : ArriveEvents(f, TRUE, genres)
    \/ ArriveEvents(f, FALSE, {})
    \/ ArriveCandidates(f) \/ ArriveError(f) \/ FetchFails(f)

Next == \/ \E l \in Locations \cup {Blank}, s \in Sorts : SubmitForm(l, s)
        \/ \E s \in Sorts : ChangeSort(s)
        \/ \E w \in Windows : PickWindow(w)
        \/ \E g \in Genres : ToggleGenre(g)
        \/ \E f \in flying : Arrive(f)

Spec == Init /\ [][Next]_vars
-----------------------------------------------------------------------------
(***************************************************************************)
(* When several places match, the page asks and shows nothing else         *)
(* (README.md:253), in whatever order overlapping answers arrive.          *)
(***************************************************************************)
CandidatesAlone == candidates => events = None

(***************************************************************************)
(* For a user who waits for each answer, the list is the answer to what    *)
(* the controls say, after any sequence of submits, sorts, windows, genres,*)
(* questions and errors.                                                   *)
(***************************************************************************)
ShownIsAsked ==
    patient /\ flying = {} /\ events # None /\ query.location # Blank =>
        events = query

(***************************************************************************)
(* For a user who waits, each active genre has a chip that turns it off.   *)
(***************************************************************************)
FiltersHaveChips == patient => query.genres \subseteq chips
=============================================================================
