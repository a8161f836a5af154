-------------------------- MODULE SearchPageProofs --------------------------
(***************************************************************************)
(* Theorems about the search page, for any places, windows, sorts and      *)
(* genres, and any number of searches.                                     *)
(***************************************************************************)
EXTENDS SearchPage, TLAPS

LEMMA FormQueryType ==
  ASSUME TypeOK, NEW l \in Locations \cup {Blank}, NEW s \in Sorts
  PROVE  FormQuery(l, s) \in Query /\ FormQuery(l, s).genres = {}
  BY DEF TypeOK, FormQuery, Query

(***************************************************************************)
(* search() either asks nobody or has one more fetch flying.               *)
(***************************************************************************)
LEMMA SearchEffect ==
  ASSUME TypeOK, UserActs, NEW q \in Query, NEW keep \in BOOLEAN,
         Search(q, keep)
  PROVE  /\ candidates' \in BOOLEAN /\ loading' \in BOOLEAN
         /\ searches' \in 0..MaxSearches
         /\ flying' \subseteq Fetch
         /\ loading' => flying' # {}
         /\ candidates' => candidates
         /\ patient' \in BOOLEAN /\ (patient' => patient /\ flying = {})
         /\ \/ q.location = Blank /\ UNCHANGED flying
            \/ \E f \in Fetch : /\ f.query = q /\ f.keepFacets = keep
                                /\ flying' = flying \cup {f}
<1>1. /\ searches \in 0..MaxSearches /\ searches < MaxSearches
      /\ candidates \in BOOLEAN /\ loading \in BOOLEAN /\ flying \subseteq Fetch
      /\ loading => flying # {}
      /\ patient \in BOOLEAN /\ patient' = (patient /\ flying = {})
  BY DEF TypeOK, UserActs
<1>2. searches + 1 \in 1..MaxSearches /\ searches + 1 \in 0..MaxSearches
  BY <1>1, MaxSearchesNat
<1>3. CASE q.location = Blank
  BY <1>1, <1>3 DEF Search
<1>4. CASE q.location # Blank
  <2> DEFINE f == [number |-> searches + 1, query |-> q, keepFacets |-> keep]
  <2>1. f \in Fetch /\ f.query = q /\ f.keepFacets = keep
    BY <1>2 DEF Fetch
  <2>2. /\ candidates' = FALSE /\ loading' = TRUE
        /\ flying' = flying \cup {f}
        /\ searches' = searches + 1
    BY <1>4 DEF Search
  <2> HIDE DEF f
  <2> QED
    BY <1>1, <1>2, <2>1, <2>2
<1> QED
  BY <1>3, <1>4

(***************************************************************************)
(* What the handlers have in common: a new query, and a search for it or,  *)
(* with nothing to ask or nothing shown, none.                             *)
(***************************************************************************)
UserStep(q, keep) ==
    /\ q \in Query
    /\ keep \in BOOLEAN
    /\ query' = q
    /\ UserActs
    /\ UNCHANGED <<chips, events>>
    /\ \/ Search(q, keep)
       \/ /\ events = None \/ q.location = Blank
          /\ UNCHANGED <<candidates, loading, flying, searches>>
    /\ \/ q.genres = {}
       \/ keep /\ q.genres \subseteq query.genres \cup chips

UserNext == \/ \E l \in Locations \cup {Blank}, s \in Sorts : SubmitForm(l, s)
            \/ \E s \in Sorts : ChangeSort(s)
            \/ \E w \in Windows : PickWindow(w)
            \/ \E g \in Genres : ToggleGenre(g)

LEMMA UserSteps ==
  ASSUME TypeOK, UserNext
  PROVE  \E q \in Query, keep \in BOOLEAN : UserStep(q, keep)
<1>1. CASE \E l \in Locations \cup {Blank}, s \in Sorts : SubmitForm(l, s)
  <2>1. PICK l \in Locations \cup {Blank}, s \in Sorts : SubmitForm(l, s)
    BY <1>1
  <2>2. UserStep(FormQuery(l, s), FALSE)
    BY <2>1, FormQueryType DEF SubmitForm, UserStep
  <2> QED
    BY <2>2, FormQueryType
<1>2. CASE \E s \in Sorts : ChangeSort(s)
  <2>1. PICK s \in Sorts : ChangeSort(s)
    BY <1>2
  <2> DEFINE q == [query EXCEPT !.sort = s]
  <2>2. q \in Query /\ q.genres = query.genres
    BY DEF TypeOK, Query
  <2>3. UserStep(q, TRUE)
    BY <2>1, <2>2 DEF ChangeSort, UserStep
  <2> QED
    BY <2>2, <2>3
<1>3. CASE \E w \in Windows : PickWindow(w)
  <2>1. PICK w \in Windows : PickWindow(w)
    BY <1>3
  <2> DEFINE q == [query EXCEPT !.window = w]
  <2>2. q \in Query /\ q.genres = query.genres
    BY DEF TypeOK, Query
  <2>3. UserStep(q, TRUE)
    BY <2>1, <2>2 DEF PickWindow, UserStep
  <2> QED
    BY <2>2, <2>3
<1>4. CASE \E g \in Genres : ToggleGenre(g)
  <2>1. PICK g \in Genres : ToggleGenre(g)
    BY <1>4
  <2> DEFINE active == IF g \in query.genres THEN query.genres \ {g}
                                             ELSE query.genres \cup {g}
             q == [query EXCEPT !.genres = active]
  <2>2. /\ q \in Query /\ q.genres = active
        /\ active \subseteq query.genres \cup chips
    BY <2>1 DEF TypeOK, Query, ToggleGenre
  <2>3. UserStep(q, TRUE)
    BY <2>1, <2>2 DEF ToggleGenre, UserStep
  <2> QED
    BY <2>2, <2>3
<1> QED
  BY <1>1, <1>2, <1>3, <1>4 DEF UserNext

(***************************************************************************)
(* A user who waits has one fetch in flight at most, and it asks what the  *)
(* controls say; a search that replaces the chips has no active genre.     *)
(***************************************************************************)
WaitsForOne == patient => /\ \A f, g \in flying : f = g
                          /\ \A f \in flying : f.query = query
                          /\ \A f \in flying : ~f.keepFacets => query.genres = {}

PageInv == /\ TypeOK
           /\ CandidatesAlone
           /\ WaitsForOne
           /\ ShownIsAsked
           /\ FiltersHaveChips

LEMMA UserKeepsPage ==
  ASSUME PageInv, NEW q \in Query, NEW keep \in BOOLEAN, UserStep(q, keep)
  PROVE  PageInv'
<1>1. /\ TypeOK /\ UserActs /\ UNCHANGED <<chips, events>> /\ query' = q
      /\ patient \in BOOLEAN /\ flying \subseteq Fetch
  BY DEF PageInv, UserStep, TypeOK
<1>2. /\ candidates' \in BOOLEAN /\ loading' \in BOOLEAN
      /\ searches' \in 0..MaxSearches
      /\ flying' \subseteq Fetch
      /\ loading' => flying' # {}
      /\ candidates' => candidates
      /\ patient' \in BOOLEAN /\ (patient' => patient /\ flying = {})
      /\ \/ (q.location = Blank \/ events = None) /\ UNCHANGED flying
         \/ \E f \in Fetch : /\ f.query = q /\ f.keepFacets = keep
                             /\ flying' = flying \cup {f}
  <2>1. CASE Search(q, keep)
    BY <1>1, <2>1, SearchEffect
  <2>2. CASE /\ events = None \/ q.location = Blank
             /\ UNCHANGED <<candidates, loading, flying, searches>>
    BY <1>1, <2>2 DEF TypeOK, UserActs
  <2> QED
    BY <2>1, <2>2 DEF UserStep
<1>3. TypeOK'
  BY <1>1, <1>2 DEF TypeOK
<1>4. CandidatesAlone'
  BY <1>1, <1>2 DEF PageInv, CandidatesAlone
<1>5. q.genres = {} \/ (keep /\ q.genres \subseteq query.genres \cup chips)
  BY DEF UserStep
<1>6. WaitsForOne'
  BY <1>1, <1>2, <1>5 DEF WaitsForOne
<1>7. ShownIsAsked'
  BY <1>1, <1>2 DEF ShownIsAsked
<1>8. FiltersHaveChips'
  BY <1>1, <1>2, <1>5 DEF PageInv, FiltersHaveChips
<1> QED
  BY <1>3, <1>4, <1>6, <1>7, <1>8 DEF PageInv

(***************************************************************************)
(* An answer: the list is what its fetch asked for, or empty.              *)
(***************************************************************************)
LEMMA ArriveKeepsPage ==
  ASSUME PageInv, NEW f \in flying, Arrive(f)
  PROVE  PageInv'
<1>1. /\ query \in Query /\ chips \subseteq Genres /\ patient \in BOOLEAN
      /\ candidates \in BOOLEAN /\ searches \in 0..MaxSearches
      /\ flying \subseteq Fetch /\ f \in Fetch /\ f.query \in Query
  BY DEF PageInv, TypeOK, Fetch
<1>2. /\ flying' = flying \ {f} /\ loading' = FALSE
      /\ UNCHANGED <<query, searches, patient>>
      /\ candidates' \in BOOLEAN /\ (candidates' => events' = None)
      /\ events' \in {f.query, None}
      /\ chips' \subseteq Genres
      /\ chips' = chips \/ ~f.keepFacets
  <2>1. CASE \E genres \in SUBSET Genres : ArriveEvents(f, TRUE, genres)
    BY <1>1, <2>1 DEF ArriveEvents, Answered
  <2>2. CASE ArriveEvents(f, FALSE, {})
    BY <1>1, <2>2 DEF ArriveEvents, Answered
  <2>3. CASE ArriveCandidates(f) \/ ArriveError(f) \/ FetchFails(f)
    BY <1>1, <2>3 DEF ArriveCandidates, ArriveError, FetchFails, Answered
  <2> QED
    BY <2>1, <2>2, <2>3 DEF Arrive
<1>3. TypeOK'
  BY <1>1, <1>2 DEF TypeOK
<1>4. CandidatesAlone'
  BY <1>2 DEF CandidatesAlone
<1>5. WaitsForOne'
  BY <1>2 DEF PageInv, WaitsForOne
<1>6. patient => f.query = query /\ (~f.keepFacets => query.genres = {})
  BY DEF PageInv, WaitsForOne
<1>7. ShownIsAsked'
  BY <1>2, <1>6 DEF ShownIsAsked
<1>8. FiltersHaveChips'
  BY <1>2, <1>6 DEF PageInv, FiltersHaveChips
<1> QED
  BY <1>3, <1>4, <1>5, <1>7, <1>8 DEF PageInv

LEMMA PageInit == Init => PageInv
<1> SUFFICES ASSUME Init PROVE PageInv
  OBVIOUS
<1>1. query \in Query /\ query.genres = {}
  BY DEF Init, Query
<1>2. TypeOK
  <2>1. 0 \in 0..MaxSearches
    BY MaxSearchesNat
  <2>2. events \in Query \cup {None}
    BY DEF Init
  <2> QED
    BY <1>1, <2>1, <2>2 DEF Init, TypeOK
<1> QED
  BY <1>1, <1>2 DEF Init, PageInv, CandidatesAlone, WaitsForOne, ShownIsAsked,
     FiltersHaveChips

LEMMA PageNext == PageInv /\ [Next]_vars => PageInv'
<1>1. ASSUME PageInv, UNCHANGED vars
      PROVE  PageInv'
  BY <1>1 DEF vars, PageInv, TypeOK, CandidatesAlone, WaitsForOne,
     ShownIsAsked, FiltersHaveChips
<1>2. ASSUME PageInv, UserNext
      PROVE  PageInv'
  <2>1. PICK q \in Query, keep \in BOOLEAN : UserStep(q, keep)
    BY <1>2, UserSteps DEF PageInv
  <2> QED
    BY <1>2, <2>1, UserKeepsPage
<1>3. ASSUME PageInv, NEW f \in flying, Arrive(f)
      PROVE  PageInv'
  BY <1>3, ArriveKeepsPage
<1> QED
  BY <1>1, <1>2, <1>3 DEF Next, UserNext

(***************************************************************************)
(* The page keeps its types, asks alone, and, for a user who waits, shows  *)
(* what the controls ask for and has a chip for every active genre.        *)
(***************************************************************************)
THEOREM PageIsConsistent == Spec => []PageInv
  BY PageInit, PageNext, PTL DEF Spec

(***************************************************************************)
(* Every variable of the page keeps its type; while it is loading, an      *)
(* answer is due.                                                          *)
(***************************************************************************)
THEOREM PageTypeCorrect == Spec => []TypeOK
<1>1. PageInv => TypeOK
  BY DEF PageInv
<1> QED
  BY <1>1, PageIsConsistent, PTL

(***************************************************************************)
(* A question about the place stands alone, in whatever order overlapping  *)
(* answers arrive.                                                         *)
(***************************************************************************)
THEOREM QuestionStandsAlone == Spec => []CandidatesAlone
<1>1. PageInv => CandidatesAlone
  BY DEF PageInv
<1> QED
  BY <1>1, PageIsConsistent, PTL

(***************************************************************************)
(* For a user who waits for each answer, the list answers the controls.    *)
(***************************************************************************)
THEOREM ListAnswersControls == Spec => []ShownIsAsked
<1>1. PageInv => ShownIsAsked
  BY DEF PageInv
<1> QED
  BY <1>1, PageIsConsistent, PTL

(***************************************************************************)
(* For a user who waits, every active genre can be turned off again.       *)
(***************************************************************************)
THEOREM GenresCanBeTurnedOff == Spec => []FiltersHaveChips
<1>1. PageInv => FiltersHaveChips
  BY DEF PageInv
<1> QED
  BY <1>1, PageIsConsistent, PTL
=============================================================================
