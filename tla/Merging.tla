------------------------------ MODULE Merging ------------------------------
(***************************************************************************)
(* What becomes of a search (src/app/api/routes.py, services/discovery.py  *)
(* and search_events of jambase/provider.py): the window is turned into    *)
(* dates, each provider sends the soonest records of its catalogue in      *)
(* them, the records are mapped, duplicates are merged one event at a      *)
(* time, genres counted, events sorted and cut at the limit.               *)
(***************************************************************************)
EXTENDS Listings

CONSTANTS Providers,  \* registry.all(): a sequence of names
          Universe,   \* records that a provider may list
          Folded,     \* what _normalize_title makes of each text
          Windows,    \* values of DateWindow
          Days,       \* days on which people search; day 0 is a Monday
          Limit,      \* EventSearch.limit
          MaxPage     \* settings.max_page_size

ASSUME LimitPositive == Limit \in Nat \ {0}
ASSUME MaxPagePositive == MaxPage \in Nat \ {0}
ASSUME DaysNat == Days \subseteq Nat
ASSUME WindowsKnown ==
    Windows \subseteq {"today", "weekend", "week", "month", "all"}
ASSUME ProvidersDiffer ==    \* the registry is a dict, and JamBase is in it
    /\ Len(Providers) \in Nat \ {0}
    /\ DOMAIN Providers = 1..Len(Providers)
    /\ \A i, j \in DOMAIN Providers : Providers[i] = Providers[j] => i = j

VARIABLES catalog,    \* everything the providers have
          window,     \* the date window asked for
          today,      \* date.today() of the server
          sort,       \* "date" or "distance"
          pages,      \* the page of records that each provider's API sends
          todo,       \* the events of each provider not merged yet
          merged,     \* fetched events merged so far
          best,       \* the dict of _deduplicate, in insertion order
          shown,      \* SearchResult.events
          facets,     \* SearchResult.genre_facets
          stage

request == <<catalog, window, today, sort, pages>>
vars == <<request, todo, merged, best, shown, facets, stage>>

Far == 1000 * 1000
Endless == 1000 * Far
AllGenres == UNION {Genres(raw.acts) : raw \in Universe}
Event == {MapEvent(raw) : raw \in Universe}

ASSUME UniverseFinite == IsFiniteSet(Universe)
ASSUME RecordsTyped == \A raw \in Universe :
    /\ \E i \in DOMAIN Providers : Providers[i] = raw.provider
    /\ raw.day # NoDay => raw.day \in 0..Endless
    /\ raw.time \in Nat /\ raw.seats \in Nat
    /\ raw.place \in Nat \cup {NoPlace, Unmeasurable}
-----------------------------------------------------------------------------
(***************************************************************************)
(* _window_to_dates: the first and the last day, for "all" without end.    *)
(***************************************************************************)
Weekday == today % 7    \* Monday is 0

\* Bug: on a Saturday or Sunday, the weekend to come.
BugNextFriday == today + ((4 - Weekday) % 7)
Friday == IF Weekday \in {5, 6} THEN today - (Weekday - 4)
                                ELSE today + ((4 - Weekday) % 7)

DateFrom == IF window = "weekend" /\ Friday > today THEN Friday ELSE today
DateTo == CASE window = "today"   -> today
            [] window = "weekend" -> Friday + 2
            [] window = "week"    -> today + 7
            [] window = "month"   -> today + 30
            [] window = "all"     -> Endless
-----------------------------------------------------------------------------
(***************************************************************************)
(* search_events asks for perPage = min(limit, max_page_size) records in   *)
(* these dates, sort = eventDate.  The API (external) sends the soonest    *)
(* ones; one whose date cannot be read may be anywhere, or be left out.    *)
(***************************************************************************)
ListedBy(p) == {raw \in catalog :
                   /\ raw.provider = p
                   /\ raw.day # NoDay => DateFrom <= raw.day /\ raw.day <= DateTo}

\* Bug: always a full page, whatever the limit.
BugFullPage == MaxPage
PerPage == IF Limit < MaxPage THEN Limit ELSE MaxPage

SizeOfPage(S) == IF Cardinality(S) < PerPage THEN Cardinality(S) ELSE PerPage

NotAfter(a, b) == NoDay \in {a.day, b.day} \/ a.day <= b.day

SoonestOf(S) == {s \in [1..SizeOfPage(S) -> S] :
    /\ \A i, j \in DOMAIN s : i < j => s[i] # s[j] /\ NotAfter(s[i], s[j])
    /\ \A raw \in S \ {s[i] : i \in DOMAIN s} :
          \A i \in DOMAIN s : NotAfter(s[i], raw)}

PagesSent == LET sent == [i \in DOMAIN Providers |->
                             SoonestOf(ListedBy(Providers[i]))]
             IN  {f \in [DOMAIN Providers -> UNION {sent[i] : i \in DOMAIN sent}] :
                     \A i \in DOMAIN Providers : f[i] \in sent[i]}
-----------------------------------------------------------------------------
(***************************************************************************)
(* The identity of a show: date, city and headline act, folded.            *)
(***************************************************************************)
Act(e) == Folded[IF HeadlinerName(e) # Missing THEN HeadlinerName(e)
                                               ELSE e.title]
DedupeKey(e) == <<e.date, Folded[e.city], Act(e)>>

SameShow(d, e) == DedupeKey(d) = DedupeKey(e)

\* Bug: a later record wins a tie.
BugLastWins(dict, e) ==
    IF \E i \in DOMAIN dict : SameShow(dict[i], e)
    THEN [i \in DOMAIN dict |->
             IF SameShow(dict[i], e) /\ Completeness(e) >= Completeness(dict[i])
             THEN e ELSE dict[i]]
    ELSE Append(dict, e)

\* Bug: the first record of a show stays.
BugFirstWins(dict, e) == IF \E i \in DOMAIN dict : SameShow(dict[i], e)
                         THEN dict ELSE Append(dict, e)

\* One turn of the loop in _deduplicate.
Keep(dict, e) ==
    IF \E i \in DOMAIN dict : SameShow(dict[i], e)
    THEN [i \in DOMAIN dict |->
             IF SameShow(dict[i], e) /\ Completeness(e) > Completeness(dict[i])
             THEN e ELSE dict[i]]
    ELSE Append(dict, e)

(***************************************************************************)
(* The clock of a start, as mapper._parse_time reads it: a date alone has  *)
(* none (midnight, for the sort), "T20:00:00Z" is cut to eight characters  *)
(* and loses its zone, the shorter "T20:00Z" keeps it.  Python refuses to  *)
(* order a time that has a zone and one that has not.                      *)
(***************************************************************************)
StartTime(e) == IF e.form = "date" THEN 0 ELSE e.time
Zoned(e) == e.form = "minutesZ"

\* Bug: the sort begins with the time, before the date.
BugTimeFirst(s) == \E i, j \in DOMAIN s : Zoned(s[i]) # Zoned(s[j])
CannotCompare(s) == \E i, j \in DOMAIN s : /\ s[i].date = s[j].date
                                           /\ Zoned(s[i]) # Zoned(s[j])

\* Bug: without "distance_km is None" in the tuple.
BugDistanceOrZero(e) ==
    IF sort = "distance"
    THEN <<IF Distance(e) = NoDistance THEN 0 ELSE Distance(e), e.date, 0>>
    ELSE <<e.date, StartTime(e),
           IF Distance(e) \in {NoDistance, 0} THEN Far ELSE Distance(e)>>

(***************************************************************************)
(* _sort_events: stable, by a tuple.  "distance_km or 1e9" makes a venue   *)
(* at distance 0 the farthest one when date and time are equal.            *)
(***************************************************************************)
SortKey(e) ==
    IF sort = "distance"
    THEN <<IF Distance(e) = NoDistance THEN 1 ELSE 0,
           IF Distance(e) = NoDistance THEN 0 ELSE Distance(e),
           e.date>>
    ELSE <<e.date, StartTime(e),
           IF Distance(e) \in {NoDistance, 0} THEN Far ELSE Distance(e)>>

Less(a, b) == \E i \in 1..3 : /\ SortKey(a)[i] < SortKey(b)[i]
                              /\ \A j \in 1..(i - 1) :
                                    SortKey(a)[j] = SortKey(b)[j]

Rank(s, i) == Cardinality({j \in DOMAIN s :
                 Less(s[j], s[i]) \/ (~Less(s[i], s[j]) /\ j <= i)})
Sorted(s) == [n \in DOMAIN s |-> s[CHOOSE i \in DOMAIN s : Rank(s, i) = n]]

FirstN(s, n) == SubSeq(s, 1, IF Len(s) < n THEN Len(s) ELSE n)

\* Bug: no limit when sorting by distance.
BugNoLimit(s) == IF sort = "date" THEN FirstN(Sorted(s), Limit) ELSE Sorted(s)
Shown(s) == FirstN(Sorted(s), Limit)

Facets(s) == [g \in AllGenres |->
                 Cardinality({i \in DOMAIN s : g \in s[i].genres})]
-----------------------------------------------------------------------------
TypeOK == /\ catalog \subseteq Universe
          /\ window \in Windows /\ today \in Days
          /\ sort \in {"date", "distance"}
          /\ pages \in [DOMAIN Providers -> Seq(catalog)]
          /\ todo \in [DOMAIN Providers -> Seq(Event)]
          /\ merged \in Seq(Event)
          /\ best \in Seq(Event) /\ Len(best) <= Len(merged)
          /\ shown \in Seq(Event) /\ Len(shown) <= Limit
          /\ facets \in [AllGenres -> Nat]
          /\ stage \in {"merging", "answered", "error"}

\* A provider lists a show once; two providers may list the same one.
ListedOnce(c) == \A d, e \in c :
    d.provider = e.provider /\ SameShow(MapEvent(d), MapEvent(e)) => d = e

Init == /\ catalog \in {c \in SUBSET Universe : ListedOnce(c)}
        /\ window \in Windows
        /\ today \in Days
        /\ pages \in PagesSent
        /\ sort \in {"date", "distance"}
        /\ todo = [i \in DOMAIN Providers |-> MapEvents(pages[i])]
        /\ merged = <<>>
        /\ best = <<>>
        /\ shown = <<>>
        /\ facets = Facets(<<>>)
        /\ stage = "merging"

\* _gather puts the providers' events one after the other.
MergeOne(i) == /\ stage = "merging"
               /\ todo[i] # <<>>
               /\ \A j \in 1..(i - 1) : todo[j] = <<>>
               /\ best' = Keep(best, Head(todo[i]))
               /\ merged' = Append(merged, Head(todo[i]))
               /\ todo' = [todo EXCEPT ![i] = Tail(@)]
               /\ UNCHANGED <<request, shown, facets, stage>>

AllMerged == \A i \in DOMAIN Providers : todo[i] = <<>>

SomeUnmeasurable == \E i \in DOMAIN best : CannotMeasure(best[i])

RankAndCut == /\ stage = "merging"
              /\ AllMerged
              /\ ~SomeUnmeasurable
              /\ ~(sort = "date" /\ CannotCompare(best))
              /\ shown' = Shown(best)
              /\ facets' = Facets(best)
              /\ stage' = "answered"
              /\ UNCHANGED <<request, todo, merged, best>>

\* enrich raises ValueError at the first such event: no handler expects it.
EnrichRaises == /\ stage = "merging"
                /\ AllMerged
                /\ SomeUnmeasurable
                /\ stage' = "error"
                /\ UNCHANGED <<request, todo, merged, best, shown, facets>>

\* sorted() raises TypeError, and no handler expects that either.
SortRaises == /\ stage = "merging"
              /\ AllMerged
              /\ ~SomeUnmeasurable
              /\ sort = "date"
              /\ CannotCompare(best)
              /\ stage' = "error"
              /\ UNCHANGED <<request, todo, merged, best, shown, facets>>

Next == \/ \E i \in DOMAIN Providers : MergeOne(i)
        \/ RankAndCut \/ EnrichRaises \/ SortRaises

Spec == Init /\ [][Next]_vars
-----------------------------------------------------------------------------
\* Of the events merged so far: the first one of its show, and the first
\* richest one.
FirstOfShow(i) == \A j \in 1..(i - 1) : ~SameShow(merged[j], merged[i])
RichestOfShow(i) == \A j \in DOMAIN merged : SameShow(merged[j], merged[i]) =>
    \/ Completeness(merged[j]) < Completeness(merged[i])
    \/ Completeness(merged[j]) = Completeness(merged[i]) /\ i <= j

\* The show of d was first seen before that of e.
SeenBefore(d, e) == \E f, g \in DOMAIN merged :
    /\ f < g /\ FirstOfShow(f) /\ FirstOfShow(g)
    /\ SameShow(merged[f], d) /\ SameShow(merged[g], e)

(***************************************************************************)
(* After every event, each show seen so far is there once, as its first    *)
(* richest record (discovery.py:169), whole, and the shows stand in the    *)
(* order in which they were first seen, whichever provider listed them.    *)
(***************************************************************************)
RichestOfEachShow ==
    /\ \A i \in DOMAIN merged :
          \E j \in DOMAIN best : SameShow(best[j], merged[i])
    /\ \A i \in DOMAIN best :
          \E j \in DOMAIN merged : best[i] = merged[j] /\ RichestOfShow(j)
    /\ \A i, j \in DOMAIN best : i < j => SeenBefore(best[i], best[j])

(***************************************************************************)
(* What the windows mean (README.md:192): tonight is today; the weekend is *)
(* the Friday, Saturday and Sunday in a row that come first, less the days *)
(* that are over.                                                          *)
(***************************************************************************)
OnWeekend(d) == d % 7 \in {4, 5, 6}
Asked(d) == /\ d >= today
            /\ window = "today" => d = today
            /\ window = "weekend" =>
                  /\ OnWeekend(d)
                  /\ \A b \in today..d : OnWeekend(b) =>
                        \A c \in b..d : OnWeekend(c)
            /\ window = "week" => d <= today + 7
            /\ window = "month" => d <= today + 30

(***************************************************************************)
(* Nothing is shown outside the window, on whatever day of the week the    *)
(* search is made, and every event shown is one record of one provider:    *)
(* no distance without a place of its own, no size label without seats     *)
(* (README.md:190), no mixture of two records of a show.                   *)
(***************************************************************************)
NothingInvented == \A i \in DOMAIN shown :
    LET e == shown[i]
    IN  /\ Asked(e.date)
        /\ \E raw \in catalog :
              /\ e = MapEvent(raw)
              /\ Distance(e) # NoDistance =>
                    raw.place \notin {NoPlace, NullIsland}
              /\ Tags(e) \ {raw.status} # {} => raw.seats > 0

\* Records of a provider's page that cannot become events.
Bad(page) == Cardinality({i \in DOMAIN page : ~Good(page[i])})

(***************************************************************************)
(* "Soonest" is soonest of all: although each provider sends one page and  *)
(* duplicates are merged before the cut, a show in the window that is left *)
(* out has a full list of shows before it.  A bad record costs its own     *)
(* place on the page and no good record (jambase/mapper.py:4).  As long as *)
(* the limit fits a page.                                                  *)
(***************************************************************************)
SoonestShown == stage = "answered" /\ sort = "date" /\ Limit <= MaxPage =>
    \A p \in DOMAIN Providers, raw \in catalog :
       raw.provider = Providers[p] /\ Good(raw) /\ Asked(raw.day) =>
          \/ \E i \in DOMAIN shown : SameShow(shown[i], MapEvent(raw))
          \/ Cardinality({i \in DOMAIN shown : shown[i].date <= raw.day})
                >= Limit - Bad(pages[p])

(***************************************************************************)
(* "Closest": events whose place is unknown sink to the bottom             *)
(* (discovery.py:195), the unknown place (0, 0) among them.                *)
(***************************************************************************)
Unknown(e) == e.place \in {NoPlace, NullIsland}
UnknownPlacesLast == sort = "distance" =>
    \A i, j \in DOMAIN shown : i < j /\ Unknown(shown[i]) => Unknown(shown[j])

(***************************************************************************)
(* One bad record cannot fail a search (jambase/mapper.py:4).              *)
(***************************************************************************)
NoRecordFailsASearch == stage # "error"

(***************************************************************************)
(* Which records do: one listed for the window asked for whose distance    *)
(* cannot be computed, and, when the soonest are asked for, two of one day *)
(* of which one start has a zone and the other has not (discovery.py:78    *)
(* and 204).  No other record that is mapped fails the search.             *)
(***************************************************************************)
Listed(raw) == raw \in catalog /\ Good(raw) /\ Asked(raw.day)
ErrorsHaveACause == stage = "error" =>
    \/ \E raw \in Universe : Listed(raw) /\ raw.place = Unmeasurable
    \/ /\ sort = "date"
       /\ \E a, b \in Universe : /\ Listed(a) /\ Listed(b) /\ a.day = b.day
                                 /\ a.form = "minutesZ" /\ b.form # "minutesZ"

(***************************************************************************)
(* The genre counts reflect what is in the returned set (discovery.py:80), *)
(* although they are taken before the cut, as long as one provider has all *)
(* the events (main.py registers one): its page is no longer than the      *)
(* limit.                                                                  *)
(***************************************************************************)
FacetsMatchShown ==
    stage = "answered" /\ Cardinality({e.provider : e \in catalog}) <= 1 =>
        facets = Facets(shown)
-----------------------------------------------------------------------------
PagesAreSoonest == \A p \in DOMAIN Providers :
    pages[p] \in SoonestOf(ListedBy(Providers[p]))

MappedFrom(e, page) == \E m \in Kept(page) : e = MapEvent(page[m])

\* Every event was mapped from a page, and every good record of a page is
\* still to be merged or is merged.
EventsAreMapped ==
    /\ \A p \in DOMAIN Providers : \A n \in DOMAIN todo[p] :
          MappedFrom(todo[p][n], pages[p])
    /\ \A n \in DOMAIN merged :
          \E p \in DOMAIN Providers : MappedFrom(merged[n], pages[p])

NoneIsLost == \A p \in DOMAIN Providers : \A m \in DOMAIN pages[p] :
    Good(pages[p][m]) =>
       \/ \E n \in DOMAIN todo[p] : todo[p][n] = MapEvent(pages[p][m])
       \/ \E n \in DOMAIN merged : merged[n] = MapEvent(pages[p][m])

\* What one provider has alone is no more than its page.
NoMoreThanAPage == \A p \in DOMAIN Providers :
    (\A q \in DOMAIN Providers \ {p} : pages[q] = <<>>) =>
        Len(merged) + Len(todo[p]) <= Len(pages[p])

ShowsHaveAFirst == \A i \in DOMAIN best :
    \E f \in DOMAIN merged : FirstOfShow(f) /\ SameShow(merged[f], best[i])

ShownIsCut == IF stage = "answered"
              THEN /\ AllMerged
                   /\ ~SomeUnmeasurable
                   /\ shown = Shown(best)
                   /\ facets = Facets(best)
              ELSE shown = <<>>

(***************************************************************************)
(* Why a page of results is right: the list was mapped from soonest pages, *)
(* no good record of them falls out on the way into the dict, the dict has *)
(* the first richest record of each show in the order of their first ones, *)
(* and what is shown is its cut.                                           *)
(***************************************************************************)
MergeInv == /\ TypeOK
            /\ ListedOnce(catalog)
            /\ PagesAreSoonest
            /\ EventsAreMapped
            /\ NoneIsLost
            /\ NoMoreThanAPage
            /\ RichestOfEachShow
            /\ ShowsHaveAFirst
            /\ ShownIsCut
=============================================================================
