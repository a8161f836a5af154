------------------------------ MODULE Listings ------------------------------
(***************************************************************************)
(* From a record of the events API to the event that is searched, merged   *)
(* and shown: map_event (src/app/providers/jambase/mapper.py), the derived *)
(* values of src/app/models.py, and enrich (src/app/services/enrich.py).   *)
(*                                                                         *)
(* A record has the fields that decide something later: provider, id, day, *)
(* form and time of the start, name, acts, city, place, seats, tickets,    *)
(* image, status.  An act has a name, a headliner flag and genres.         *)
(***************************************************************************)
EXTENDS Integers, FiniteSets, SequencesExt

Missing == ""            \* null, "" and blanks, all None after _clean
NoDay == -1              \* a startDate that is no date
NoPlace == -1            \* no coordinates, or coordinates that are no numbers
NullIsland == 100000     \* the coordinates (0, 0), where no other place is
Unmeasurable == -2       \* coordinates on which haversine_km raises: 1e999 is
                         \* valid JSON, read as infinity
NoDistance == -1
Overflow == 1000000000   \* a capacity that float() reads and int() refuses

(***************************************************************************)
(* map_event gives None for a record without an identifier or a date, and  *)
(* raises on one with a number it cannot read; map_events drops both.      *)
(***************************************************************************)
Good(raw) == /\ raw.id # Missing
             /\ raw.day # NoDay
             /\ raw.seats # Overflow

Genres(acts) == UNION {acts[i].genres : i \in DOMAIN acts}

MapEvent(raw) ==
    [provider |-> raw.provider, id |-> raw.id, date |-> raw.day,
     form |-> raw.form, time |-> raw.time, title |-> raw.name,
     acts |-> raw.acts, city |-> raw.city, place |-> raw.place,
     seats |-> raw.seats, tickets |-> raw.tickets, image |-> raw.image,
     status |-> raw.status, genres |-> Genres(raw.acts)]

\* Bug: the first record that cannot be mapped ends the loop.
BugStopAtBad(page) == {i \in DOMAIN page : \A j \in 1..i : Good(page[j])}
Kept(page) == {i \in DOMAIN page : Good(page[i])}

Nth(S, n) == CHOOSE i \in S : Cardinality({j \in S : j <= i}) = n

\* map_events: the events of a page, in its order.
MapEvents(page) == [n \in 1..Cardinality(Kept(page)) |->
                       MapEvent(page[Nth(Kept(page), n)])]

\* Bug: (0, 0) is a place like any other, some 10000 km away.
BugNullIsland(e) == e.place # NoPlace
HasPlace(e) == e.place \notin {NoPlace, NullIsland}

\* Event.headliner: the first flagged act, or else the first one.
HeadlinerName(e) ==
    LET flagged == SelectInSeq(e.acts, LAMBDA a : a.head)
    IN  IF e.acts = <<>> THEN Missing
        ELSE e.acts[IF flagged = 0 THEN 1 ELSE flagged].name

\* CapacityBand.from_capacity and its label; "" for no label.
SizeLabel(seats) == CASE seats <= 0            -> ""
                      [] seats \in 1..499       -> "Intimate venue"
                      [] seats \in 500..1999    -> "Small venue"
                      [] seats \in 2000..9999   -> "Midsize venue"
                      [] seats \in 10000..49999 -> "Arena"
                      [] seats >= 50000         -> "Stadium"

\* _completeness: a missing capacity and one of 0 are both worth nothing.
Completeness(e) ==
    LET has == <<e.image, e.tickets, HasPlace(e), e.seats # 0,
                 e.genres # {}, e.acts # <<>>>>
    IN  Cardinality({i \in DOMAIN has : has[i]})

\* enrich raises: math.sin refuses an infinite angle.
CannotMeasure(e) == HasPlace(e) /\ e.place = Unmeasurable

(***************************************************************************)
(* The signals of an event.  A place that can be measured is its distance, *)
(* in tenths of a kilometre; no signals come of one that cannot.           *)
(***************************************************************************)
Distance(e) == IF HasPlace(e) /\ ~CannotMeasure(e) THEN e.place ELSE NoDistance
Tags(e) == {SizeLabel(e.seats), e.status} \ {"", "scheduled"}
=============================================================================
