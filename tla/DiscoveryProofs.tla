--------------------------- MODULE DiscoveryProofs ---------------------------
(***************************************************************************)
(* Theorems about searches that share the cache, for any number of         *)
(* searches, providers, texts and places, and a cache of any size.         *)
(***************************************************************************)
EXTENDS Discovery, SequenceTheorems, FiniteSetTheorems, TLAPS

USE TTLNat, MaxEntriesNat, HorizonNat
USE DEF Reached

(***************************************************************************)
(* What get and set do to the entries, whatever set E they are taken from. *)
(***************************************************************************)
LEMMA RangeOfEntries ==
  ASSUME NEW E, NEW s \in Seq(E)
  PROVE  /\ ToSet(s) \subseteq E
         /\ s \in Seq(ToSet(s))
         /\ DOMAIN s = 1..Len(s)
         /\ Len(s) \in Nat
<1>1. DOMAIN s = 1..Len(s) /\ Len(s) \in Nat
  BY LenProperties
<1>2. ToSet(s) \subseteq E
  BY <1>1, ElementOfSeq DEF ToSet
<1>3. ToSet(s) = Range(s)
  BY DEF ToSet, Range
<1> QED
  BY <1>1, <1>2, <1>3, SeqOfRange

LEMMA SubSeqType ==
  ASSUME NEW E, NEW s \in Seq(E), NEW m \in Nat \ {0}, NEW n \in Nat, n <= Len(s)
  PROVE  SubSeq(s, m, n) \in Seq(E)
<1>1. \A i \in m..n : i \in 1..Len(s)
  BY LenProperties
<1>2. \A i \in m..n : s[i] \in E
  BY <1>1, ElementOfSeq
<1> QED
  BY <1>2, SubSeqProperties

LEMMA WithoutType ==
  ASSUME NEW E, data \in Seq(E), NEW k
  PROVE  /\ Without(k) \in Seq(E)
         /\ k \in Keys => EntryOf(k) \in E /\ EntryOf(k).key = k
<1>1. DOMAIN data = 1..Len(data) /\ Len(data) \in Nat
  BY LenProperties
<1>2. CASE k \notin Keys
  BY <1>2 DEF Without
<1>3. CASE k \in Keys
  <2> DEFINE n == IndexOf(k)
  <2>1. n \in 1..Len(data) /\ data[n].key = k
    <3>1. \E i \in DOMAIN data : data[i].key = k
      BY <1>3 DEF Keys
    <3> QED
      BY <1>1, <3>1 DEF IndexOf
  <2>2. data[n] \in E
    BY <2>1, ElementOfSeq
  <2>3. Without(k) = SubSeq(data, 1, n - 1) \o SubSeq(data, n + 1, Len(data))
    BY <1>3 DEF Without, RemoveAt
  <2> HIDE DEF n
  <2>4. SubSeq(data, 1, n - 1) \in Seq(E)
    BY <1>1, <2>1, SubSeqType
  <2>5. SubSeq(data, n + 1, Len(data)) \in Seq(E)
    BY <1>1, <2>1, SubSeqType
  <2>6. Without(k) \in Seq(E)
    BY <2>3, <2>4, <2>5, ConcatProperties
  <2> QED
    BY <2>1, <2>2, <2>6 DEF EntryOf, n
<1> QED
  BY <1>2, <1>3

LEMMA GetEffect ==
  ASSUME data \in Seq(ToSet(data)), NEW k, Get(k)
  PROVE  /\ data' \in Seq(ToSet(data'))
         /\ ToSet(data') \subseteq ToSet(data)
         /\ Hit(k) => EntryOf(k) \in ToSet(data) /\ EntryOf(k).key = k
<1> DEFINE E == ToSet(data)
<1>1. /\ Without(k) \in Seq(E)
      /\ k \in Keys => EntryOf(k) \in E /\ EntryOf(k).key = k
  BY WithoutType
<1> HIDE DEF E
<1>2. data' \in Seq(E)
  <2>1. CASE Hit(k)
    <3>1. EntryOf(k) \in E
      BY <1>1, <2>1 DEF Hit
    <3> QED
      BY <1>1, <2>1, <3>1, AppendProperties DEF Get
  <2>2. CASE ~Hit(k)
    BY <1>1, <2>2 DEF Get
  <2> QED
    BY <2>1, <2>2
<1> QED
  BY <1>1, <1>2, RangeOfEntries DEF E, Hit

LEMMA SetEffect ==
  ASSUME data \in Seq(ToSet(data)), NEW k, NEW v, Set(k, v)
  PROVE  /\ data' \in Seq(ToSet(data'))
         /\ ToSet(data') \subseteq ToSet(data) \cup
               {[key |-> k, value |-> v, expires_at |-> clock + TTL]}
<1> DEFINE e == [key |-> k, value |-> v, expires_at |-> clock + TTL]
           E == ToSet(data) \cup {e}
           t == Append(Without(k), e)
<1>1. data \in Seq(E)
  BY SeqMonotonic
<1>2. t \in Seq(E)
  <2>1. Without(k) \in Seq(E)
    BY <1>1, WithoutType
  <2> QED
    BY <2>1, AppendProperties
<1>3. data' = Newest(t)
  BY DEF Set
<1> HIDE DEF e, E, t
<1>4. Len(t) \in Nat
  BY <1>2, LenProperties
<1>5. Newest(t) \in Seq(E)
  BY <1>2, <1>4, SubSeqType DEF Newest
<1> QED
  BY <1>3, <1>5, RangeOfEntries DEF E, e

-----------------------------------------------------------------------------
(***************************************************************************)
(* What the cache gives back, when its keys fit its values.                *)
(***************************************************************************)
CacheFits == /\ data \in Seq(ToSet(data))
             /\ \A e \in ToSet(data) : EntryFits(e)

LEMMA LocationHit ==
  ASSUME CacheFits, clock \in Nat, NEW q, Get(LocKey(q)), Hit(LocKey(q))
  PROVE  /\ ValueOf(LocKey(q)) \in LocationValue
         /\ ValueOf(LocKey(q)).query = q
         /\ Unique(ValueOf(LocKey(q)).matches)
<1> DEFINE e == EntryOf(LocKey(q))
<1>1. e \in ToSet(data) /\ e.key = LocKey(q)
  BY GetEffect DEF CacheFits
<1>2. EntryFits(e)
  BY <1>1 DEF CacheFits
<1>3. \A p, place, filter : EventKey(p, place, filter) # LocKey(q)
  BY DEF EventKey, LocKey
<1>4. \A r : LocKey(r) = LocKey(q) => r = q
  BY DEF LocKey
<1> HIDE DEF e
<1> QED
  BY <1>1, <1>2, <1>3, <1>4 DEF EntryFits, ValueOf, e

LEMMA PageHit ==
  ASSUME CacheFits, clock \in Nat, NEW p, NEW place, NEW filter,
         Get(EventKey(p, place, filter)), Hit(EventKey(p, place, filter))
  PROVE  LET page == ValueOf(EventKey(p, place, filter))
         IN  /\ page \in PageValue
             /\ page.provider = p
             /\ page.place = place
             /\ page.filter = filter
             /\ clock <= page.seen + TTL
<1> DEFINE k == EventKey(p, place, filter)
           e == EntryOf(k)
<1>1. e \in ToSet(data) /\ e.key = k
  BY GetEffect DEF CacheFits
<1>2. EntryFits(e)
  BY <1>1 DEF CacheFits
<1>3. \A q : LocKey(q) # k
  BY DEF EventKey, LocKey
<1>4. \A a, b, c : EventKey(a, b, c) = k => a = p /\ b = place /\ c = filter
  BY DEF EventKey
<1>5. ~(clock > e.expires_at)
  BY DEF Hit, Expired
<1> HIDE DEF e, k
<1>6. e.value \in PageValue /\ e.expires_at = e.value.seen + TTL
      /\ e.key = EventKey(e.value.provider, e.value.place, e.value.filter)
  BY <1>1, <1>2, <1>3 DEF EntryFits
<1>7. e.value.seen \in Nat
  BY <1>6 DEF PageValue
<1>8. /\ e.value.provider = p /\ e.value.place = place /\ e.value.filter = filter
      /\ clock <= e.value.seen + TTL
  BY <1>1, <1>4, <1>5, <1>6, <1>7
<1> QED
  BY <1>6, <1>8 DEF ValueOf, e, k
-----------------------------------------------------------------------------
(***************************************************************************)
(* Facts that every step uses.                                             *)
(***************************************************************************)
LEMMA SearchFacts ==
  ASSUME SearchInv
  PROVE  /\ CacheFits
         /\ clock \in Nat
         /\ ask \in [Searches -> [query : Queries, filter : Filters]]
         /\ stage \in [Searches -> Stage]
         /\ location \in [Searches -> LocationValue \cup {None}]
         /\ task \in [Searches -> [Names -> {"ready", "asking", "done"}]]
         /\ result \in [Searches -> [Names -> Result \cup {None}]]
  BY DEF SearchInv, TypeOK, CacheFits

LEMMA NoneIsNoValue == None \notin LocationValue /\ None \notin PageValue
                       /\ None \notin Result
<1>1. \A x \in LocationValue \cup PageValue : x.seen \in Nat /\ x # None
  BY DEF LocationValue, PageValue, None
<1>2. \A x \in Result : x # None
  BY DEF Result, None
<1> QED
  BY <1>1, <1>2

\* Once the place is known, there is one.
LEMMA PlaceType ==
  ASSUME SearchInv, NEW s \in Searches, location[s] # None
  PROVE  PlaceOf(s) \in Places
<1>1. location[s] \in LocationValue
  BY SearchFacts
<1>2. location[s].matches \subseteq Places
  BY <1>1 DEF LocationValue
<1>3. location[s].matches # {}
  <2>1. Cardinality({}) = 0
    BY FS_EmptySet
  <2>2. Cardinality(location[s].matches) = 1
    BY DEF SearchInv, NeverGuesses
  <2> QED
    BY <2>1, <2>2
<1> QED
  BY <1>2, <1>3 DEF PlaceOf

\* Before the place is known, no provider has been asked.
LEMMA NothingAsked ==
  ASSUME SearchInv, NEW s \in Searches,
         stage[s] \notin Reached
  PROVE  \A p \in Names : task[s][p] = "ready" /\ result[s][p] = None
  BY DEF SearchInv, PlaceComesFirst, TypeOK

\* The values behind the entries are still there when nothing is overwritten.
Known(v) == \/ \E s \in Searches : location[s] = v
            \/ \E s \in Searches, p \in Names :
                  LET r == result[s][p]
                  IN  r # None /\ r.ok /\ ~r.cached /\ r.page = v

LEMMA AnswersStay ==
  ASSUME SearchInv,
         \A s \in Searches : location[s] # None => location'[s] = location[s],
         \A s \in Searches, p \in Names :
            result[s][p] # None => result'[s][p] = result[s][p],
         \A e \in ToSet(data') : e \in ToSet(data) \/ Known(e.value)'
  PROVE  AnswersOnly'
<1> SUFFICES ASSUME NEW e \in ToSet(data')
             PROVE  Known(e.value)'
  BY DEF AnswersOnly, Known
<1>1. CASE e \in ToSet(data)
  <2>1. e.value # None
    BY <1>1, NoneIsNoValue DEF SearchInv, EntryFits
  <2>2. Known(e.value)
    BY <1>1 DEF SearchInv, AnswersOnly, Known
  <2>3. CASE \E s \in Searches : location[s] = e.value
    BY <2>1, <2>3 DEF Known
  <2>4. CASE \E s \in Searches, p \in Names :
                LET r == result[s][p]
                IN  r # None /\ r.ok /\ ~r.cached /\ r.page = e.value
    BY <2>4 DEF Known
  <2> QED
    BY <2>2, <2>3, <2>4 DEF Known
<1> QED
  BY <1>1

-----------------------------------------------------------------------------
(***************************************************************************)
(* A search finds its place: from the cache, or from the geocoder.         *)
(***************************************************************************)
LEMMA PlaceFound ==
  ASSUME SearchInv, NEW s \in Searches, NEW v \in LocationValue,
         stage[s] \in {"received", "locating"},
         v.query = ask[s].query, Unique(v.matches),
         location' = [location EXCEPT ![s] = v],
         stage' = [stage EXCEPT ![s] = "gathering"],
         UNCHANGED <<clock, ask, task, result>>,
         data' \in Seq(ToSet(data')),
         \A e \in ToSet(data') : e \in ToSet(data) \/ (EntryFits(e) /\ e.value = v)
  PROVE  SearchInv'
<1>1. /\ location[s] = None
      /\ location' \in [Searches -> LocationValue \cup {None}]
      /\ location'[s] = v
      /\ \A t \in Searches \ {s} : location'[t] = location[t]
  BY SearchFacts DEF SearchInv, TypeOK
<1>2. /\ stage' \in [Searches -> Stage]
      /\ stage'[s] = "gathering"
      /\ \A t \in Searches \ {s} : stage'[t] = stage[t]
  BY SearchFacts DEF Stage
<1>3. \A p \in Names : task[s][p] = "ready" /\ result[s][p] = None
  BY NothingAsked
<1>4. \A e \in ToSet(data') : EntryFits(e)
  BY DEF SearchInv
<1>5. \A e \in ToSet(data') :
         e.value \in LocationValue \cup PageValue /\ e.expires_at \in Nat
  <2> SUFFICES ASSUME NEW e \in ToSet(data')
               PROVE  e.value \in LocationValue \cup PageValue /\ e.expires_at \in Nat
    OBVIOUS
  <2>1. e.value \in LocationValue \cup PageValue /\ e.expires_at = e.value.seen + TTL
    BY <1>4 DEF EntryFits
  <2>2. e.value.seen \in Nat
    BY <2>1 DEF LocationValue, PageValue
  <2> QED
    BY <2>1, <2>2
<1>6. \A t \in Searches :
         location'[t] # None <=> stage'[t] \in Reached
  BY <1>1, <1>2, NoneIsNoValue DEF SearchInv, TypeOK
<1>7. TypeOK'
  BY <1>1, <1>2, <1>5, <1>6 DEF SearchInv, TypeOK
<1>8. (\A e \in ToSet(data) : EntryFits(e))'
  BY <1>4 DEF EntryFits
<1>9. PlaceComesFirst'
  BY <1>2 DEF SearchInv, PlaceComesFirst
<1>10. PagesFit'
  BY <1>1, <1>3 DEF SearchInv, PagesFit, PlaceOf
<1>11. NeverGuesses'
  BY <1>1 DEF SearchInv, NeverGuesses, Unique
<1>12. AnswersOnly'
  <2>1. \A e \in ToSet(data') : e \in ToSet(data) \/ Known(e.value)'
    BY <1>1 DEF Known
  <2> QED
    BY <1>1, <2>1, AnswersStay
<1> QED
  BY <1>7, <1>8, <1>9, <1>10, <1>11, <1>12 DEF SearchInv
(***************************************************************************)
(* A step that only moves a search on, or the clock.                       *)
(***************************************************************************)
LEMMA StageStep ==
  ASSUME SearchInv,
         clock' \in 0..Horizon,
         stage' \in [Searches -> Stage],
         \A s \in Searches :
            \/ stage'[s] = stage[s]
            \/ /\ stage[s] \notin Reached
               /\ stage'[s] \notin Reached
            \/ stage[s] \in Reached /\ stage'[s] \in Reached,
         UNCHANGED <<ask, location, task, result>>,
         data' \in Seq(ToSet(data')),
         ToSet(data') \subseteq ToSet(data)
  PROVE  SearchInv'
<1>1. TypeOK'
  <2>1. \A s \in Searches : stage'[s] \in Reached <=> stage[s] \in Reached
    OBVIOUS
  <2>2. \A s \in Searches : location'[s] # None <=> stage'[s] \in Reached
    BY <2>1 DEF SearchInv, TypeOK
  <2> HIDE DEF Reached
  <2> QED
    BY <2>2 DEF SearchInv, TypeOK
<1>2. (\A e \in ToSet(data) : EntryFits(e))'
  BY DEF SearchInv, EntryFits
<1>3. PlaceComesFirst'
  BY DEF SearchInv, PlaceComesFirst
<1>4. PagesFit'
  BY DEF SearchInv, PagesFit, PlaceOf
<1>5. NeverGuesses'
  BY DEF SearchInv, NeverGuesses
<1>6. AnswersOnly'
  BY AnswersStay
<1> QED
  BY <1>1, <1>2, <1>3, <1>4, <1>5, <1>6 DEF SearchInv

(***************************************************************************)
(* A provider's task ends with r, which is in the cache if it is an answer *)
(* that has just arrived.                                                  *)
(***************************************************************************)
LEMMA FetchEnds ==
  ASSUME SearchInv, NEW s \in Searches, NEW p \in Names, NEW r \in Result,
         stage[s] \in Reached,
         task[s][p] # "done",
         Finish(s, p, r),
         r.ok => /\ r.page.provider = p
                 /\ r.page.place = PlaceOf(s)
                 /\ r.page.filter = ask[s].filter
                 /\ r.at <= r.page.seen + TTL,
         UNCHANGED <<clock, ask, stage, location>>,
         data' \in Seq(ToSet(data')),
         \A e \in ToSet(data') : \/ e \in ToSet(data)
                                 \/ /\ EntryFits(e)
                                    /\ r.ok /\ ~r.cached /\ r.page = e.value
  PROVE  SearchInv'
<1>1. /\ result[s][p] = None
      /\ result' \in [Searches -> [Names -> Result \cup {None}]]
      /\ result'[s][p] = r
      /\ \A t \in Searches, q \in Names :
            <<t, q>> # <<s, p>> => result'[t][q] = result[t][q]
  BY SearchFacts DEF SearchInv, TypeOK, Finish
<1>2. /\ task' \in [Searches -> [Names -> {"ready", "asking", "done"}]]
      /\ task'[s][p] = "done"
      /\ \A t \in Searches, q \in Names :
            <<t, q>> # <<s, p>> => task'[t][q] = task[t][q]
  BY SearchFacts DEF Finish
<1>3. \A e \in ToSet(data') : EntryFits(e)
  BY DEF SearchInv
<1>4. \A e \in ToSet(data') :
         e.value \in LocationValue \cup PageValue /\ e.expires_at \in Nat
  <2> SUFFICES ASSUME NEW e \in ToSet(data')
               PROVE  e.value \in LocationValue \cup PageValue /\ e.expires_at \in Nat
    OBVIOUS
  <2>1. e.value \in LocationValue \cup PageValue /\ e.expires_at = e.value.seen + TTL
    BY <1>3 DEF EntryFits
  <2>2. e.value.seen \in Nat
    BY <2>1 DEF LocationValue, PageValue
  <2> QED
    BY <2>1, <2>2
<1>5. ASSUME NEW t \in Searches, NEW q \in Names
      PROVE  task'[t][q] = "done" <=> result'[t][q] # None
  <2>1. CASE t = s /\ q = p
    BY <1>1, <1>2, <2>1, NoneIsNoValue
  <2>2. CASE ~(t = s /\ q = p)
    BY <1>1, <1>2, <2>2 DEF SearchInv, TypeOK
  <2> QED
    BY <2>1, <2>2
<1>6. TypeOK'
  BY <1>1, <1>2, <1>4, <1>5 DEF SearchInv, TypeOK
<1>7. (\A e \in ToSet(data) : EntryFits(e))'
  BY <1>3 DEF EntryFits
<1>8. PlaceComesFirst'
  BY <1>2 DEF SearchInv, PlaceComesFirst
<1>9. PagesFit'
  <2> SUFFICES ASSUME NEW t \in Searches, NEW q \in Names,
                      result'[t][q] # None, result'[t][q].ok
               PROVE  /\ result'[t][q].page.provider = q
                      /\ result'[t][q].page.place = PlaceOf(t)
                      /\ result'[t][q].page.filter = ask[t].filter
                      /\ result'[t][q].at <= result'[t][q].page.seen + TTL
    BY DEF PagesFit, PlaceOf
  <2>1. CASE t = s /\ q = p
    BY <1>1, <2>1
  <2>2. CASE ~(t = s /\ q = p)
    BY <1>1, <2>2 DEF SearchInv, PagesFit
  <2> QED
    BY <2>1, <2>2
<1>10. NeverGuesses'
  BY DEF SearchInv, NeverGuesses
<1>11. AnswersOnly'
  <2>1. r # None
    BY NoneIsNoValue
  <2>2. \A e \in ToSet(data') : e \in ToSet(data) \/ Known(e.value)'
    BY <1>1, <2>1 DEF Known
  <2> QED
    BY <1>1, <2>2, AnswersStay
<1> QED
  BY <1>6, <1>7, <1>8, <1>9, <1>10, <1>11 DEF SearchInv

\* A task that misses the cache goes on to ask the provider.
LEMMA FetchMisses ==
  ASSUME SearchInv, NEW s \in Searches, NEW p \in Names,
         stage[s] = "gathering",
         task[s][p] = "ready",
         task' = [task EXCEPT ![s][p] = "asking"],
         UNCHANGED <<clock, ask, stage, location, result>>,
         data' \in Seq(ToSet(data')),
         ToSet(data') \subseteq ToSet(data)
  PROVE  SearchInv'
<1>1. /\ task' \in [Searches -> [Names -> {"ready", "asking", "done"}]]
      /\ task'[s][p] = "asking"
      /\ \A t \in Searches, q \in Names :
            <<t, q>> # <<s, p>> => task'[t][q] = task[t][q]
  BY SearchFacts
<1>2. TypeOK'
  BY <1>1 DEF SearchInv, TypeOK
<1>3. (\A e \in ToSet(data) : EntryFits(e))'
  BY DEF SearchInv, EntryFits
<1>4. PlaceComesFirst'
  BY <1>1 DEF SearchInv, PlaceComesFirst
<1>5. PagesFit'
  BY DEF SearchInv, PagesFit, PlaceOf
<1>6. NeverGuesses'
  BY DEF SearchInv, NeverGuesses
<1>7. AnswersOnly'
  BY AnswersStay
<1> QED
  BY <1>2, <1>3, <1>4, <1>5, <1>6, <1>7 DEF SearchInv
-----------------------------------------------------------------------------
(***************************************************************************)
(* The steps of a search, one by one.                                      *)
(***************************************************************************)
LEMMA GotoType ==
  ASSUME SearchInv, NEW s \in Searches, NEW to \in Stage, Goto(s, to)
  PROVE  /\ stage' \in [Searches -> Stage]
         /\ stage'[s] = to
         /\ \A t \in Searches \ {s} : stage'[t] = stage[t]
  BY SearchFacts DEF Goto

LEMMA LocateFromCacheKeeps ==
  ASSUME SearchInv, NEW s \in Searches, LocateFromCache(s)
  PROVE  SearchInv'
<1> DEFINE k == LocKey(ask[s].query)
<1>1. stage[s] = "received" /\ Get(k) /\ UNCHANGED <<clock, ask, task, result>>
  BY DEF LocateFromCache
<1>2. /\ CacheFits
      /\ data \in Seq(ToSet(data))
      /\ clock \in 0..Horizon
  BY SearchFacts DEF CacheFits, SearchInv, TypeOK
<1>3. data' \in Seq(ToSet(data')) /\ ToSet(data') \subseteq ToSet(data)
  BY <1>1, <1>2, GetEffect
<1>4. CASE Hit(k)
  <2> DEFINE v == ValueOf(k)
  <2>1. /\ location' = [location EXCEPT ![s] = v]
        /\ stage' = [stage EXCEPT ![s] = "gathering"]
    BY <1>4 DEF LocateFromCache, Goto
  <2>2. v \in LocationValue /\ v.query = ask[s].query /\ Unique(v.matches)
    BY <1>1, <1>2, <1>4, LocationHit
  <2> HIDE DEF v
  <2> QED
    BY <1>1, <1>3, <2>1, <2>2, PlaceFound
<1>5. CASE ~Hit(k)
  <2>1. Goto(s, "locating") /\ UNCHANGED location
    BY <1>5 DEF LocateFromCache
  <2>2. /\ stage' \in [Searches -> Stage]
        /\ stage'[s] = "locating"
        /\ \A t \in Searches \ {s} : stage'[t] = stage[t]
    BY <2>1, GotoType DEF Stage
  <2> QED
    BY <1>1, <1>2, <1>3, <2>1, <2>2, StageStep
<1> QED
  BY <1>4, <1>5

LEMMA LocatedKeeps ==
  ASSUME SearchInv, NEW s \in Searches, NEW matches \in SUBSET Places,
         Located(s, matches)
  PROVE  SearchInv'
<1>1. stage[s] = "locating" /\ UNCHANGED <<clock, ask, task, result>>
  BY DEF Located
<1>2. /\ data \in Seq(ToSet(data))
      /\ clock \in 0..Horizon
  BY DEF SearchInv, TypeOK
<1>3. CASE Unique(matches)
  <2> DEFINE v == Found(ask[s].query, matches)
             k == LocKey(ask[s].query)
             e == [key |-> k, value |-> v, expires_at |-> clock + TTL]
  <2>1. /\ Set(k, v)
        /\ location' = [location EXCEPT ![s] = v]
        /\ stage' = [stage EXCEPT ![s] = "gathering"]
    BY <1>3 DEF Located, Goto
  <2>2. /\ v \in LocationValue
        /\ v.query = ask[s].query
        /\ v.seen = clock
        /\ Unique(v.matches)
    BY <1>2, <1>3, SearchFacts DEF Found, LocationValue
  <2>3. EntryFits(e) /\ e.value = v
    BY <2>2 DEF EntryFits
  <2>4. data' \in Seq(ToSet(data')) /\ ToSet(data') \subseteq ToSet(data) \cup {e}
    BY <1>2, <2>1, SetEffect
  <2> HIDE DEF v, k, e
  <2> QED
    BY <1>1, <2>1, <2>2, <2>3, <2>4, PlaceFound
<1>4. CASE ~Unique(matches)
  <2>1. \E to \in {"notFound", "ambiguous"} :
           Goto(s, to) /\ UNCHANGED <<data, location>>
    BY <1>4 DEF Located
  <2>2. /\ stage' \in [Searches -> Stage]
        /\ stage'[s] \in {"notFound", "ambiguous"}
        /\ \A t \in Searches \ {s} : stage'[t] = stage[t]
    BY <2>1, GotoType DEF Stage
  <2> QED
    BY <1>1, <1>2, <2>1, <2>2, StageStep
<1> QED
  BY <1>3, <1>4

LEMMA GeocoderFailsKeeps ==
  ASSUME SearchInv, NEW s \in Searches, GeocoderFails(s)
  PROVE  SearchInv'
<1>1. /\ stage[s] = "locating"
      /\ UNCHANGED <<data, clock, ask, location, task, result>>
      /\ Goto(s, "failed")
  BY DEF GeocoderFails
<1>2. /\ stage' \in [Searches -> Stage]
      /\ stage'[s] = "failed"
      /\ \A t \in Searches \ {s} : stage'[t] = stage[t]
  BY <1>1, GotoType DEF Stage
<1>3. data' \in Seq(ToSet(data')) /\ clock \in 0..Horizon
  BY <1>1 DEF SearchInv, TypeOK
<1> QED
  BY <1>1, <1>2, <1>3, StageStep

LEMMA AnswerKeeps ==
  ASSUME SearchInv, NEW s \in Searches, Answer(s) \/ AnswerRaises(s)
  PROVE  SearchInv'
<1>1. /\ stage[s] = "gathering"
      /\ UNCHANGED <<data, clock, ask, location, task, result>>
      /\ Goto(s, "answered") \/ Goto(s, "error")
  BY DEF Answer, AnswerRaises, Gathered
<1>2. /\ stage' \in [Searches -> Stage]
      /\ stage[s] \in Reached /\ stage'[s] \in Reached
      /\ \A t \in Searches \ {s} : stage'[t] = stage[t]
  BY <1>1, GotoType DEF Stage
<1>3. data' \in Seq(ToSet(data')) /\ clock \in 0..Horizon
  BY <1>1 DEF SearchInv, TypeOK
<1> QED
  BY <1>1, <1>2, <1>3, StageStep

LEMMA StartFetchKeeps ==
  ASSUME SearchInv, NEW s \in Searches, NEW p \in Names, StartFetch(s, p)
  PROVE  SearchInv'
<1> DEFINE k == KeyOf(s, p)
<1>1. /\ stage[s] = "gathering"
      /\ task[s][p] = "ready"
      /\ Get(k)
      /\ UNCHANGED <<clock, ask, stage, location>>
  BY DEF StartFetch
<1>2. CacheFits /\ data \in Seq(ToSet(data)) /\ clock \in Nat
  BY SearchFacts DEF CacheFits
<1>3. data' \in Seq(ToSet(data')) /\ ToSet(data') \subseteq ToSet(data)
  BY <1>1, <1>2, GetEffect
<1>4. CASE Hit(k)
  <2> DEFINE page == ValueOf(k)
             r == [ok |-> TRUE, cached |-> TRUE, page |-> page, at |-> clock]
  <2>1. Finish(s, p, r)
    BY <1>4 DEF StartFetch
  <2>2. /\ page \in PageValue
        /\ page.provider = p
        /\ page.place = PlaceOf(s)
        /\ page.filter = ask[s].filter
        /\ clock <= page.seen + TTL
    BY <1>1, <1>2, <1>4, PageHit DEF KeyOf
  <2> HIDE DEF page
  <2>3. /\ r \in Result
        /\ r.page = page
        /\ r.at = clock
    BY <1>2, <2>2 DEF Result
  <2> HIDE DEF r
  <2> QED
    BY <1>1, <1>3, <2>1, <2>2, <2>3, FetchEnds
<1>5. CASE ~Hit(k)
  <2>1. task' = [task EXCEPT ![s][p] = "asking"] /\ UNCHANGED result
    BY <1>5 DEF StartFetch
  <2> QED
    BY <1>1, <1>3, <2>1, FetchMisses
<1> QED
  BY <1>4, <1>5

LEMMA PageArrivesKeeps ==
  ASSUME SearchInv, NEW s \in Searches, NEW p \in Names,
         NEW risky \in BOOLEAN, PageArrives(s, p, risky)
  PROVE  SearchInv'
<1> DEFINE k == KeyOf(s, p)
           page == Page(p, PlaceOf(s), ask[s].filter, risky)
           r == [ok |-> TRUE, cached |-> FALSE, page |-> page, at |-> clock]
           e == [key |-> k, value |-> page, expires_at |-> clock + TTL]
<1>1. /\ task[s][p] = "asking"
      /\ Set(k, page)
      /\ Finish(s, p, r)
      /\ UNCHANGED <<clock, ask, stage, location>>
  BY DEF PageArrives
<1>2. /\ stage[s] \in Reached
      /\ location[s] # None
      /\ data \in Seq(ToSet(data))
      /\ clock \in Nat
  BY <1>1 DEF SearchInv, PlaceComesFirst, TypeOK
<1>3. /\ page \in PageValue
      /\ page.provider = p
      /\ page.place = PlaceOf(s)
      /\ page.filter = ask[s].filter
      /\ page.seen = clock
  BY <1>2, PlaceType, SearchFacts DEF Page, PageValue
<1>4. EntryFits(e) /\ e.value = page
  BY <1>3 DEF EntryFits, KeyOf
<1>5. data' \in Seq(ToSet(data')) /\ ToSet(data') \subseteq ToSet(data) \cup {e}
  BY <1>1, <1>2, SetEffect
<1> HIDE DEF page, k, e
<1>6. r \in Result /\ r.ok /\ ~r.cached /\ r.page = page /\ r.at = clock
  BY <1>2, <1>3 DEF Result
<1>7. r.at <= r.page.seen + TTL
  BY <1>2, <1>3, <1>6
<1> HIDE DEF r
<1> QED
  BY <1>1, <1>2, <1>3, <1>4, <1>5, <1>6, <1>7, FetchEnds

LEMMA ProviderFailsKeeps ==
  ASSUME SearchInv, NEW s \in Searches, NEW p \in Names, ProviderFails(s, p)
  PROVE  SearchInv'
<1> DEFINE r == [ok |-> FALSE, at |-> clock]
<1>1. /\ task[s][p] = "asking"
      /\ Finish(s, p, r)
      /\ UNCHANGED <<data, clock, ask, stage, location>>
  BY DEF ProviderFails
<1>2. /\ stage[s] \in Reached
      /\ data' \in Seq(ToSet(data'))
      /\ clock \in Nat
  BY <1>1 DEF SearchInv, PlaceComesFirst, TypeOK
<1>3. r \in Result /\ ~r.ok
  BY <1>2 DEF Result
<1> HIDE DEF r
<1> QED
  BY <1>1, <1>2, <1>3, FetchEnds

LEMMA TimePassesKeeps ==
  ASSUME SearchInv, TimePasses
  PROVE  SearchInv'
<1>1. /\ UNCHANGED <<data, ask, stage, location, task, result>>
      /\ clock' \in 0..Horizon
  BY DEF SearchInv, TypeOK, TimePasses, Tick
<1>2. data' \in Seq(ToSet(data')) /\ stage' \in [Searches -> Stage]
  BY <1>1 DEF SearchInv, TypeOK
<1> QED
  BY <1>1, <1>2, StageStep

LEMMA InitSearch == Init => SearchInv
<1> SUFFICES ASSUME Init
             PROVE  SearchInv
  OBVIOUS
<1>1. /\ data = <<>>
      /\ clock = 0
      /\ ask \in [Searches -> [query : Queries, filter : Filters]]
      /\ stage = [s \in Searches |-> "received"]
      /\ location = [s \in Searches |-> None]
      /\ task = [s \in Searches |-> [p \in Names |-> "ready"]]
      /\ result = [s \in Searches |-> [p \in Names |-> None]]
  BY DEF Init, CacheInit
<1>2. ToSet(data) = {} /\ data \in Seq(ToSet(data))
  BY <1>1 DEF ToSet
<1>3. TypeOK
  BY <1>1, <1>2 DEF TypeOK, Stage
<1>4. PlaceComesFirst /\ PagesFit /\ NeverGuesses /\ AnswersOnly
  BY <1>1, <1>2 DEF PlaceComesFirst, PagesFit, NeverGuesses, AnswersOnly
<1> QED
  BY <1>2, <1>3, <1>4 DEF SearchInv

LEMMA NextSearch == SearchInv /\ [Next]_vars => SearchInv'
<1> SUFFICES ASSUME SearchInv, [Next]_vars
             PROVE  SearchInv'
  OBVIOUS
<1>1. CASE TimePasses
  BY <1>1, TimePassesKeeps
<1>2. ASSUME NEW s \in Searches, Serve(s)
      PROVE  SearchInv'
  <2>1. CASE \E p \in Names : \/ StartFetch(s, p)
                              \/ \E risky \in BOOLEAN : PageArrives(s, p, risky)
                              \/ ProviderFails(s, p)
    BY <2>1, StartFetchKeeps, PageArrivesKeeps, ProviderFailsKeeps
  <2>2. CASE \/ LocateFromCache(s) \/ GeocoderFails(s)
            \/ Answer(s) \/ AnswerRaises(s)
    BY <2>2, LocateFromCacheKeeps, GeocoderFailsKeeps, AnswerKeeps
  <2>3. CASE \E matches \in SUBSET Places : Located(s, matches)
    BY <2>3, LocatedKeeps
  <2> QED
    BY <1>2, <2>1, <2>2, <2>3 DEF Serve
<1>3. CASE UNCHANGED vars
  <2>1. /\ UNCHANGED <<data, clock, ask, stage, location, task, result>>
        /\ data' \in Seq(ToSet(data'))
        /\ clock' \in 0..Horizon
        /\ stage' \in [Searches -> Stage]
    BY <1>3 DEF vars, SearchInv, TypeOK
  <2> QED
    BY <2>1, StageStep
<1> QED
  BY <1>1, <1>2, <1>3 DEF Next

-----------------------------------------------------------------------------
(***************************************************************************)
(* However the searches overlap, the keys in the cache tell what the       *)
(* values are (discovery.py:48 and 140-143).                               *)
(***************************************************************************)
THEOREM SearchesAreConsistent == Spec => []SearchInv
<1> QED
  BY InitSearch, NextSearch, PTL DEF Spec

(***************************************************************************)
(* Types, and a location exactly once the place is known.                  *)
(***************************************************************************)
THEOREM SearchTypeCorrect == Spec => []TypeOK
<1>1. SearchInv => TypeOK
  BY DEF SearchInv
<1> QED
  BY <1>1, SearchesAreConsistent, PTL

(***************************************************************************)
(* A page shown under a provider's name is that provider's answer to this  *)
(* very search, no older than the TTL when it was taken, although other    *)
(* searches run between a cache miss and the write (discovery.py:113-133). *)
(***************************************************************************)
THEOREM PagesAreRight == Spec => []PagesFit
<1>1. SearchInv => PagesFit
  BY DEF SearchInv
<1> QED
  BY <1>1, SearchesAreConsistent, PTL

(***************************************************************************)
(* A search goes on only with a place that was the single match of its     *)
(* text, cached or not (discovery.py:47-69).                               *)
(***************************************************************************)
THEOREM NobodyGuesses == Spec => []NeverGuesses
<1>1. SearchInv => NeverGuesses
  BY DEF SearchInv
<1> QED
  BY <1>1, SearchesAreConsistent, PTL

(***************************************************************************)
(* What the cache holds was answered to some search: a failure is never    *)
(* remembered (discovery.py:121-133).                                      *)
(***************************************************************************)
THEOREM FailuresAreForgotten == Spec => []AnswersOnly
<1>1. SearchInv => AnswersOnly
  BY DEF SearchInv
<1> QED
  BY <1>1, SearchesAreConsistent, PTL
-----------------------------------------------------------------------------
(***************************************************************************)
(* One dead provider degrades the result set, never the request            *)
(* (README.md:166): a search whose place is known leaves the fan-out only  *)
(* when every provider has answered or failed, it ends as an answer unless *)
(* some provider did answer, with records on which the merge raises, and   *)
(* then it stays as it is.  No failure of a provider, no other search and  *)
(* no time that passes ends it.  This is the part of LocatedIsAnswered     *)
(* that needs no fairness.                                                 *)
(***************************************************************************)
OnlyRiskyPagesFail == \A s \in Searches : stage[s] \in Reached =>
    \/ stage'[s] = stage[s]
    \/ /\ Gathered(s)
       /\ stage'[s] = "answered" \/ (stage'[s] = "error" /\ SomePageRisky(s))

THEOREM LocatedIsNeverLost == Spec => [][OnlyRiskyPagesFail]_vars
<1>1. SearchInv /\ Next => OnlyRiskyPagesFail
  <2> SUFFICES ASSUME SearchInv, Next, NEW s \in Searches, stage[s] \in Reached
               PROVE  \/ stage'[s] = stage[s]
                      \/ /\ Gathered(s)
                         /\ \/ stage'[s] = "answered"
                            \/ stage'[s] = "error" /\ SomePageRisky(s)
    BY DEF OnlyRiskyPagesFail
  <2>1. stage \in [Searches -> Stage]
    BY DEF SearchInv, TypeOK
  <2>2. CASE TimePasses
    BY <2>2 DEF TimePasses
  <2>3. CASE \E t \in Searches : Serve(t)
    <3>1. PICK t \in Searches : Serve(t)
      BY <2>3
    <3>2. CASE LocateFromCache(t)
      BY <2>1, <3>2 DEF LocateFromCache, Goto
    <3>3. CASE \E matches \in SUBSET Places : Located(t, matches)
      BY <2>1, <3>3 DEF Located, Goto
    <3>4. CASE GeocoderFails(t)
      BY <2>1, <3>4 DEF GeocoderFails, Goto
    <3>5. CASE \E p \in Names : \/ StartFetch(t, p)
                                \/ \E risky \in BOOLEAN : PageArrives(t, p, risky)
                                \/ ProviderFails(t, p)
      BY <3>5 DEF StartFetch, PageArrives, ProviderFails
    <3>6. CASE Answer(t)
      BY <2>1, <3>6 DEF Answer, Goto
    <3>7. CASE AnswerRaises(t)
      BY <2>1, <3>7 DEF AnswerRaises, Goto
    <3> QED
      BY <3>1, <3>2, <3>3, <3>4, <3>5, <3>6, <3>7 DEF Serve
  <2> QED
    BY <2>2, <2>3 DEF Next
<1> QED
  BY <1>1, SearchesAreConsistent, PTL DEF Spec
=============================================================================
