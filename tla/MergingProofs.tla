--------------------------- MODULE MergingProofs ---------------------------
(***************************************************************************)
(* Theorems about what becomes of a search, for any providers, catalogues, *)
(* records, limits and days.                                               *)
(***************************************************************************)
EXTENDS Merging, SequenceTheorems, FiniteSetTheorems, TLAPS

USE LimitPositive, MaxPagePositive, DaysNat

(***************************************************************************)
(* Ranks.  In a finite set with a total order, the number of elements up   *)
(* to an element numbers the elements from 1.                              *)
(***************************************************************************)
TotalOrder(D, R) == /\ \A i \in D : <<i, i>> \in R
                    /\ \A i, j \in D : <<i, j>> \in R \/ <<j, i>> \in R
                    /\ \A i, j \in D :
                          <<i, j>> \in R /\ <<j, i>> \in R => i = j
                    /\ \A i, j, k \in D :
                          <<i, j>> \in R /\ <<j, k>> \in R => <<i, k>> \in R

Below(D, R, i) == {j \in D : <<j, i>> \in R}

LEMMA RanksGrow ==
  ASSUME NEW D, IsFiniteSet(D), NEW R, TotalOrder(D, R)
  PROVE  /\ \A i \in D : Cardinality(Below(D, R, i)) \in 1..Cardinality(D)
         /\ \A i, j \in D : Cardinality(Below(D, R, i)) <=
                               Cardinality(Below(D, R, j)) <=> <<i, j>> \in R
<1>1. \A i \in D : /\ Below(D, R, i) \in SUBSET D
                   /\ IsFiniteSet(Below(D, R, i))
                   /\ Cardinality(Below(D, R, i)) \in Nat
                   /\ i \in Below(D, R, i)
  BY FS_Subset, FS_CardinalityType DEF Below, TotalOrder
<1>2. Cardinality(D) \in Nat
  BY FS_CardinalityType
<1>3. ASSUME NEW i \in D
      PROVE  Cardinality(Below(D, R, i)) \in 1..Cardinality(D)
  <2>1. Cardinality(Below(D, R, i)) <= Cardinality(D)
    BY <1>1, FS_Subset
  <2>2. Cardinality(Below(D, R, i)) # 0
    BY <1>1, FS_EmptySet
  <2> QED
    BY <1>1, <1>2, <2>1, <2>2
<1>4. ASSUME NEW i \in D, NEW j \in D, <<i, j>> \in R
      PROVE  Cardinality(Below(D, R, i)) <= Cardinality(Below(D, R, j))
  <2>1. Below(D, R, i) \in SUBSET Below(D, R, j)
    BY <1>4 DEF Below, TotalOrder
  <2> QED
    BY <1>1, <2>1, FS_Subset
<1>5. ASSUME NEW i \in D, NEW j \in D, <<i, j>> \notin R
      PROVE  ~(Cardinality(Below(D, R, i)) <= Cardinality(Below(D, R, j)))
  <2>1. <<j, i>> \in R
    BY <1>5 DEF TotalOrder
  <2>2. Cardinality(Below(D, R, j)) <= Cardinality(Below(D, R, i))
    BY <1>4, <2>1
  <2>3. Below(D, R, j) \in SUBSET Below(D, R, i)
    BY <2>1 DEF Below, TotalOrder
  <2>4. i \notin Below(D, R, j)
    BY <1>5 DEF Below
  <2>5. Cardinality(Below(D, R, i)) # Cardinality(Below(D, R, j))
    BY <1>1, <2>3, <2>4, FS_Subset
  <2> QED
    BY <1>1, <2>2, <2>5
<1> QED
  BY <1>3, <1>4, <1>5

\* Every number up to the size of the set is the rank of an element.
LEMMA RanksCoverAll ==
  ASSUME NEW D, IsFiniteSet(D), NEW R, TotalOrder(D, R),
         NEW n \in 1..Cardinality(D)
  PROVE  \E i \in D : Cardinality(Below(D, R, i)) = n
<1> DEFINE rank == [i \in D |-> Cardinality(Below(D, R, i))]
           N == 1..Cardinality(D)
<1>1. rank \in [D -> N]
  BY RanksGrow
<1>2. ASSUME NEW i \in D, NEW j \in D, rank[i] = rank[j]
      PROVE  i = j
  <2>1. rank[i] \in Nat /\ rank[i] <= rank[j] /\ rank[j] <= rank[i]
    BY <1>1, <1>2
  <2>2. <<i, j>> \in R /\ <<j, i>> \in R
    BY <2>1, RanksGrow
  <2> QED
    BY <2>2 DEF TotalOrder
<1>3. rank \in Injection(D, N)
  BY <1>1, <1>2 DEF Injection, IsInjective
<1>4. IsFiniteSet(N) /\ Cardinality(N) = Cardinality(D)
  BY FS_CardinalityType, FS_Interval
<1>5. rank \in Surjection(D, N)
  BY <1>3, <1>4, FS_Injection
<1> QED
  BY <1>5 DEF Surjection
LEMMA NthCovers ==
  ASSUME NEW S \in SUBSET Int, IsFiniteSet(S)
  PROVE  /\ Cardinality(S) \in Nat
         /\ \A n \in 1..Cardinality(S) : Nth(S, n) \in S
         /\ \A i \in S : \E n \in 1..Cardinality(S) : Nth(S, n) = i
<1> DEFINE R == {p \in S \X S : p[1] <= p[2]}
           Upto(i) == {j \in S : j <= i}
<1>1. \A i, j \in S : <<i, j>> \in R <=> i <= j
  OBVIOUS
<1>2. TotalOrder(S, R)
  BY <1>1 DEF TotalOrder
<1>3. \A i \in S : Below(S, R, i) = Upto(i)
  BY <1>1 DEF Below
<1> HIDE DEF R
<1>4. Cardinality(S) \in Nat
  BY FS_CardinalityType
<1>5. ASSUME NEW n \in 1..Cardinality(S)
      PROVE  Nth(S, n) \in S /\ Cardinality(Upto(Nth(S, n))) = n
  <2>1. \E i \in S : Cardinality(Below(S, R, i)) = n
    BY <1>2, RanksCoverAll
  <2> QED
    BY <1>3, <2>1 DEF Nth
<1>6. ASSUME NEW i \in S
      PROVE  \E n \in 1..Cardinality(S) : Nth(S, n) = i
  <2> DEFINE n == Cardinality(Upto(i))
             k == Nth(S, n)
  <2>1. n \in 1..Cardinality(S)
    BY <1>2, <1>3, RanksGrow
  <2>2. k \in S /\ Cardinality(Upto(k)) = Cardinality(Upto(i))
    BY <1>5, <2>1
  <2>3. Cardinality(Upto(i)) \in Nat
    BY <2>1, <1>4
  <2>4. <<k, i>> \in R /\ <<i, k>> \in R
    <3> HIDE DEF k
    <3>1. Below(S, R, i) = Upto(i) /\ Below(S, R, k) = Upto(k)
      BY <1>3, <2>2
    <3>2. /\ Cardinality(Below(S, R, i)) = Cardinality(Below(S, R, k))
          /\ Cardinality(Below(S, R, i)) \in Nat
      BY <3>1, <2>2, <2>3
    <3>3. /\ Cardinality(Below(S, R, i)) <= Cardinality(Below(S, R, k))
          /\ Cardinality(Below(S, R, k)) <= Cardinality(Below(S, R, i))
      BY <3>2
    <3> QED
      BY <3>3, <1>2, <2>2, RanksGrow
  <2>5. k = i
    BY <2>2, <2>4, <1>2 DEF TotalOrder
  <2> QED
    BY <2>1, <2>5
<1> QED
  BY <1>4, <1>5, <1>6
-----------------------------------------------------------------------------
(***************************************************************************)
(* Pages and the events mapped from them.                                  *)
(***************************************************************************)
LEMMA KeptFacts ==
  ASSUME NEW S, NEW page \in Seq(S)
  PROVE  /\ DOMAIN page = 1..Len(page) /\ Len(page) \in Nat
         /\ IsFiniteSet(DOMAIN page) /\ Cardinality(DOMAIN page) = Len(page)
         /\ Kept(page) \in SUBSET DOMAIN page
         /\ IsFiniteSet(Kept(page))
         /\ Cardinality(Kept(page)) \in Nat
         /\ Cardinality(Kept(page)) <= Len(page)
         /\ IsFiniteSet(DOMAIN page \ Kept(page))
         /\ Cardinality(Kept(page)) = Len(page) - Bad(page)
         /\ Bad(page) \in Nat
<1>1. DOMAIN page = 1..Len(page) /\ Len(page) \in Nat
  OBVIOUS
<1>2. IsFiniteSet(DOMAIN page) /\ Cardinality(DOMAIN page) = Len(page)
  <2>1. 1 \in Int /\ Len(page) \in Int
    BY <1>1
  <2>2. /\ IsFiniteSet(1..Len(page))
        /\ Cardinality(1..Len(page)) =
              IF 1 > Len(page) THEN 0 ELSE Len(page) - 1 + 1
    BY <2>1, FS_Interval
  <2> QED
    BY <1>1, <2>2
<1> DEFINE K == Kept(page)
           B == DOMAIN page \ Kept(page)
<1>3. K \in SUBSET DOMAIN page /\ B \in SUBSET DOMAIN page
  BY DEF Kept
<1>4. /\ IsFiniteSet(K) /\ Cardinality(K) \in Nat
      /\ IsFiniteSet(B) /\ Cardinality(B) \in Nat
      /\ Cardinality(K) <= Len(page)
  BY <1>2, <1>3, FS_Subset, FS_CardinalityType
<1>5. Cardinality(K \cup B) = Cardinality(K) + Cardinality(B)
  <2>1. K \cap B = {} /\ Cardinality({}) = 0
    BY FS_EmptySet
  <2>2. Cardinality(K \cup B) =
           Cardinality(K) + Cardinality(B) - Cardinality(K \cap B)
    BY <1>4, FS_Union
  <2> QED
    BY <1>4, <2>1, <2>2
<1>6. K \cup B = DOMAIN page
  BY <1>3
<1>7. Bad(page) = Cardinality(B)
  <2>1. B = {i \in DOMAIN page : ~Good(page[i])}
    BY DEF Kept
  <2> QED
    BY <2>1 DEF Bad
<1> HIDE DEF B
<1>8. Bad(page) \in Nat /\ Cardinality(K) = Len(page) - Bad(page)
  BY <1>2, <1>4, <1>5, <1>6, <1>7
<1> QED
  BY <1>1, <1>2, <1>3, <1>4, <1>8 DEF B

\* map_events makes an event of every good record and of nothing else.
LEMMA MapEventsFacts ==
  ASSUME NEW page \in Seq(Universe)
  PROVE  /\ MapEvents(page) \in Seq(Event)
         /\ Len(MapEvents(page)) \in Nat
         /\ Len(MapEvents(page)) <= Len(page)
         /\ \A n \in DOMAIN MapEvents(page) :
               \E m \in Kept(page) : MapEvents(page)[n] = MapEvent(page[m])
         /\ \A m \in Kept(page) :
               \E n \in DOMAIN MapEvents(page) :
                  MapEvents(page)[n] = MapEvent(page[m])
<1> DEFINE K == Kept(page)
           N == 1..Cardinality(K)
<1>1. /\ K \in SUBSET DOMAIN page /\ DOMAIN page = 1..Len(page)
      /\ IsFiniteSet(K) /\ Cardinality(K) \in Nat
      /\ Cardinality(K) <= Len(page)
  BY KeptFacts
<1>2. K \in SUBSET Int
  BY <1>1
<1>3. /\ \A n \in N : Nth(K, n) \in K
      /\ \A i \in K : \E n \in N : Nth(K, n) = i
  BY <1>1, <1>2, NthCovers
<1>4. MapEvents(page) = [n \in N |-> MapEvent(page[Nth(K, n)])]
  BY DEF MapEvents
<1>5. \A m \in K : page[m] \in Universe
  BY <1>1
<1>6. \A n \in N : MapEvent(page[Nth(K, n)]) \in Event
  BY <1>3, <1>5 DEF Event
<1>7. MapEvents(page) \in Seq(Event) /\ Len(MapEvents(page)) = Cardinality(K)
  BY <1>1, <1>4, <1>6
<1> QED
  BY <1>1, <1>3, <1>4, <1>7
-----------------------------------------------------------------------------
(***************************************************************************)
(* Merging.  A turn of the loop keeps the first richest record of each     *)
(* show.                                                                   *)
(***************************************************************************)
LEMMA CompletenessNat ==
  ASSUME NEW e
  PROVE  Completeness(e) \in Nat
<1> DEFINE has == <<e.image, e.tickets, HasPlace(e), e.seats # 0,
                    e.genres # {}, e.acts # <<>>>>
           H == {i \in DOMAIN has : has[i]}
<1>1. DOMAIN has = 1..6
  OBVIOUS
<1>2. H \in SUBSET (1..6)
  BY <1>1
<1> HIDE DEF has
<1>3. IsFiniteSet(1..6)
  <2>1. 1 \in Int /\ 6 \in Int
    OBVIOUS
  <2> QED
    BY <2>1, FS_Interval
<1>4. Cardinality(H) \in Nat
  BY <1>2, <1>3, FS_Subset, FS_CardinalityType
<1> QED
  BY <1>4 DEF Completeness, has

\* What one turn of the loop leaves in the dict.
LEMMA KeepEffect ==
  ASSUME NEW dict \in Seq(Event), NEW e \in Event
  PROVE  /\ Keep(dict, e) \in Seq(Event)
         /\ \/ /\ \E i \in DOMAIN dict : SameShow(dict[i], e)
               /\ Len(Keep(dict, e)) = Len(dict)
               /\ \A i \in DOMAIN dict :
                     \/ /\ ~SameShow(dict[i], e)
                        /\ Keep(dict, e)[i] = dict[i]
                     \/ /\ SameShow(dict[i], e)
                        /\ Completeness(e) <= Completeness(dict[i])
                        /\ Keep(dict, e)[i] = dict[i]
                     \/ /\ SameShow(dict[i], e)
                        /\ Completeness(e) > Completeness(dict[i])
                        /\ Keep(dict, e)[i] = e
            \/ /\ \A i \in DOMAIN dict : ~SameShow(dict[i], e)
               /\ Keep(dict, e) = Append(dict, e)
<1>1. CASE \E i \in DOMAIN dict : SameShow(dict[i], e)
  <2> DEFINE new == [i \in DOMAIN dict |->
                IF SameShow(dict[i], e) /\ Completeness(e) > Completeness(dict[i])
                THEN e ELSE dict[i]]
  <2>1. Keep(dict, e) = new
    BY <1>1 DEF Keep
  <2>2. /\ DOMAIN dict = 1..Len(dict) /\ Len(dict) \in Nat
        /\ \A i \in DOMAIN dict : dict[i] \in Event
    OBVIOUS
  <2>3. new \in [1..Len(dict) -> Event]
    BY <2>2
  <2>4. new \in Seq(Event) /\ Len(new) = Len(dict)
    BY <2>2, <2>3
  <2>5. \A i \in DOMAIN dict : Completeness(dict[i]) \in Nat
    BY CompletenessNat
  <2>6. \A i \in DOMAIN dict :
           \/ ~SameShow(dict[i], e) /\ new[i] = dict[i]
           \/ /\ SameShow(dict[i], e)
              /\ Completeness(e) <= Completeness(dict[i])
              /\ new[i] = dict[i]
           \/ /\ SameShow(dict[i], e)
              /\ Completeness(e) > Completeness(dict[i])
              /\ new[i] = e
    BY <2>5, CompletenessNat
  <2> HIDE DEF new
  <2> QED
    BY <1>1, <2>1, <2>4, <2>6
<1>2. CASE \A i \in DOMAIN dict : ~SameShow(dict[i], e)
  BY <1>2 DEF Keep
<1> QED
  BY <1>1, <1>2

MergedState == /\ merged \in Seq(Event)
               /\ best \in Seq(Event) /\ Len(best) <= Len(merged)
               /\ RichestOfEachShow
               /\ ShowsHaveAFirst

\* One turn keeps the first richest record of each show, in order.
LEMMA MergingOne ==
  ASSUME MergedState, NEW e \in Event,
         best' = Keep(best, e), merged' = Append(merged, e)
  PROVE  MergedState'
<1> USE DEF MergedState
<1>n. PICK N \in Nat : N = Len(merged)
  OBVIOUS
<1>b. PICK B \in Nat : B = Len(best)
  OBVIOUS
<1>1. /\ Len(merged) = N /\ DOMAIN merged = 1..N
      /\ Len(best) = B /\ DOMAIN best = 1..B
  BY <1>n, <1>b
<1>2. /\ merged' \in Seq(Event) /\ Len(merged') = N + 1
      /\ DOMAIN merged' = 1..(N + 1)
      /\ \A i \in 1..N : merged'[i] = merged[i]
      /\ merged'[N + 1] = e
  BY <1>1
<1> HIDE DEF MergedState
<1>3. \A i \in 1..N : FirstOfShow(i) => FirstOfShow(i)'
  BY <1>1, <1>2 DEF FirstOfShow
<1>4. ASSUME NEW i \in 1..N, RichestOfShow(i),
             SameShow(e, merged[i]) => Completeness(e) <= Completeness(merged[i])
      PROVE  RichestOfShow(i)'
  <2> SUFFICES ASSUME NEW j \in 1..(N + 1), SameShow(merged'[j], merged'[i])
               PROVE  \/ Completeness(merged'[j]) < Completeness(merged'[i])
                      \/ /\ Completeness(merged'[j]) = Completeness(merged'[i])
                         /\ i <= j
    BY <1>2 DEF RichestOfShow
  <2>1. CASE j \in 1..N
    BY <1>1, <1>2, <1>4, <2>1 DEF RichestOfShow
  <2>2. CASE j = N + 1
    BY <1>1, <1>2, <1>4, <2>2, CompletenessNat
  <2> QED
    BY <1>1, <2>1, <2>2
<1>5. ASSUME \A i \in 1..N : SameShow(merged[i], e) =>
                Completeness(merged[i]) < Completeness(e)
      PROVE  RichestOfShow(N + 1)'
  BY <1>1, <1>2, <1>5, CompletenessNat DEF RichestOfShow
<1>6. ASSUME \A i \in 1..N : ~SameShow(merged[i], e)
      PROVE  FirstOfShow(N + 1)'
  BY <1>1, <1>2, <1>6 DEF FirstOfShow
<1>7. /\ best \in Seq(Event) /\ B <= N
      /\ \A i \in 1..N : \E j \in 1..B : SameShow(best[j], merged[i])
      /\ \A i \in 1..B : \E j \in 1..N : best[i] = merged[j] /\ RichestOfShow(j)
      /\ \A i, j \in 1..B : i < j => SeenBefore(best[i], best[j])
      /\ \A i \in 1..B :
            \E f \in 1..N : FirstOfShow(f) /\ SameShow(merged[f], best[i])
  <2>1. best \in Seq(Event) /\ B <= N
    BY <1>1 DEF MergedState
  <2>2. RichestOfEachShow /\ ShowsHaveAFirst
    BY DEF MergedState
  <2>3. \A i \in 1..N : \E j \in 1..B : SameShow(best[j], merged[i])
    BY <1>1, <2>2 DEF RichestOfEachShow
  <2>4. \A i \in 1..B :
           \E j \in 1..N : best[i] = merged[j] /\ RichestOfShow(j)
    BY <1>1, <2>2 DEF RichestOfEachShow
  <2>5. \A i, j \in 1..B : i < j => SeenBefore(best[i], best[j])
    BY <1>1, <2>2 DEF RichestOfEachShow
  <2>6. \A i \in 1..B :
           \E f \in 1..N : FirstOfShow(f) /\ SameShow(merged[f], best[i])
    BY <1>1, <2>2 DEF ShowsHaveAFirst
  <2> QED
    BY <2>1, <2>3, <2>4, <2>5, <2>6
<1>8. CASE /\ \E i \in DOMAIN best : SameShow(best[i], e)
           /\ Len(best') = B
           /\ \A i \in DOMAIN best :
                 \/ ~SameShow(best[i], e) /\ best'[i] = best[i]
                 \/ /\ SameShow(best[i], e)
                    /\ Completeness(e) <= Completeness(best[i])
                    /\ best'[i] = best[i]
                 \/ /\ SameShow(best[i], e)
                    /\ Completeness(e) > Completeness(best[i])
                    /\ best'[i] = e
  <2>1. best' \in Seq(Event) /\ DOMAIN best' = 1..B
    BY <1>1, <1>7, <1>8, KeepEffect
  <2>2. \A i \in 1..B : SameShow(best'[i], best[i])
    BY <1>1, <1>8 DEF SameShow
  <2>3. \A i \in 1..(N + 1) : \E j \in 1..B : SameShow(best'[j], merged'[i])
    <3> TAKE i \in 1..(N + 1)
    <3>1. CASE i \in 1..N
      BY <1>2, <1>7, <2>2, <3>1 DEF SameShow
    <3>2. CASE i = N + 1
      BY <1>1, <1>2, <1>8, <2>2, <3>2 DEF SameShow
    <3> QED
      BY <1>1, <3>1, <3>2
  <2>4. \A i \in 1..B : \E j \in 1..(N + 1) :
           best'[i] = merged'[j] /\ RichestOfShow(j)'
    <3> TAKE i \in 1..B
    <3>1. PICK r \in 1..N : best[i] = merged[r] /\ RichestOfShow(r)
      BY <1>7
    <3>2. CASE best'[i] = best[i]
      <4>1. SameShow(e, merged[r]) =>
               Completeness(e) <= Completeness(merged[r])
        <5> SUFFICES ASSUME SameShow(e, best[i])
                     PROVE  Completeness(e) <= Completeness(best[i])
          BY <3>1
        <5>1. SameShow(best[i], e)
          BY DEF SameShow
        <5> QED
          BY <1>1, <1>8, <3>2, <5>1, CompletenessNat
      <4> QED
        BY <1>1, <1>2, <1>4, <3>1, <3>2, <4>1
    <3>3. CASE /\ SameShow(best[i], e) /\ best'[i] = e
               /\ Completeness(e) > Completeness(best[i])
      <4>1. ASSUME NEW j \in 1..N, SameShow(merged[j], e)
            PROVE  Completeness(merged[j]) < Completeness(e)
        <5>1. SameShow(merged[j], merged[r])
          BY <3>1, <3>3, <4>1 DEF SameShow
        <5>2. Completeness(merged[j]) <= Completeness(merged[r])
          BY <1>1, <3>1, <5>1, CompletenessNat DEF RichestOfShow
        <5> QED
          BY <3>1, <3>3, <5>2, CompletenessNat
      <4> QED
        BY <1>1, <1>2, <1>5, <3>3, <4>1
    <3> QED
      BY <1>1, <1>8, <3>2, <3>3
  <2>5. \A i, j \in 1..B : i < j => SeenBefore(best[i], best[j])'
    <3> TAKE i, j \in 1..B
    <3> HAVE i < j
    <3>1. PICK f \in 1..N, g \in 1..N :
               /\ f < g /\ FirstOfShow(f) /\ FirstOfShow(g)
               /\ SameShow(merged[f], best[i]) /\ SameShow(merged[g], best[j])
      BY <1>1, <1>7 DEF SeenBefore
    <3>2. /\ f \in 1..(N + 1) /\ g \in 1..(N + 1)
          /\ FirstOfShow(f)' /\ FirstOfShow(g)'
      BY <1>1, <1>3, <3>1
    <3>3. SameShow(merged'[f], best'[i]) /\ SameShow(merged'[g], best'[j])
      BY <1>2, <2>2, <3>1 DEF SameShow
    <3> QED
      BY <1>2, <3>1, <3>2, <3>3 DEF SeenBefore
  <2>6. \A i \in 1..B : \E f \in 1..(N + 1) :
           FirstOfShow(f)' /\ SameShow(merged'[f], best'[i])
    <3> TAKE i \in 1..B
    <3>1. PICK f \in 1..N : FirstOfShow(f) /\ SameShow(merged[f], best[i])
      BY <1>7
    <3>2. f \in 1..(N + 1) /\ FirstOfShow(f)'
      BY <1>3, <3>1
    <3>3. SameShow(merged'[f], best'[i])
      BY <1>2, <2>2, <3>1 DEF SameShow
    <3> QED
      BY <3>2, <3>3
  <2>7. RichestOfEachShow'
    BY <1>2, <2>1, <2>3, <2>4, <2>5 DEF RichestOfEachShow
  <2>8. ShowsHaveAFirst'
    BY <1>2, <2>1, <2>6 DEF ShowsHaveAFirst
  <2>9. Len(best') <= Len(merged')
    BY <1>2, <1>7, <1>8
  <2> QED
    BY <1>2, <2>1, <2>7, <2>8, <2>9 DEF MergedState
<1>9. CASE /\ \A i \in DOMAIN best : ~SameShow(best[i], e)
           /\ best' = Append(best, e)
  <2>1. /\ best' \in Seq(Event) /\ Len(best') = B + 1
        /\ DOMAIN best' = 1..(B + 1)
        /\ \A i \in 1..B : best'[i] = best[i]
        /\ best'[B + 1] = e
    BY <1>1, <1>7, <1>9
  <2>2. \A i \in 1..N : ~SameShow(merged[i], e)
    <3> TAKE i \in 1..N
    <3>1. PICK j \in 1..B : SameShow(best[j], merged[i])
      BY <1>7
    <3>2. ~SameShow(best[j], e)
      BY <1>1, <1>9
    <3> QED
      BY <3>1, <3>2 DEF SameShow
  <2>3. FirstOfShow(N + 1)' /\ RichestOfShow(N + 1)'
    BY <1>5, <1>6, <2>2
  <2>4. N + 1 \in 1..(N + 1) /\ B + 1 \in 1..(B + 1)
    BY <1>1
  <2>5. \A i \in 1..(N + 1) :
           \E j \in 1..(B + 1) : SameShow(best'[j], merged'[i])
    <3> TAKE i \in 1..(N + 1)
    <3>1. CASE i \in 1..N
      <4>1. PICK j \in 1..B : SameShow(best[j], merged[i])
        BY <1>7, <3>1
      <4>2. j \in 1..(B + 1) /\ best'[j] = best[j] /\ merged'[i] = merged[i]
        BY <1>2, <2>1, <3>1
      <4> QED
        BY <4>1, <4>2
    <3>2. CASE i = N + 1
      BY <1>2, <2>1, <2>4, <3>2 DEF SameShow
    <3> QED
      BY <1>1, <3>1, <3>2
  <2>6. \A i \in 1..(B + 1) : \E j \in 1..(N + 1) :
           best'[i] = merged'[j] /\ RichestOfShow(j)'
    <3> TAKE i \in 1..(B + 1)
    <3>1. CASE i \in 1..B
      <4>1. PICK r \in 1..N : best[i] = merged[r] /\ RichestOfShow(r)
        BY <1>7, <3>1
      <4>2. RichestOfShow(r)'
        BY <1>4, <2>2, <4>1 DEF SameShow
      <4> QED
        BY <1>1, <1>2, <2>1, <3>1, <4>1, <4>2
    <3>2. CASE i = B + 1
      BY <1>2, <2>1, <2>3, <2>4, <3>2
    <3> QED
      BY <1>1, <3>1, <3>2
  <2>7. \A i \in 1..(B + 1) : \E f \in 1..(N + 1) :
           /\ FirstOfShow(f)' /\ SameShow(merged'[f], best'[i])
           /\ i = B + 1 => f = N + 1
           /\ i # B + 1 => f # N + 1
    <3> TAKE i \in 1..(B + 1)
    <3>1. CASE i \in 1..B
      <4>1. PICK f \in 1..N : FirstOfShow(f) /\ SameShow(merged[f], best[i])
        BY <1>7, <3>1
      <4> QED
        BY <1>1, <1>2, <1>3, <2>1, <3>1, <4>1
    <3>2. CASE i = B + 1
      BY <1>2, <2>1, <2>3, <2>4, <3>2 DEF SameShow
    <3> QED
      BY <1>1, <3>1, <3>2
  <2>8. \A i, j \in 1..(B + 1) : i < j => SeenBefore(best[i], best[j])'
    <3> TAKE i, j \in 1..(B + 1)
    <3> HAVE i < j
    <3>1. CASE j \in 1..B
      <4>1. i \in 1..B
        BY <1>1, <3>1
      <4>2. PICK f \in 1..N, g \in 1..N :
               /\ f < g /\ FirstOfShow(f) /\ FirstOfShow(g)
               /\ SameShow(merged[f], best[i]) /\ SameShow(merged[g], best[j])
        BY <1>1, <1>7, <3>1, <4>1 DEF SeenBefore
      <4>3. /\ f \in 1..(N + 1) /\ g \in 1..(N + 1)
            /\ FirstOfShow(f)' /\ FirstOfShow(g)'
        BY <1>3, <4>2
      <4>4. SameShow(merged'[f], best'[i]) /\ SameShow(merged'[g], best'[j])
        BY <1>2, <2>1, <3>1, <4>1, <4>2
      <4> QED
        BY <1>2, <4>2, <4>3, <4>4 DEF SeenBefore
    <3>2. CASE j = B + 1
      <4>1. i # B + 1
        BY <1>1, <3>2
      <4>2. PICK f \in 1..(N + 1) :
               /\ FirstOfShow(f)' /\ SameShow(merged'[f], best'[i])
               /\ f # N + 1
        BY <2>7, <4>1
      <4>3. f < N + 1
        BY <1>1, <4>2
      <4> QED
        BY <1>2, <2>1, <2>3, <2>4, <3>2, <4>2, <4>3 DEF SameShow, SeenBefore
    <3> QED
      BY <1>1, <3>1, <3>2
  <2>9. RichestOfEachShow'
    BY <1>2, <2>1, <2>5, <2>6, <2>8 DEF RichestOfEachShow
  <2>10. ShowsHaveAFirst'
    BY <1>2, <2>1, <2>7 DEF ShowsHaveAFirst
  <2> QED
    BY <1>1, <1>2, <1>7, <2>1, <2>9, <2>10 DEF MergedState
<1> QED
  BY <1>1, <1>7, <1>8, <1>9, KeepEffect
-----------------------------------------------------------------------------
(***************************************************************************)
(* Sorting: Python's order of tuples is total, and Sorted puts the events  *)
(* in it.                                                                  *)
(***************************************************************************)
LEMMA EventFacts ==
  ASSUME NEW raw \in Universe
  PROVE  /\ MapEvent(raw) \in Event
         /\ MapEvent(raw).date = raw.day /\ raw.day \in Int
         /\ MapEvent(raw).place = raw.place
         /\ raw.place \in Nat \cup {NoPlace, Unmeasurable}
         /\ MapEvent(raw).form = raw.form
         /\ MapEvent(raw).time = raw.time /\ raw.time \in Nat
         /\ MapEvent(raw).seats = raw.seats /\ raw.seats \in Nat
         /\ MapEvent(raw).status = raw.status
  BY RecordsTyped DEF Event, MapEvent, NoDay

\* Both sort keys are triples of integers.
LEMMA SortKeyType ==
  ASSUME NEW e \in Event
  PROVE  /\ SortKey(e)[1] \in Int /\ SortKey(e)[2] \in Int
         /\ SortKey(e)[3] \in Int
         /\ sort = "date" => SortKey(e)[1] = e.date
         /\ sort = "distance" =>
               SortKey(e)[1] = IF Unknown(e) \/ CannotMeasure(e) THEN 1 ELSE 0
<1>1. /\ e.date \in Int /\ e.time \in Nat
      /\ e.place \in Nat \cup {NoPlace, Unmeasurable}
  BY EventFacts DEF Event
<1>2. /\ Distance(e) \in Int /\ StartTime(e) \in Int /\ Far \in Int
      /\ Distance(e) = NoDistance <=> Unknown(e) \/ CannotMeasure(e)
  BY <1>1 DEF Distance, CannotMeasure, HasPlace, Unknown, NoPlace, NullIsland,
              Unmeasurable, NoDistance, StartTime, Far
<1> QED
  BY <1>1, <1>2 DEF SortKey

LEMMA LessIsLexicographic ==
  ASSUME NEW a \in Event, NEW b \in Event
  PROVE  Less(a, b) <=>
            \/ SortKey(a)[1] < SortKey(b)[1]
            \/ SortKey(a)[1] = SortKey(b)[1] /\ SortKey(a)[2] < SortKey(b)[2]
            \/ /\ SortKey(a)[1] = SortKey(b)[1] /\ SortKey(a)[2] = SortKey(b)[2]
               /\ SortKey(a)[3] < SortKey(b)[3]
<1> DEFINE At(i) == /\ SortKey(a)[i] < SortKey(b)[i]
                    /\ \A j \in 1..(i - 1) : SortKey(a)[j] = SortKey(b)[j]
<1>1. Less(a, b) <=> At(1) \/ At(2) \/ At(3)
  BY DEF Less
<1>2. /\ 1..(1 - 1) = {} /\ 1..(2 - 1) = {1} /\ 1..(3 - 1) = {1, 2}
  OBVIOUS
<1>3. At(1) <=> SortKey(a)[1] < SortKey(b)[1]
  BY <1>2
<1>4. At(2) <=> SortKey(a)[2] < SortKey(b)[2] /\ SortKey(a)[1] = SortKey(b)[1]
  BY <1>2
<1>5. At(3) <=> /\ SortKey(a)[3] < SortKey(b)[3]
                /\ SortKey(a)[1] = SortKey(b)[1] /\ SortKey(a)[2] = SortKey(b)[2]
  BY <1>2
<1> HIDE DEF At
<1> QED
  BY <1>1, <1>3, <1>4, <1>5

Earlier(s, j, i) == Less(s[j], s[i]) \/ (~Less(s[i], s[j]) /\ j <= i)
Order(s) == {p \in (DOMAIN s) \X (DOMAIN s) : Earlier(s, p[1], p[2])}

\* The order of the keys, ties broken by the place in the list, is total.
LEMMA OrderIsTotal ==
  ASSUME NEW s \in Seq(Event)
  PROVE  /\ IsFiniteSet(DOMAIN s) /\ Cardinality(DOMAIN s) = Len(s)
         /\ TotalOrder(DOMAIN s, Order(s))
         /\ \A i, j \in DOMAIN s : <<i, j>> \in Order(s) => ~Less(s[j], s[i])
         /\ \A i \in DOMAIN s : Rank(s, i) = Cardinality(Below(DOMAIN s, Order(s), i))
<1> DEFINE D == DOMAIN s
           K(i) == SortKey(s[i])
<1>1. /\ D = 1..Len(s) /\ Len(s) \in Nat
      /\ IsFiniteSet(D) /\ Cardinality(D) = Len(s)
      /\ \A i \in D : s[i] \in Event
  <2>1. /\ D = 1..Len(s) /\ Len(s) \in Nat
        /\ IsFiniteSet(D) /\ Cardinality(D) = Len(s)
    BY KeptFacts
  <2>2. \A i \in D : s[i] \in Event
    OBVIOUS
  <2> QED
    BY <2>1, <2>2
<1>2. \A i \in D : K(i)[1] \in Int /\ K(i)[2] \in Int /\ K(i)[3] \in Int
  BY <1>1, SortKeyType
<1>3. \A i, j \in D : Less(s[i], s[j]) <=>
         \/ K(i)[1] < K(j)[1]
         \/ K(i)[1] = K(j)[1] /\ K(i)[2] < K(j)[2]
         \/ K(i)[1] = K(j)[1] /\ K(i)[2] = K(j)[2] /\ K(i)[3] < K(j)[3]
  BY <1>1, LessIsLexicographic
<1>4. \A i, j \in D : <<i, j>> \in Order(s) <=>
         Less(s[i], s[j]) \/ (~Less(s[j], s[i]) /\ i <= j)
  BY DEF Order, Earlier
<1> HIDE DEF K, D
<1>5. \A i, j \in D : <<i, j>> \in Order(s) <=>
         \/ K(i)[1] < K(j)[1]
         \/ K(i)[1] = K(j)[1] /\ K(i)[2] < K(j)[2]
         \/ K(i)[1] = K(j)[1] /\ K(i)[2] = K(j)[2] /\ K(i)[3] < K(j)[3]
         \/ /\ K(i)[1] = K(j)[1] /\ K(i)[2] = K(j)[2] /\ K(i)[3] = K(j)[3]
            /\ i <= j
  <2> TAKE i, j \in D
  <2>1. /\ K(i)[1] \in Int /\ K(i)[2] \in Int /\ K(i)[3] \in Int
        /\ K(j)[1] \in Int /\ K(j)[2] \in Int /\ K(j)[3] \in Int
    BY <1>2
  <2>2. Less(s[i], s[j]) <=>
           \/ K(i)[1] < K(j)[1]
           \/ K(i)[1] = K(j)[1] /\ K(i)[2] < K(j)[2]
           \/ K(i)[1] = K(j)[1] /\ K(i)[2] = K(j)[2] /\ K(i)[3] < K(j)[3]
    BY <1>3
  <2>3. Less(s[j], s[i]) <=>
           \/ K(j)[1] < K(i)[1]
           \/ K(j)[1] = K(i)[1] /\ K(j)[2] < K(i)[2]
           \/ K(j)[1] = K(i)[1] /\ K(j)[2] = K(i)[2] /\ K(j)[3] < K(i)[3]
    BY <1>3
  <2>4. <<i, j>> \in Order(s) <=>
           Less(s[i], s[j]) \/ (~Less(s[j], s[i]) /\ i <= j)
    BY <1>4
  <2> QED
    BY <2>1, <2>2, <2>3, <2>4
<1>6. \A i \in D : i \in Nat
  BY <1>1
<1>7. /\ \A i \in D : <<i, i>> \in Order(s)
      /\ \A i, j \in D : <<i, j>> \in Order(s) \/ <<j, i>> \in Order(s)
      /\ \A i, j \in D :
            <<i, j>> \in Order(s) /\ <<j, i>> \in Order(s) => i = j
  BY <1>2, <1>5, <1>6
<1>8. \A i, j, k \in D :
         <<i, j>> \in Order(s) /\ <<j, k>> \in Order(s) => <<i, k>> \in Order(s)
  <2> TAKE i, j, k \in D
  <2>1. /\ K(i)[1] \in Int /\ K(i)[2] \in Int /\ K(i)[3] \in Int
        /\ K(j)[1] \in Int /\ K(j)[2] \in Int /\ K(j)[3] \in Int
        /\ K(k)[1] \in Int /\ K(k)[2] \in Int /\ K(k)[3] \in Int
        /\ i \in Nat /\ j \in Nat /\ k \in Nat
    BY <1>2, <1>6
  <2> DEFINE UpTo(a, b) ==
         \/ K(a)[1] < K(b)[1]
         \/ K(a)[1] = K(b)[1] /\ K(a)[2] < K(b)[2]
         \/ K(a)[1] = K(b)[1] /\ K(a)[2] = K(b)[2] /\ K(a)[3] < K(b)[3]
         \/ /\ K(a)[1] = K(b)[1] /\ K(a)[2] = K(b)[2] /\ K(a)[3] = K(b)[3]
            /\ a <= b
  <2>2. /\ <<i, j>> \in Order(s) <=> UpTo(i, j)
        /\ <<j, k>> \in Order(s) <=> UpTo(j, k)
        /\ <<i, k>> \in Order(s) <=> UpTo(i, k)
    BY <1>5
  <2>3. UpTo(i, j) /\ UpTo(j, k) => UpTo(i, k)
    BY <2>1
  <2> QED
    BY <2>2, <2>3
<1>9. TotalOrder(D, Order(s))
  BY <1>7, <1>8 DEF TotalOrder
<1>10. \A i, j \in D : <<i, j>> \in Order(s) => ~Less(s[j], s[i])
  BY <1>2, <1>3, <1>4
<1>11. ASSUME NEW i \in D
       PROVE  Rank(s, i) = Cardinality(Below(D, Order(s), i))
  <2>1. Below(D, Order(s), i) =
           {j \in DOMAIN s : Less(s[j], s[i]) \/ (~Less(s[i], s[j]) /\ j <= i)}
    BY <1>4, <1>11 DEF Below, D
  <2> QED
    BY <2>1 DEF Rank
<1> QED
  BY <1>1, <1>9, <1>10, <1>11 DEF D

Place(s, n) == CHOOSE i \in DOMAIN s : Rank(s, i) = n

\* Sorting is a permutation into ascending order.
LEMMA SortedFacts ==
  ASSUME NEW s \in Seq(Event)
  PROVE  /\ Sorted(s) \in Seq(Event) /\ Len(Sorted(s)) = Len(s)
         /\ \A n \in 1..Len(s) : /\ Place(s, n) \in 1..Len(s)
                                 /\ Sorted(s)[n] = s[Place(s, n)]
         /\ \A m, n \in 1..Len(s) : Place(s, m) = Place(s, n) => m = n
         /\ \A i \in 1..Len(s) : \E n \in 1..Len(s) : Place(s, n) = i
         /\ \A m, n \in 1..Len(s) : m < n => ~Less(Sorted(s)[n], Sorted(s)[m])
<1> DEFINE D == DOMAIN s
           R == Order(s)
<1>1. /\ D = 1..Len(s) /\ Len(s) \in Nat
      /\ IsFiniteSet(D) /\ Cardinality(D) = Len(s)
      /\ TotalOrder(D, R)
      /\ \A i, j \in D : <<i, j>> \in R => ~Less(s[j], s[i])
      /\ \A i \in D : Rank(s, i) = Cardinality(Below(D, R, i))
      /\ \A i \in D : s[i] \in Event
  BY OrderIsTotal
<1> HIDE DEF R
<1>2. ASSUME NEW n \in 1..Len(s)
      PROVE  Place(s, n) \in D /\ Rank(s, Place(s, n)) = n
  <2>1. \E i \in D : Cardinality(Below(D, R, i)) = n
    BY <1>1, RanksCoverAll
  <2>2. \E i \in D : Rank(s, i) = n
    BY <1>1, <2>1
  <2> QED
    BY <2>2 DEF Place
<1>3. /\ \A i \in D : Rank(s, i) \in 1..Len(s)
      /\ \A i, j \in D : Rank(s, i) <= Rank(s, j) <=> <<i, j>> \in R
  BY <1>1, RanksGrow
<1>4. \A i \in D : \E n \in 1..Len(s) : Place(s, n) = i
  <2> TAKE i \in D
  <2> DEFINE k == Place(s, Rank(s, i))
  <2>1. Rank(s, i) \in 1..Len(s)
    BY <1>3
  <2>2. k \in D /\ Rank(s, k) = Rank(s, i)
    BY <1>2, <2>1
  <2> HIDE DEF k
  <2>3. Rank(s, k) <= Rank(s, i) /\ Rank(s, i) <= Rank(s, k)
    BY <1>1, <2>1, <2>2
  <2>4. <<k, i>> \in R /\ <<i, k>> \in R
    BY <1>3, <2>2, <2>3
  <2>5. k = i
    BY <1>1, <2>2, <2>4 DEF TotalOrder
  <2> QED
    BY <2>1, <2>5 DEF k
<1>5. \A m, n \in 1..Len(s) : Place(s, m) = Place(s, n) => m = n
  BY <1>2
<1>6. Sorted(s) = [n \in D |-> s[Place(s, n)]]
  BY DEF Sorted, Place
<1>7. /\ Sorted(s) \in [1..Len(s) -> Event]
      /\ \A n \in 1..Len(s) : Sorted(s)[n] = s[Place(s, n)]
  BY <1>1, <1>2, <1>6
<1>8. Sorted(s) \in Seq(Event) /\ Len(Sorted(s)) = Len(s)
  BY <1>1, <1>7
<1>9. ASSUME NEW m \in 1..Len(s), NEW n \in 1..Len(s), m < n
      PROVE  ~Less(Sorted(s)[n], Sorted(s)[m])
  <2>1. Rank(s, Place(s, m)) <= Rank(s, Place(s, n))
    BY <1>1, <1>2, <1>9
  <2>2. <<Place(s, m), Place(s, n)>> \in R
    BY <1>2, <1>3, <2>1
  <2> QED
    BY <1>1, <1>2, <1>7, <2>2
<1> QED
  BY <1>1, <1>2, <1>4, <1>5, <1>7, <1>8, <1>9

\* The cut is a prefix of the sorted list, no longer than the limit.
LEMMA ShownFacts ==
  ASSUME NEW s \in Seq(Event)
  PROVE  /\ Shown(s) \in Seq(Event)
         /\ Len(Shown(s)) = IF Len(s) < Limit THEN Len(s) ELSE Limit
         /\ DOMAIN Shown(s) = 1..Len(Shown(s))
         /\ \A n \in 1..Len(Shown(s)) :
               n \in 1..Len(s) /\ Shown(s)[n] = Sorted(s)[n]
<1> DEFINE t == Sorted(s)
           n == IF Len(t) < Limit THEN Len(t) ELSE Limit
<1>1. t \in Seq(Event) /\ Len(t) = Len(s) /\ Len(s) \in Nat
  BY SortedFacts
<1>2. Shown(s) = SubSeq(t, 1, n)
  BY DEF Shown, FirstN
<1> HIDE DEF t
<1>3. n \in Nat /\ n <= Len(t)
  BY <1>1
<1>4. \A k \in 1..n : k \in 1..Len(t)
  BY <1>1, <1>3
<1> HIDE DEF n
<1>5. /\ SubSeq(t, 1, n) \in Seq(Event) /\ Len(SubSeq(t, 1, n)) = n
      /\ \A k \in 1..n : SubSeq(t, 1, n)[k] = t[k]
  BY <1>1, <1>3, <1>4
<1> QED
  BY <1>1, <1>2, <1>4, <1>5 DEF n, t
-----------------------------------------------------------------------------
(***************************************************************************)
(* The windows.  The dates sent to the providers are the days asked for.   *)
(***************************************************************************)
LEMMA DayOfWeek ==
  ASSUME NEW q \in Int, NEW r \in 0..6
  PROVE  (7 * q + r) % 7 = r
  OBVIOUS

LEMMA WeekOf ==
  ASSUME NEW d \in Int
  PROVE  \E q \in Int : d = 7 * q + (d % 7) /\ d % 7 \in 0..6
<1>1. d = 7 * (d \div 7) + (d % 7) /\ d % 7 \in 0..6 /\ d \div 7 \in Int
  OBVIOUS
<1> QED
  BY <1>1

\* The Friday of the weekend asked for is at most two days ago.
LEMMA FridayFacts ==
  ASSUME today \in Nat
  PROVE  /\ Friday \in Int /\ today <= Friday + 2
         /\ \A d \in today..(Friday - 1) : ~OnWeekend(d)
         /\ \A d \in Friday..(Friday + 2) : OnWeekend(d)
         /\ ~OnWeekend(Friday + 3)
<1> DEFINE w == today % 7
<1>1. PICK q \in Int : today = 7 * q + w /\ w \in 0..6
  BY WeekOf
<1>2. Friday = 7 * q + 4
  <2>1. CASE w \in {5, 6}
    BY <1>1, <2>1 DEF Friday, Weekday
  <2>2. CASE w \in 0..4
    <3>1. 4 - w = 7 * 0 + (4 - w) /\ 4 - w \in 0..6
      BY <1>1, <2>2
    <3>2. (4 - w) % 7 = 4 - w
      BY <3>1
    <3> QED
      BY <1>1, <2>2, <3>2 DEF Friday, Weekday
  <2> QED
    BY <1>1, <2>1, <2>2
<1>3. \A r \in 0..6 : (7 * q + r) % 7 = r
  BY DayOfWeek
<1>4. ASSUME NEW d \in today..(Friday - 1)
      PROVE  ~OnWeekend(d)
  <2>1. d = 7 * q + (d - 7 * q) /\ d - 7 * q \in 0..3
    BY <1>1, <1>2
  <2>2. d % 7 = d - 7 * q
    BY <1>3, <2>1
  <2> QED
    BY <2>1, <2>2 DEF OnWeekend
<1>5. ASSUME NEW d \in Friday..(Friday + 2)
      PROVE  OnWeekend(d)
  <2>1. d = 7 * q + (d - 7 * q) /\ d - 7 * q \in {4, 5, 6}
    BY <1>2
  <2>2. d % 7 = d - 7 * q
    BY <1>3, <2>1
  <2> QED
    BY <2>1, <2>2 DEF OnWeekend
<1>6. ~OnWeekend(Friday + 3)
  <2>1. Friday + 3 = 7 * (q + 1) + 0
    BY <1>2
  <2>2. (Friday + 3) % 7 = 0
    BY <2>1, DayOfWeek
  <2> QED
    BY <2>2 DEF OnWeekend
<1> QED
  BY <1>1, <1>2, <1>4, <1>5, <1>6

\* The dates sent to a provider are exactly the days that were asked for.
LEMMA WindowIsAsked ==
  ASSUME today \in Nat, window \in Windows, NEW d \in 0..Endless
  PROVE  Asked(d) <=> DateFrom <= d /\ d <= DateTo
<1>1. window \in {"today", "weekend", "week", "month", "all"}
  BY WindowsKnown
<1>2. Endless \in Nat
  <2>1. Far \in Nat
    BY DEF Far
  <2>2. \A n \in Nat : 1000 * n \in Nat
    OBVIOUS
  <2> QED
    BY <2>1, <2>2 DEF Endless
<1>3. CASE window \in {"today", "week", "month", "all"}
  BY <1>2, <1>3 DEF Asked, DateFrom, DateTo
<1>4. CASE window = "weekend"
  <2> DEFINE from == IF Friday > today THEN Friday ELSE today
  <2>1. DateFrom = from /\ DateTo = Friday + 2
    BY <1>4 DEF DateFrom, DateTo
  <2>2. Asked(d) <=> /\ d >= today
                     /\ OnWeekend(d)
                     /\ \A b \in today..d : OnWeekend(b) =>
                           \A c \in b..d : OnWeekend(c)
    BY <1>4 DEF Asked
  <2>3. /\ Friday \in Int /\ today <= Friday + 2
        /\ \A x \in today..(Friday - 1) : ~OnWeekend(x)
        /\ \A x \in Friday..(Friday + 2) : OnWeekend(x)
        /\ ~OnWeekend(Friday + 3)
    BY FridayFacts
  <2>4. ASSUME from <= d, d <= Friday + 2
        PROVE  Asked(d)
    <3>1. d >= today /\ d \in Friday..(Friday + 2)
      BY <1>2, <2>3, <2>4
    <3>2. ASSUME NEW b \in today..d, OnWeekend(b), NEW c \in b..d
          PROVE  OnWeekend(c)
      <4>1. b >= Friday
        BY <2>3, <3>2
      <4>2. c \in Friday..(Friday + 2)
        BY <2>3, <2>4, <3>2, <4>1
      <4> QED
        BY <2>3, <4>2
    <3> QED
      BY <2>2, <2>3, <3>1, <3>2
  <2>5. ASSUME Asked(d)
        PROVE  from <= d /\ d <= Friday + 2
    <3>1. d >= today /\ OnWeekend(d)
      BY <2>2, <2>5
    <3>2. from <= d
      BY <1>2, <2>3, <3>1
    <3>3. ASSUME d > Friday + 2
          PROVE  FALSE
      <4>1. /\ from \in today..d /\ from \in Friday..(Friday + 2)
            /\ Friday + 3 \in from..d
        BY <1>2, <2>3, <3>1, <3>3
      <4>2. OnWeekend(from)
        BY <2>3, <4>1
      <4> QED
        BY <2>2, <2>3, <2>5, <4>1, <4>2
    <3> QED
      BY <2>3, <3>2, <3>3
  <2> QED
    BY <2>1, <2>4, <2>5
<1> QED
  BY <1>1, <1>3, <1>4
-----------------------------------------------------------------------------
(***************************************************************************)
(* The invariant at the start.                                             *)
(***************************************************************************)
LEMMA PageFacts ==
  ASSUME catalog \in SUBSET Universe, NEW p, NEW page \in SoonestOf(ListedBy(p))
  PROVE  /\ IsFiniteSet(ListedBy(p)) /\ ListedBy(p) \in SUBSET catalog
         /\ Cardinality(ListedBy(p)) \in Nat
         /\ PerPage \in Nat
         /\ page \in Seq(ListedBy(p)) /\ page \in Seq(catalog)
         /\ page \in Seq(Universe)
         /\ Len(page) = SizeOfPage(ListedBy(p))
         /\ Len(page) <= PerPage /\ Len(page) <= Cardinality(ListedBy(p))
         /\ DOMAIN page = 1..Len(page)
<1> DEFINE S == ListedBy(p)
<1>1. S \in SUBSET catalog
  BY DEF ListedBy
<1>2. IsFiniteSet(S) /\ Cardinality(S) \in Nat
  BY <1>1, UniverseFinite, FS_Subset, FS_CardinalityType
<1>3. PerPage \in Nat
  BY DEF PerPage
<1>4. /\ SizeOfPage(S) \in Nat /\ SizeOfPage(S) <= PerPage
      /\ SizeOfPage(S) <= Cardinality(S)
  BY <1>2, <1>3 DEF SizeOfPage
<1> HIDE DEF S
<1>5. page \in [1..SizeOfPage(S) -> S]
  BY DEF SoonestOf, S
<1>6. page \in Seq(S) /\ Len(page) = SizeOfPage(S)
  BY <1>4, <1>5
<1>7. page \in Seq(catalog) /\ page \in Seq(Universe)
  BY <1>1, <1>4, <1>5
<1> QED
  BY <1>1, <1>2, <1>3, <1>4, <1>5, <1>6, <1>7 DEF S

\* PagesSent is any soonest page of each provider.
LEMMA PagesSentFacts ==
  ASSUME NEW f \in PagesSent
  PROVE  /\ DOMAIN f = DOMAIN Providers
         /\ f = [p \in DOMAIN Providers |-> f[p]]
         /\ \A p \in DOMAIN Providers : f[p] \in SoonestOf(ListedBy(Providers[p]))
  BY DEF PagesSent

LEMMA FacetsType ==
  ASSUME NEW s \in Seq(Event)
  PROVE  Facets(s) \in [AllGenres -> Nat]
<1>1. IsFiniteSet(DOMAIN s)
  BY KeptFacts
<1>2. ASSUME NEW g
      PROVE  Cardinality({i \in DOMAIN s : g \in s[i].genres}) \in Nat
  <2>1. {i \in DOMAIN s : g \in s[i].genres} \in SUBSET DOMAIN s
    OBVIOUS
  <2> QED
    BY <1>1, <2>1, FS_Subset, FS_CardinalityType
<1> QED
  BY <1>2 DEF Facets

\* The search starts consistent.
LEMMA MergeInit == Init => MergeInv
<1> SUFFICES ASSUME Init PROVE MergeInv
  OBVIOUS
<1>1. /\ catalog \in SUBSET Universe /\ ListedOnce(catalog)
      /\ window \in Windows /\ today \in Days /\ sort \in {"date", "distance"}
      /\ merged = <<>> /\ best = <<>> /\ shown = <<>> /\ stage = "merging"
      /\ facets = Facets(<<>>)
      /\ todo = [i \in DOMAIN Providers |-> MapEvents(pages[i])]
  BY DEF Init
<1>2. /\ pages = [p \in DOMAIN Providers |-> pages[p]]
      /\ \A p \in DOMAIN Providers :
            pages[p] \in SoonestOf(ListedBy(Providers[p]))
  BY PagesSentFacts DEF Init
<1>3. \A p \in DOMAIN Providers :
         pages[p] \in Seq(catalog) /\ pages[p] \in Seq(Universe)
  BY <1>1, <1>2, PageFacts
<1>4. <<>> \in Seq(Event) /\ Len(<<>>) = 0 /\ DOMAIN <<>> = {}
  OBVIOUS
<1>5. TypeOK
  <2>1. pages \in [DOMAIN Providers -> Seq(catalog)]
    BY <1>2, <1>3
  <2>2. todo \in [DOMAIN Providers -> Seq(Event)]
    BY <1>1, <1>3, MapEventsFacts
  <2>3. Facets(<<>>) \in [AllGenres -> Nat]
    BY <1>4, FacetsType
  <2> QED
    BY <1>1, <1>4, <2>1, <2>2, <2>3 DEF TypeOK
<1>6. PagesAreSoonest
  BY <1>2 DEF PagesAreSoonest
<1>7. EventsAreMapped
  BY <1>1, <1>3, <1>4, MapEventsFacts DEF EventsAreMapped, MappedFrom
<1>8. NoneIsLost
  BY <1>1, <1>3, MapEventsFacts DEF NoneIsLost, Kept
<1>9. NoMoreThanAPage
  <2>1. ASSUME NEW p \in DOMAIN Providers
        PROVE  Len(merged) + Len(todo[p]) <= Len(pages[p])
    <3>1. todo[p] = MapEvents(pages[p]) /\ pages[p] \in Seq(Universe)
      BY <1>1, <1>3
    <3>2. Len(todo[p]) \in Nat /\ Len(todo[p]) <= Len(pages[p])
      BY <3>1, MapEventsFacts
    <3> QED
      BY <1>1, <1>4, <3>2
  <2> QED
    BY <2>1 DEF NoMoreThanAPage
<1>10. RichestOfEachShow /\ ShowsHaveAFirst /\ ShownIsCut
  BY <1>1, <1>4 DEF RichestOfEachShow, ShowsHaveAFirst, ShownIsCut
<1> QED
  BY <1>1, <1>5, <1>6, <1>7, <1>8, <1>9, <1>10 DEF MergeInv
-----------------------------------------------------------------------------
(***************************************************************************)
(* A turn of the loop.                                                     *)
(***************************************************************************)
LEMMA TakingOne ==
  ASSUME MergeInv, NEW i \in DOMAIN Providers, MergeOne(i)
  PROVE  /\ merged \in Seq(Event) /\ merged' = Append(merged, todo[i][1])
         /\ Len(merged') = Len(merged) + 1 /\ DOMAIN merged' = 1..(Len(merged) + 1)
         /\ \A n \in DOMAIN merged : n \in DOMAIN merged' /\ merged'[n] = merged[n]
         /\ merged'[Len(merged) + 1] = todo[i][1]
         /\ todo[i][1] \in Event
         /\ best' = Keep(best, todo[i][1])
         /\ todo' \in [DOMAIN Providers -> Seq(Event)]
         /\ \A p \in DOMAIN Providers \ {i} : todo'[p] = todo[p]
         /\ 1 \in DOMAIN todo[i] /\ Len(todo[i]) \in Nat
         /\ Len(todo'[i]) = Len(todo[i]) - 1
         /\ \A n \in DOMAIN todo'[i] :
               n + 1 \in DOMAIN todo[i] /\ todo'[i][n] = todo[i][n + 1]
         /\ \A n \in DOMAIN todo[i] \ {1} :
               n - 1 \in DOMAIN todo'[i] /\ todo'[i][n - 1] = todo[i][n]
         /\ UNCHANGED <<catalog, window, today, sort, pages, shown, facets, stage>>
         /\ stage = "merging"
<1>1. /\ merged \in Seq(Event) /\ todo \in [DOMAIN Providers -> Seq(Event)]
      /\ todo[i] \in Seq(Event)
  BY DEF MergeInv, TypeOK
<1> DEFINE t == todo[i]
<1>2. /\ t # <<>> /\ best' = Keep(best, Head(t))
      /\ merged' = Append(merged, Head(t))
      /\ todo' = [todo EXCEPT ![i] = Tail(t)]
      /\ UNCHANGED <<catalog, window, today, sort, pages, shown, facets, stage>>
      /\ stage = "merging"
  BY <1>1 DEF MergeOne, request
<1>3. todo' \in [DOMAIN Providers -> Seq(Event)]
  <2>1. Tail(t) \in Seq(Event)
    BY <1>1, <1>2
  <2> QED
    BY <1>1, <1>2, <2>1
<1>4. todo'[i] = Tail(t) /\ \A p \in DOMAIN Providers \ {i} : todo'[p] = todo[p]
  BY <1>1, <1>2
<1> HIDE DEF t
<1>5. /\ t \in Seq(Event) /\ t # <<>>
  BY <1>1, <1>2 DEF t
<1>6. /\ Head(t) = t[1] /\ t[1] \in Event /\ DOMAIN t = 1..Len(t)
      /\ Len(t) \in Nat /\ 1 \in DOMAIN t
      /\ Len(Tail(t)) = Len(t) - 1 /\ DOMAIN Tail(t) = 1..(Len(t) - 1)
      /\ \A n \in 1..(Len(t) - 1) : Tail(t)[n] = t[n + 1]
  BY <1>5
<1>7. /\ \A n \in DOMAIN Tail(t) : n + 1 \in DOMAIN t /\ Tail(t)[n] = t[n + 1]
      /\ \A n \in DOMAIN t \ {1} : n - 1 \in DOMAIN Tail(t) /\ Tail(t)[n - 1] = t[n]
  BY <1>6
<1>8. /\ Len(merged') = Len(merged) + 1 /\ DOMAIN merged' = 1..(Len(merged) + 1)
      /\ \A n \in DOMAIN merged : n \in DOMAIN merged' /\ merged'[n] = merged[n]
      /\ merged'[Len(merged) + 1] = t[1]
  BY <1>1, <1>2, <1>6
<1> QED
  BY <1>1, <1>2, <1>3, <1>4, <1>6, <1>7, <1>8 DEF t
LEMMA MergeOneKeeps ==
  ASSUME MergeInv, NEW i \in DOMAIN Providers, MergeOne(i)
  PROVE  MergeInv'
<1>1. /\ merged \in Seq(Event) /\ merged' = Append(merged, todo[i][1])
      /\ Len(merged') = Len(merged) + 1 /\ DOMAIN merged' = 1..(Len(merged) + 1)
      /\ \A n \in DOMAIN merged : n \in DOMAIN merged' /\ merged'[n] = merged[n]
      /\ merged'[Len(merged) + 1] = todo[i][1]
      /\ todo[i][1] \in Event
      /\ best' = Keep(best, todo[i][1])
      /\ todo' \in [DOMAIN Providers -> Seq(Event)]
      /\ \A p \in DOMAIN Providers \ {i} : todo'[p] = todo[p]
      /\ 1 \in DOMAIN todo[i] /\ Len(todo[i]) \in Nat
      /\ Len(todo'[i]) = Len(todo[i]) - 1
      /\ \A n \in DOMAIN todo'[i] :
            n + 1 \in DOMAIN todo[i] /\ todo'[i][n] = todo[i][n + 1]
      /\ \A n \in DOMAIN todo[i] \ {1} :
            n - 1 \in DOMAIN todo'[i] /\ todo'[i][n - 1] = todo[i][n]
      /\ UNCHANGED <<catalog, window, today, sort, pages, shown, facets, stage>>
      /\ stage = "merging"
  BY TakingOne
<1>2. Len(merged) \in Nat /\ Len(merged) + 1 \in DOMAIN merged'
  BY <1>1
<1>3. MergedState'
  <2>1. MergedState
    BY DEF MergeInv, TypeOK, MergedState
  <2> QED
    BY <1>1, <2>1, MergingOne
<1>4. TypeOK'
  BY <1>1, <1>3 DEF MergeInv, TypeOK, MergedState
<1>5. ListedOnce(catalog)'
  BY <1>1 DEF MergeInv, ListedOnce, SameShow, DedupeKey, Act
<1>6. \A p : ListedBy(p)' = ListedBy(p)
  BY <1>1 DEF ListedBy, DateFrom, DateTo, Friday, Weekday
<1>7. PagesAreSoonest'
  BY <1>1, <1>6 DEF MergeInv, PagesAreSoonest
<1>8. EventsAreMapped'
  <2>1. ASSUME NEW p \in DOMAIN Providers, NEW n \in DOMAIN todo'[p]
        PROVE  MappedFrom(todo'[p][n], pages[p])
    <3>1. CASE p = i
      BY <1>1, <2>1, <3>1 DEF MergeInv, EventsAreMapped
    <3>2. CASE p # i
      BY <1>1, <2>1, <3>2 DEF MergeInv, EventsAreMapped
    <3> QED
      BY <3>1, <3>2
  <2>2. ASSUME NEW n \in DOMAIN merged'
        PROVE  \E p \in DOMAIN Providers : MappedFrom(merged'[n], pages[p])
    <3>1. CASE n \in DOMAIN merged
      BY <1>1, <3>1 DEF MergeInv, EventsAreMapped
    <3>2. CASE n = Len(merged) + 1
      BY <1>1, <3>2 DEF MergeInv, EventsAreMapped
    <3> QED
      BY <1>1, <1>2, <2>2, <3>1, <3>2
  <2> QED
    BY <1>1, <2>1, <2>2 DEF EventsAreMapped
<1>9. NoneIsLost'
  <2> SUFFICES ASSUME NEW p \in DOMAIN Providers, NEW m \in DOMAIN pages[p],
                      Good(pages[p][m])
               PROVE  \/ \E n \in DOMAIN todo'[p] :
                            todo'[p][n] = MapEvent(pages[p][m])
                      \/ \E n \in DOMAIN merged' :
                            merged'[n] = MapEvent(pages[p][m])
    BY <1>1 DEF NoneIsLost
  <2>1. CASE \E n \in DOMAIN merged : merged[n] = MapEvent(pages[p][m])
    BY <1>1, <2>1
  <2>2. CASE \E n \in DOMAIN todo[p] : todo[p][n] = MapEvent(pages[p][m])
    <3>1. PICK n \in DOMAIN todo[p] : todo[p][n] = MapEvent(pages[p][m])
      BY <2>2
    <3>2. CASE p # i
      BY <1>1, <3>1, <3>2
    <3>3. CASE p = i /\ n = 1
      BY <1>1, <1>2, <3>1, <3>3
    <3>4. CASE p = i /\ n # 1
      BY <1>1, <3>1, <3>4
    <3> QED
      BY <3>2, <3>3, <3>4
  <2> QED
    BY <2>1, <2>2 DEF MergeInv, NoneIsLost
<1>10. NoMoreThanAPage'
  <2> SUFFICES ASSUME NEW p \in DOMAIN Providers,
                      \A q \in DOMAIN Providers \ {p} : pages[q] = <<>>
               PROVE  Len(merged') + Len(todo'[p]) <= Len(pages[p])
    BY <1>1 DEF NoMoreThanAPage
  <2>1. p = i
    <3>1. MappedFrom(todo[i][1], pages[i])
      BY <1>1 DEF MergeInv, EventsAreMapped
    <3>2. pages[i] # <<>>
      BY <3>1 DEF MappedFrom, Kept
    <3> QED
      BY <3>2
  <2>2. Len(merged) + Len(todo[i]) <= Len(pages[i])
    BY <2>1 DEF MergeInv, NoMoreThanAPage
  <2> QED
    BY <1>1, <1>2, <2>1, <2>2
<1>11. ShownIsCut'
  BY <1>1 DEF MergeInv, ShownIsCut
<1> QED
  BY <1>3, <1>4, <1>5, <1>7, <1>8, <1>9, <1>10, <1>11 DEF MergeInv, MergedState

(***************************************************************************)
(* The other steps, and every step.                                        *)
(***************************************************************************)
StaysMerged == UNCHANGED <<catalog, window, today, sort, pages, todo, merged, best>>

\* The parts about the loop do not depend on the answer.
LEMMA RestKeeps ==
  ASSUME MergeInv, StaysMerged, TypeOK', ShownIsCut'
  PROVE  MergeInv'
<1> USE DEF MergeInv, StaysMerged
<1>1. ListedOnce(catalog)'
  BY DEF ListedOnce, SameShow, DedupeKey, Act
<1>2. \A p : ListedBy(p)' = ListedBy(p)
  BY DEF ListedBy, DateFrom, DateTo, Friday, Weekday
<1>3. PagesAreSoonest'
  BY <1>2 DEF PagesAreSoonest
<1>4. EventsAreMapped' /\ NoneIsLost' /\ NoMoreThanAPage'
  BY DEF EventsAreMapped, NoneIsLost, NoMoreThanAPage
<1>5. RichestOfEachShow' /\ ShowsHaveAFirst'
  BY DEF RichestOfEachShow, ShowsHaveAFirst, RichestOfShow, SeenBefore, FirstOfShow
<1> QED
  BY <1>1, <1>3, <1>4, <1>5

LEMMA SortIsTheSame ==
  ASSUME StaysMerged, NEW s
  PROVE  Shown(s)' = Shown(s) /\ Facets(s)' = Facets(s)
<1>1. sort' = sort
  BY DEF StaysMerged
<1>2. Sorted(s)' = Sorted(s)
  BY <1>1 DEF Sorted, Rank, Less, SortKey
<1> QED
  BY <1>2 DEF Shown, Facets, FirstN, AllGenres

\* Every step keeps the search consistent.
LEMMA MergeNext == MergeInv /\ [Next]_vars => MergeInv'
<1> SUFFICES ASSUME MergeInv, [Next]_vars PROVE MergeInv'
  OBVIOUS
<1>1. CASE \E i \in DOMAIN Providers : MergeOne(i)
  BY <1>1, MergeOneKeeps
<1>2. CASE RankAndCut
  <2>1. /\ StaysMerged /\ AllMerged /\ stage' = "answered"
        /\ ~SomeUnmeasurable
        /\ shown' = Shown(best) /\ facets' = Facets(best)
    BY <1>2 DEF RankAndCut, StaysMerged, request
  <2>2. best \in Seq(Event)
    BY DEF MergeInv, TypeOK
  <2>3. /\ Shown(best) \in Seq(Event) /\ Len(Shown(best)) <= Limit
        /\ Facets(best) \in [AllGenres -> Nat]
    BY <2>2, ShownFacts, FacetsType
  <2>4. TypeOK'
    BY <2>1, <2>3 DEF MergeInv, TypeOK, StaysMerged
  <2>5. ShownIsCut'
    BY <2>1, SortIsTheSame DEF ShownIsCut, AllMerged, SomeUnmeasurable, StaysMerged
  <2> QED
    BY <2>1, <2>4, <2>5, RestKeeps
<1>3. CASE EnrichRaises \/ SortRaises
  <2>1. StaysMerged /\ stage' = "error" /\ UNCHANGED <<shown, facets>>
    BY <1>3 DEF EnrichRaises, SortRaises, StaysMerged, request
  <2>2. shown = <<>>
    BY <1>3 DEF MergeInv, ShownIsCut, EnrichRaises, SortRaises
  <2>3. TypeOK' /\ ShownIsCut'
    BY <2>1, <2>2 DEF MergeInv, TypeOK, ShownIsCut, StaysMerged
  <2> QED
    BY <2>1, <2>3, RestKeeps
<1>4. CASE UNCHANGED vars
  <2>1. StaysMerged /\ UNCHANGED <<shown, facets, stage>>
    BY <1>4 DEF vars, request, StaysMerged
  <2>2. TypeOK'
    BY <2>1 DEF MergeInv, TypeOK, StaysMerged
  <2>3. ShownIsCut'
    BY <2>1, SortIsTheSame
       DEF MergeInv, ShownIsCut, AllMerged, SomeUnmeasurable, StaysMerged
  <2> QED
    BY <2>1, <2>2, <2>3, RestKeeps
<1> QED
  BY <1>1, <1>2, <1>3, <1>4 DEF Next

(***************************************************************************)
(* A search is consistent at every step, whatever providers send: the list *)
(* comes from soonest pages, no good record of them is lost, the dict has  *)
(* the first richest record of each show, and what is shown is its cut.    *)
(***************************************************************************)
THEOREM MergingIsConsistent == Spec => []MergeInv
  BY MergeInit, MergeNext, PTL DEF Spec
-----------------------------------------------------------------------------
(***************************************************************************)
(* The variables of a search keep their types, for any providers, records  *)
(* and limits.                                                             *)
(***************************************************************************)
THEOREM MergingTypeCorrect == Spec => []TypeOK
<1>1. MergeInv => TypeOK
  BY DEF MergeInv
<1> QED
  BY <1>1, MergingIsConsistent, PTL

(***************************************************************************)
(* Whatever the providers list, each show is kept once, as its first       *)
(* richest record.                                                         *)
(***************************************************************************)
THEOREM RichestIsKept == Spec => []RichestOfEachShow
<1>1. MergeInv => RichestOfEachShow
  BY DEF MergeInv
<1> QED
  BY <1>1, MergingIsConsistent, PTL

\* An event shown is in the dict, at its place in the sorted list.
LEMMA WhatIsShown ==
  ASSUME MergeInv
  PROVE  /\ best \in Seq(Event) /\ Len(best) \in Nat
         /\ DOMAIN shown = 1..Len(shown) /\ Len(shown) \in Nat
         /\ shown \in Seq(Event)
         /\ Len(shown) # 0 => stage = "answered"
         /\ stage = "answered" =>
               /\ Len(shown) = IF Len(best) < Limit THEN Len(best) ELSE Limit
               /\ \A n \in 1..Len(shown) :
                     n \in 1..Len(best) /\ shown[n] = Sorted(best)[n]
         /\ \A n \in 1..Len(shown) :
               \E k \in 1..Len(best) : shown[n] = best[k]
<1>1. best \in Seq(Event) /\ shown \in Seq(Event)
  BY DEF MergeInv, TypeOK
<1>2. /\ Len(best) \in Nat
      /\ DOMAIN shown = 1..Len(shown) /\ Len(shown) \in Nat
  BY <1>1
<1>3. ASSUME stage = "answered"
      PROVE  /\ Len(shown) = IF Len(best) < Limit THEN Len(best) ELSE Limit
             /\ \A n \in 1..Len(shown) :
                   n \in 1..Len(best) /\ shown[n] = Sorted(best)[n]
  <2>1. shown = Shown(best)
    BY <1>3 DEF MergeInv, ShownIsCut
  <2> QED
    BY <1>1, <2>1, ShownFacts
<1>4. stage # "answered" => shown = <<>>
  BY DEF MergeInv, ShownIsCut
<1>5. ASSUME NEW n \in 1..Len(shown)
      PROVE  \E k \in 1..Len(best) : shown[n] = best[k]
  <2>1. stage = "answered"
    BY <1>4, <1>5
  <2>2. n \in 1..Len(best) /\ shown[n] = Sorted(best)[n]
    BY <1>3, <2>1
  <2>3. /\ Place(best, n) \in 1..Len(best)
        /\ Sorted(best)[n] = best[Place(best, n)]
    BY <1>1, <2>2, SortedFacts
  <2> QED
    BY <2>2, <2>3
<1> QED
  BY <1>1, <1>2, <1>3, <1>4, <1>5

\* An event of the dict is a good record of a page.
LEMMA BestAreMapped ==
  ASSUME MergeInv, NEW k \in 1..Len(best)
  PROVE  \E p \in DOMAIN Providers : \E m \in Kept(pages[p]) :
            /\ best[k] = MapEvent(pages[p][m])
            /\ Good(pages[p][m])
            /\ pages[p][m] \in ListedBy(Providers[p])
            /\ pages[p][m] \in catalog
            /\ pages[p][m] \in Universe
<1>1. k \in DOMAIN best
  BY DEF MergeInv, TypeOK
<1>2. PICK j \in DOMAIN merged : best[k] = merged[j]
  BY <1>1 DEF MergeInv, RichestOfEachShow
<1>3. PICK p \in DOMAIN Providers : MappedFrom(merged[j], pages[p])
  BY DEF MergeInv, EventsAreMapped
<1>4. PICK m \in Kept(pages[p]) : merged[j] = MapEvent(pages[p][m])
  BY <1>3 DEF MappedFrom
<1>5. m \in DOMAIN pages[p] /\ Good(pages[p][m])
  BY DEF Kept
<1>6. /\ pages[p] \in Seq(ListedBy(Providers[p]))
      /\ ListedBy(Providers[p]) \in SUBSET catalog
      /\ catalog \in SUBSET Universe
  BY PageFacts DEF MergeInv, TypeOK, PagesAreSoonest
<1>7. pages[p][m] \in ListedBy(Providers[p])
  BY <1>5, <1>6
<1> QED
  BY <1>2, <1>4, <1>5, <1>6, <1>7

\* A size label needs seats.
LEMMA NoLabelWithoutSeats ==
  ASSUME NEW e, e.seats \in Nat, Tags(e) \ {e.status} # {}
  PROVE  e.seats > 0
<1>1. SizeLabel(0) = ""
  BY DEF SizeLabel
<1>2. e.seats # 0
  <2> SUFFICES ASSUME e.seats = 0 PROVE FALSE
    OBVIOUS
  <2>1. SizeLabel(e.seats) = ""
    BY <1>1
  <2> QED
    BY <2>1 DEF Tags
<1> QED
  BY <1>2

(***************************************************************************)
(* Nothing shown is invented: each event is one record of one provider,    *)
(* whole, and within the window that was asked for, on any day.            *)
(***************************************************************************)
THEOREM ShownIsListed == Spec => []NothingInvented
<1>1. ASSUME MergeInv, NEW i \in DOMAIN shown
      PROVE  /\ Asked(shown[i].date)
             /\ \E raw \in catalog :
                   /\ shown[i] = MapEvent(raw)
                   /\ Distance(shown[i]) # NoDistance =>
                         raw.place \notin {NoPlace, NullIsland}
                   /\ Tags(shown[i]) \ {raw.status} # {} => raw.seats > 0
  <2>1. PICK k \in 1..Len(best) : shown[i] = best[k]
    BY <1>1, WhatIsShown
  <2>a. PICK p \in DOMAIN Providers : \E m \in Kept(pages[p]) :
           /\ best[k] = MapEvent(pages[p][m])
           /\ Good(pages[p][m])
           /\ pages[p][m] \in ListedBy(Providers[p])
           /\ pages[p][m] \in catalog
           /\ pages[p][m] \in Universe
    BY <1>1, BestAreMapped
  <2>2. PICK m \in Kept(pages[p]) :
           /\ best[k] = MapEvent(pages[p][m])
           /\ Good(pages[p][m])
           /\ pages[p][m] \in ListedBy(Providers[p])
           /\ pages[p][m] \in catalog
           /\ pages[p][m] \in Universe
    BY <2>a
  <2> DEFINE raw == pages[p][m]
  <2>3. /\ shown[i] = MapEvent(raw) /\ raw \in catalog /\ raw \in Universe
        /\ Good(raw) /\ raw \in ListedBy(Providers[p])
    BY <2>1, <2>2
  <2> HIDE DEF raw
  <2>4. /\ shown[i].date = raw.day /\ shown[i].place = raw.place
        /\ shown[i].seats = raw.seats /\ raw.seats \in Nat
        /\ shown[i].status = raw.status
    BY <2>3, EventFacts
  <2>5. Asked(raw.day)
    <3>1. raw.day \in 0..Endless /\ DateFrom <= raw.day /\ raw.day <= DateTo
      BY <2>3, RecordsTyped DEF Good, ListedBy
    <3>2. today \in Nat /\ window \in Windows
      BY <1>1 DEF MergeInv, TypeOK
    <3> QED
      BY <3>1, <3>2, WindowIsAsked
  <2>6. Distance(shown[i]) # NoDistance => raw.place \notin {NoPlace, NullIsland}
    BY <2>4 DEF Distance, HasPlace
  <2>7. Tags(shown[i]) \ {raw.status} # {} => raw.seats > 0
    BY <2>4, NoLabelWithoutSeats
  <2> QED
    BY <2>3, <2>4, <2>5, <2>6, <2>7
<1>2. MergeInv => NothingInvented
  BY <1>1 DEF NothingInvented
<1> QED
  BY <1>2, MergingIsConsistent, PTL

(***************************************************************************)
(* "Closest": whatever the distances, unknown places come last.  A place   *)
(* that cannot be measured ends the search before the list is made.        *)
(***************************************************************************)
THEOREM UnknownPlacesSink == Spec => []UnknownPlacesLast
<1>1. ASSUME MergeInv, sort = "distance", NEW i \in DOMAIN shown,
             NEW j \in DOMAIN shown, i < j, Unknown(shown[i])
      PROVE  Unknown(shown[j])
  <2>1. /\ best \in Seq(Event) /\ shown \in Seq(Event)
        /\ i \in 1..Len(best) /\ shown[i] = Sorted(best)[i]
        /\ j \in 1..Len(best) /\ shown[j] = Sorted(best)[j]
        /\ stage = "answered"
    <3>1. i \in 1..Len(shown) /\ j \in 1..Len(shown) /\ Len(shown) \in Nat
      BY <1>1, WhatIsShown
    <3>2. stage = "answered"
      <4>1. Len(shown) # 0
        BY <3>1
      <4> QED
        BY <1>1, <4>1, WhatIsShown
    <3> QED
      BY <1>1, <3>1, <3>2, WhatIsShown
  <2>2. shown[i] \in Event /\ shown[j] \in Event
    BY <1>1, <2>1
  <2>3. ~Less(shown[j], shown[i])
    BY <1>1, <2>1, SortedFacts
  <2>4. ~(SortKey(shown[j])[1] < SortKey(shown[i])[1])
    BY <2>2, <2>3, LessIsLexicographic
  <2>5. /\ SortKey(shown[i])[1] = 1
        /\ SortKey(shown[j])[1] =
              IF Unknown(shown[j]) \/ CannotMeasure(shown[j]) THEN 1 ELSE 0
    BY <1>1, <2>2, SortKeyType
  <2>6. ~CannotMeasure(shown[j])
    <3>1. PICK k \in 1..Len(best) : shown[j] = best[k]
      BY <1>1, WhatIsShown
    <3>2. k \in DOMAIN best
      BY <1>1, <3>1 DEF MergeInv, TypeOK
    <3> QED
      BY <1>1, <2>1, <3>1, <3>2 DEF MergeInv, ShownIsCut, SomeUnmeasurable
  <2> QED
    BY <2>4, <2>5, <2>6
<1>2. MergeInv => UnknownPlacesLast
  BY <1>1 DEF UnknownPlacesLast
<1> QED
  BY <1>2, MergingIsConsistent, PTL

\* main.py registers one provider: the whole catalogue may be its.
OneProvider == Cardinality({e.provider : e \in catalog}) <= 1

\* With one provider, the dict is no longer than the limit.
LEMMA OneProviderFitsTheList ==
  ASSUME MergeInv, OneProvider
  PROVE  Len(best) <= Limit
<1> DEFINE P == {e.provider : e \in catalog}
           f == [e \in catalog |-> e.provider]
<1>1. catalog \in SUBSET Universe /\ IsFiniteSet(catalog)
  BY UniverseFinite, FS_Subset DEF MergeInv, TypeOK
<1>2. IsFiniteSet(P)
  <2>1. f \in Surjection(catalog, P)
    BY DEF Surjection
  <2> QED
    BY <1>1, <2>1, FS_Surjection
<1>3. \A x, y \in P : x = y
  <2> TAKE x, y \in P
  <2> SUFFICES ASSUME x # y PROVE FALSE
    OBVIOUS
  <2>1. {x, y} \in SUBSET P
    OBVIOUS
  <2>2. Cardinality({x, y}) <= Cardinality(P)
    BY <1>2, <2>1, FS_Subset
  <2>3. Cardinality({x, y}) = 2
    <3>1. IsFiniteSet({x}) /\ Cardinality({x}) = 1
      BY FS_Singleton
    <3>2. Cardinality({x} \cup {y}) = Cardinality({x}) + 1
      BY <3>1, FS_AddElement
    <3>3. {x} \cup {y} = {x, y}
      OBVIOUS
    <3> QED
      BY <3>1, <3>2, <3>3
  <2>4. Cardinality(P) \in Nat /\ Cardinality(P) <= 1
    BY <1>2, FS_CardinalityType DEF OneProvider
  <2> QED
    BY <2>2, <2>3, <2>4
<1>4. \A p \in DOMAIN Providers :
         /\ pages[p] \in Seq(ListedBy(Providers[p]))
         /\ Len(pages[p]) \in Nat /\ Len(pages[p]) <= PerPage
         /\ pages[p] # <<>> => Providers[p] \in P
  <2> TAKE p \in DOMAIN Providers
  <2>1. /\ pages[p] \in Seq(ListedBy(Providers[p]))
        /\ Len(pages[p]) <= PerPage
    BY <1>1, PageFacts DEF MergeInv, PagesAreSoonest
  <2>2. ASSUME pages[p] # <<>>
        PROVE  Providers[p] \in P
    <3>1. pages[p][1] \in ListedBy(Providers[p])
      BY <2>1, <2>2
    <3> QED
      BY <3>1 DEF ListedBy
  <2> QED
    BY <2>1, <2>2
<1>5. PICK p \in DOMAIN Providers :
         \A q \in DOMAIN Providers \ {p} : pages[q] = <<>>
  <2>1. CASE \E p \in DOMAIN Providers : pages[p] # <<>>
    <3>1. PICK p \in DOMAIN Providers : pages[p] # <<>>
      BY <2>1
    <3>2. ASSUME NEW q \in DOMAIN Providers \ {p}
          PROVE  pages[q] = <<>>
      BY <1>3, <1>4, <3>1, ProvidersDiffer
    <3> QED
      BY <3>2
  <2>2. CASE \A p \in DOMAIN Providers : pages[p] = <<>>
    <3>1. 1 \in DOMAIN Providers
      BY ProvidersDiffer
    <3> QED
      BY <2>2, <3>1
  <2> QED
    BY <2>1, <2>2
<1>6. Len(merged) + Len(todo[p]) <= Len(pages[p])
  BY <1>5 DEF MergeInv, NoMoreThanAPage
<1>7. /\ Len(merged) \in Nat /\ Len(best) \in Nat /\ Len(todo[p]) \in Nat
      /\ Len(best) <= Len(merged)
  <2>1. merged \in Seq(Event) /\ best \in Seq(Event) /\ todo[p] \in Seq(Event)
    BY DEF MergeInv, TypeOK
  <2>2. Len(best) <= Len(merged)
    BY DEF MergeInv, TypeOK
  <2> QED
    BY <2>1, <2>2
<1>8. PerPage \in Nat /\ PerPage <= Limit
  BY DEF PerPage
<1> QED
  BY <1>4, <1>6, <1>7, <1>8

\* Sorting moves events and changes no count.
LEMMA SortingKeepsFacets ==
  ASSUME NEW s \in Seq(Event), NEW t \in Seq(Event), Len(t) = Len(s),
         \A n \in 1..Len(s) : t[n] = Sorted(s)[n]
  PROVE  Facets(t) = Facets(s)
<1>1. DOMAIN s = 1..Len(s) /\ DOMAIN t = 1..Len(s) /\ IsFiniteSet(DOMAIN s)
  BY KeptFacts
<1>2. /\ \A n \in 1..Len(s) : Place(s, n) \in 1..Len(s) /\ t[n] = s[Place(s, n)]
      /\ \A m, n \in 1..Len(s) : Place(s, m) = Place(s, n) => m = n
      /\ \A i \in 1..Len(s) : \E n \in 1..Len(s) : Place(s, n) = i
  BY SortedFacts
<1>3. ASSUME NEW g
      PROVE  Cardinality({i \in DOMAIN t : g \in t[i].genres}) =
             Cardinality({i \in DOMAIN s : g \in s[i].genres})
  <2> DEFINE A == {i \in DOMAIN t : g \in t[i].genres}
             B == {i \in DOMAIN s : g \in s[i].genres}
             f == [n \in A |-> Place(s, n)]
  <2>1. A \in SUBSET (1..Len(s)) /\ B \in SUBSET (1..Len(s))
    BY <1>1
  <2>2. \A n \in A : Place(s, n) \in B
    BY <1>1, <1>2
  <2>3. \A i \in B : \E n \in A : Place(s, n) = i
    <3> TAKE i \in B
    <3>1. PICK n \in 1..Len(s) : Place(s, n) = i
      BY <1>2, <2>1
    <3>2. n \in A
      BY <1>1, <1>2, <3>1
    <3> QED
      BY <3>1, <3>2
  <2>4. IsFiniteSet(A)
    BY <1>1, FS_Subset
  <2> HIDE DEF A, B
  <2>5. \A m, n \in A : f[m] = f[n] => m = n
    BY <1>2, <2>1
  <2>6. f \in [A -> B]
    BY <2>2
  <2>7. f \in Injection(A, B)
    BY <2>5, <2>6 DEF Injection, IsInjective
  <2>8. f \in Surjection(A, B)
    BY <2>3, <2>6 DEF Surjection
  <2>9. f \in Bijection(A, B)
    BY <2>7, <2>8 DEF Bijection
  <2>10. ExistsBijection(A, B)
    BY <2>9 DEF ExistsBijection
  <2>11. Cardinality(B) = Cardinality(A)
    BY <2>4, <2>10, FS_Bijection
  <2> QED
    BY <2>11 DEF A, B
<1> QED
  BY <1>3 DEF Facets

(***************************************************************************)
(* The genre counts are those of the events shown, when one provider has   *)
(* all the events, whatever their number.                                  *)
(***************************************************************************)
THEOREM FacetsAreOfTheList == Spec => []FacetsMatchShown
<1>1. ASSUME MergeInv, stage = "answered", OneProvider
      PROVE  facets = Facets(shown)
  <2>1. /\ best \in Seq(Event) /\ shown \in Seq(Event) /\ Len(best) \in Nat
        /\ Len(shown) = IF Len(best) < Limit THEN Len(best) ELSE Limit
        /\ \A n \in 1..Len(shown) : shown[n] = Sorted(best)[n]
    BY <1>1, WhatIsShown
  <2>2. Len(best) <= Limit
    BY <1>1, OneProviderFitsTheList
  <2>3. Len(shown) = Len(best)
    BY <2>1, <2>2
  <2>4. Facets(shown) = Facets(best)
    BY <2>1, <2>3, SortingKeepsFacets
  <2>5. facets = Facets(best)
    BY <1>1 DEF MergeInv, ShownIsCut
  <2> QED
    BY <2>4, <2>5
<1>2. MergeInv => FacetsMatchShown
  BY <1>1 DEF FacetsMatchShown, OneProvider
<1> QED
  BY <1>2, MergingIsConsistent, PTL
-----------------------------------------------------------------------------
(***************************************************************************)
(* The two cuts.  A show that falls out at the end has a full list before  *)
(* it; one that falls out of its provider's page leaves a full page of     *)
(* sooner records, whose good ones are different shows and are shown       *)
(* themselves, or fall out at the end in turn.                             *)
(***************************************************************************)
Sooner(d) == {i \in DOMAIN shown : shown[i].date <= d}

AnsweredByDate == stage = "answered" /\ sort = "date"

LEMMA BestAreInTheOrder ==
  ASSUME MergeInv, AnsweredByDate, NEW k \in 1..Len(best)
  PROVE  /\ Sorted(best)[k] \in Event
         /\ \A n \in 1..Len(best) : n < k =>
               Sorted(best)[n].date <= Sorted(best)[k].date
<1>1. best \in Seq(Event) /\ Len(best) \in Nat
  BY WhatIsShown
<1>2. \A n \in 1..Len(best) : Sorted(best)[n] \in Event
  <2>1. Sorted(best) \in Seq(Event) /\ Len(Sorted(best)) = Len(best)
    BY <1>1, SortedFacts
  <2> HIDE DEF MergeInv
  <2> QED
    BY <2>1
<1>3. ASSUME NEW n \in 1..Len(best), n < k
      PROVE  Sorted(best)[n].date <= Sorted(best)[k].date
  <2>1. ~Less(Sorted(best)[k], Sorted(best)[n])
    BY <1>1, <1>3, SortedFacts
  <2>2. ~(SortKey(Sorted(best)[k])[1] < SortKey(Sorted(best)[n])[1])
    BY <1>2, <2>1, LessIsLexicographic
  <2>3. /\ SortKey(Sorted(best)[k])[1] = Sorted(best)[k].date
        /\ SortKey(Sorted(best)[k])[1] \in Int
        /\ SortKey(Sorted(best)[n])[1] = Sorted(best)[n].date
        /\ SortKey(Sorted(best)[n])[1] \in Int
    BY <1>2, SortKeyType DEF AnsweredByDate
  <2> QED
    BY <2>2, <2>3
<1> QED
  BY <1>2, <1>3

\* A show that falls out at the last cut has a full list before it.
LEMMA CutOffMeansFull ==
  ASSUME MergeInv, AnsweredByDate, NEW d \in Int, NEW k \in 1..Len(best),
         Sorted(best)[k].date <= d, k \notin DOMAIN shown
  PROVE  Cardinality(Sooner(d)) = Limit
<1>1. /\ DOMAIN shown = 1..Len(shown) /\ Len(best) \in Nat
      /\ Len(shown) = IF Len(best) < Limit THEN Len(best) ELSE Limit
      /\ \A n \in 1..Len(shown) :
            n \in 1..Len(best) /\ shown[n] = Sorted(best)[n]
  BY WhatIsShown DEF AnsweredByDate
<1>2. Len(shown) = Limit /\ k > Limit
  BY <1>1
<1>3. ASSUME NEW n \in 1..Limit
      PROVE  shown[n].date <= d
  <2>1. n \in 1..Len(best) /\ n < k /\ shown[n] = Sorted(best)[n]
    BY <1>1, <1>2
  <2>2. Sorted(best)[n].date <= Sorted(best)[k].date
    BY <2>1, BestAreInTheOrder
  <2>3. Sorted(best)[n] \in Event /\ Sorted(best)[k] \in Event
    BY <2>1, BestAreInTheOrder
  <2>4. Sorted(best)[n].date \in Int /\ Sorted(best)[k].date \in Int
    BY <2>3, EventFacts DEF Event
  <2> QED
    BY <2>1, <2>2, <2>4
<1>4. Sooner(d) = 1..Limit
  BY <1>1, <1>2, <1>3 DEF Sooner
<1>5. Cardinality(1..Limit) = Limit
  <2>1. 1 \in Int /\ Limit \in Int
    OBVIOUS
  <2>2. Cardinality(1..Limit) = IF 1 > Limit THEN 0 ELSE Limit - 1 + 1
    BY <2>1, FS_Interval
  <2> QED
    BY <2>2
<1> QED
  BY <1>4, <1>5

\* Every good record of a page has its show in the sorted list.
LEMMA GoodRecordsAreRanked ==
  ASSUME MergeInv, AnsweredByDate, NEW p \in DOMAIN Providers,
         NEW m \in Kept(pages[p])
  PROVE  \E k \in 1..Len(best) :
            /\ SameShow(Sorted(best)[k], MapEvent(pages[p][m]))
            /\ Sorted(best)[k].date = pages[p][m].day
<1> DEFINE e == MapEvent(pages[p][m])
<1>1. best \in Seq(Event) /\ DOMAIN best = 1..Len(best)
  <2>1. best \in Seq(Event)
    BY DEF MergeInv, TypeOK
  <2> HIDE DEF MergeInv
  <2> QED
    BY <2>1
<1>2. PICK n \in DOMAIN merged : merged[n] = e
  <2>1. todo[p] = <<>>
    BY DEF MergeInv, ShownIsCut, AllMerged, AnsweredByDate
  <2> QED
    BY <2>1 DEF MergeInv, NoneIsLost, Kept
<1>3. PICK j \in DOMAIN best : SameShow(best[j], e)
  BY <1>2 DEF MergeInv, RichestOfEachShow
<1>4. PICK k \in 1..Len(best) : Place(best, k) = j
  BY <1>1, <1>3, SortedFacts
<1>5. Sorted(best)[k] = best[j]
  BY <1>1, <1>4, SortedFacts
<1>6. best[j].date = e.date
  BY <1>3 DEF SameShow, DedupeKey
<1>7. e.date = pages[p][m].day
  BY DEF MapEvent
<1> QED
  BY <1>3, <1>5, <1>6, <1>7

\* A good record that its page leaves out has a full page before it.
LEMMA PageIsFull ==
  ASSUME MergeInv, Limit <= MaxPage, NEW p \in DOMAIN Providers,
         NEW raw \in ListedBy(Providers[p]),
         \A m \in DOMAIN pages[p] : pages[p][m] # raw
  PROVE  Len(pages[p]) = Limit
<1> DEFINE S == ListedBy(Providers[p])
           page == pages[p]
<1>1. page \in SoonestOf(S)
  BY DEF MergeInv, PagesAreSoonest
<1>2. /\ IsFiniteSet(S) /\ Cardinality(S) \in Nat
      /\ page \in Seq(S) /\ Len(page) = SizeOfPage(S)
      /\ DOMAIN page = 1..Len(page) /\ Len(page) \in Nat
  BY <1>1, PageFacts DEF MergeInv, TypeOK
<1>3. \A m, n \in DOMAIN page : m < n => page[m] # page[n]
  BY <1>1 DEF SoonestOf
<1> HIDE DEF S, page
<1>4. IsFiniteSet(S \ {raw}) /\ Cardinality(S \ {raw}) = Cardinality(S) - 1
  <2>1. raw \in S
    BY DEF S
  <2> QED
    BY <1>2, <2>1, FS_RemoveElement
<1>5. page \in [1..Len(page) -> S \ {raw}]
  BY <1>2 DEF page
<1>6. \A m, n \in 1..Len(page) : page[m] = page[n] => m = n
  BY <1>2, <1>3
<1>7. page \in Injection(1..Len(page), S \ {raw})
  BY <1>5, <1>6 DEF Injection, IsInjective
<1>8. Cardinality(1..Len(page)) <= Cardinality(S) - 1
  BY <1>4, <1>7, FS_Injection
<1>9. Cardinality(1..Len(page)) = Len(page)
  BY <1>2, KeptFacts
<1>10. Len(page) # Cardinality(S)
  BY <1>2, <1>8, <1>9
<1>11. Len(page) = PerPage
  BY <1>2, <1>10 DEF SizeOfPage
<1>12. PerPage = Limit
  BY DEF PerPage
<1> QED
  BY <1>11, <1>12 DEF page

\* A full page of records that are sooner gives a full list of shows, less
\* its bad records.
LEMMA SoonerPage ==
  ASSUME MergeInv, AnsweredByDate, NEW p \in DOMAIN Providers,
         Len(pages[p]) = Limit, NEW d \in Int,
         \A m \in Kept(pages[p]) : pages[p][m].day <= d
  PROVE  Cardinality(Sooner(d)) >= Limit - Bad(pages[p])
<1> DEFINE page == pages[p]
           K == Kept(page)
<1>1. /\ page \in Seq(catalog) /\ page \in SoonestOf(ListedBy(Providers[p]))
      /\ page \in Seq(ListedBy(Providers[p]))
  BY PageFacts DEF MergeInv, TypeOK, PagesAreSoonest
<1>2. /\ K \in SUBSET DOMAIN page
      /\ Cardinality(K) = Limit - Bad(page) /\ Bad(page) \in Nat
      /\ DOMAIN page = 1..Len(page)
  BY <1>1, KeptFacts
<1>3. /\ DOMAIN shown = 1..Len(shown) /\ IsFiniteSet(DOMAIN shown)
      /\ \A n \in DOMAIN shown : shown[n] = Sorted(best)[n]
  <2>1. shown \in Seq(Event)
    BY WhatIsShown
  <2>2. DOMAIN shown = 1..Len(shown) /\ IsFiniteSet(DOMAIN shown)
    BY <2>1, KeptFacts
  <2>3. \A n \in 1..Len(shown) : shown[n] = Sorted(best)[n]
    BY WhatIsShown DEF AnsweredByDate
  <2> QED
    BY <2>2, <2>3
<1>4. /\ Sooner(d) \in SUBSET DOMAIN shown
      /\ IsFiniteSet(Sooner(d)) /\ Cardinality(Sooner(d)) \in Nat
  BY <1>3, FS_Subset, FS_CardinalityType DEF Sooner
<1>5. CASE Cardinality(Sooner(d)) = Limit
  BY <1>2, <1>5
<1>6. CASE Cardinality(Sooner(d)) # Limit
  <2>1. ASSUME NEW m \in K
        PROVE  \E k \in Sooner(d) : SameShow(shown[k], MapEvent(page[m]))
    <3>1. PICK k \in 1..Len(best) :
             /\ SameShow(Sorted(best)[k], MapEvent(page[m]))
             /\ Sorted(best)[k].date = page[m].day
      BY <2>1, GoodRecordsAreRanked
    <3>2. Sorted(best)[k].date <= d
      BY <2>1, <3>1
    <3>3. k \in DOMAIN shown
      BY <1>6, <3>2, CutOffMeansFull
    <3> QED
      BY <1>3, <3>1, <3>2, <3>3 DEF Sooner
  <2> DEFINE g == [m \in K |-> CHOOSE k \in Sooner(d) :
                                  SameShow(shown[k], MapEvent(page[m]))]
  <2>2. \A m \in K : g[m] \in Sooner(d) /\ SameShow(shown[g[m]], MapEvent(page[m]))
    BY <2>1
  <2>3. g \in [K -> Sooner(d)]
    BY <2>1
  <2> HIDE DEF g, page, K
  <2>4. ASSUME NEW m \in K, NEW n \in K, g[m] = g[n]
        PROVE  m = n
    <3>1. SameShow(MapEvent(page[m]), MapEvent(page[n]))
      BY <2>2, <2>4 DEF SameShow
    <3>2. /\ page[m] \in catalog /\ page[n] \in catalog
          /\ page[m] \in ListedBy(Providers[p])
          /\ page[n] \in ListedBy(Providers[p])
          /\ m \in 1..Len(page) /\ n \in 1..Len(page)
      BY <1>1, <1>2
    <3>3. page[m].provider = page[n].provider
      BY <3>2 DEF ListedBy
    <3>4. page[m] = page[n]
      BY <3>1, <3>2, <3>3 DEF MergeInv, ListedOnce
    <3>5. \A i, j \in DOMAIN page : i < j => page[i] # page[j]
      BY <1>1 DEF SoonestOf
    <3>6. m \in DOMAIN page /\ n \in DOMAIN page /\ m \in Nat /\ n \in Nat
      BY <1>2, <3>2
    <3> QED
      BY <3>4, <3>5, <3>6
  <2>5. g \in Injection(K, Sooner(d))
    BY <2>3, <2>4 DEF Injection, IsInjective
  <2>6. Cardinality(K) <= Cardinality(Sooner(d))
    BY <1>4, <2>5, FS_Injection
  <2> QED
    BY <1>2, <1>4, <2>6 DEF page
<1> QED
  BY <1>5, <1>6

(***************************************************************************)
(* "Soonest" is soonest of all: however many providers send one page each, *)
(* a show of the window that is left out has a full list before it, but    *)
(* for the places that bad records of its provider take.                   *)
(***************************************************************************)
THEOREM SoonestAreShown == Spec => []SoonestShown
<1>1. ASSUME MergeInv, AnsweredByDate, Limit <= MaxPage,
             NEW p \in DOMAIN Providers, NEW raw \in catalog,
             raw.provider = Providers[p], Good(raw), Asked(raw.day)
      PROVE  \/ \E i \in DOMAIN shown : SameShow(shown[i], MapEvent(raw))
             \/ Cardinality(Sooner(raw.day)) >= Limit - Bad(pages[p])
  <2>1. raw \in Universe /\ raw.day \in 0..Endless /\ raw.day # NoDay
    BY <1>1, RecordsTyped DEF MergeInv, TypeOK, Good
  <2>2. DateFrom <= raw.day /\ raw.day <= DateTo
    <3>1. today \in Nat /\ window \in Windows
      BY <1>1 DEF MergeInv, TypeOK
    <3> QED
      BY <1>1, <2>1, <3>1, WindowIsAsked
  <2>3. raw \in ListedBy(Providers[p])
    BY <1>1, <2>2 DEF ListedBy
  <2>4. /\ pages[p] \in SoonestOf(ListedBy(Providers[p]))
        /\ pages[p] \in Seq(Universe)
    BY <1>1, PageFacts DEF MergeInv, TypeOK, PagesAreSoonest
  <2>5. CASE \E m \in DOMAIN pages[p] : pages[p][m] = raw
    <3>1. PICK m \in DOMAIN pages[p] : pages[p][m] = raw
      BY <2>5
    <3>2. m \in Kept(pages[p])
      BY <1>1, <3>1 DEF Kept
    <3>3. PICK k \in 1..Len(best) :
             /\ SameShow(Sorted(best)[k], MapEvent(pages[p][m]))
             /\ Sorted(best)[k].date = pages[p][m].day
      BY <1>1, <3>2, GoodRecordsAreRanked
    <3>4. CASE k \in DOMAIN shown
      <4>1. shown[k] = Sorted(best)[k]
        BY <1>1, <3>4, WhatIsShown DEF AnsweredByDate
      <4> QED
        BY <3>1, <3>3, <3>4, <4>1
    <3>5. CASE k \notin DOMAIN shown
      <4>1. raw.day \in Int /\ Sorted(best)[k].date <= raw.day
        BY <2>1, <3>1, <3>3
      <4>2. Cardinality(Sooner(raw.day)) = Limit
        BY <1>1, <3>5, <4>1, CutOffMeansFull
      <4>3. Bad(pages[p]) \in Nat
        BY <2>4, KeptFacts
      <4> QED
        BY <4>2, <4>3
    <3> QED
      BY <3>4, <3>5
  <2>6. CASE \A m \in DOMAIN pages[p] : pages[p][m] # raw
    <3>1. Len(pages[p]) = Limit
      BY <1>1, <2>3, <2>6, PageIsFull
    <3>2. \A m \in DOMAIN pages[p] : NotAfter(pages[p][m], raw)
      BY <2>3, <2>4, <2>6 DEF SoonestOf
    <3>3. \A m \in Kept(pages[p]) : pages[p][m].day <= raw.day
      BY <2>1, <3>2 DEF Kept, Good, NotAfter
    <3>4. raw.day \in Int
      BY <2>1
    <3> QED
      BY <1>1, <3>1, <3>3, <3>4, SoonerPage
  <2> QED
    BY <2>5, <2>6
<1>2. MergeInv => SoonestShown
  BY <1>1 DEF SoonestShown, AnsweredByDate, Sooner
<1> QED
  BY <1>2, MergingIsConsistent, PTL
-----------------------------------------------------------------------------
(***************************************************************************)
(* What fails a search once its pages are there (jambase/mapper.py:4 says  *)
(* that no record does), for any catalogue: a listed record whose distance *)
(* cannot be computed, or, when the soonest are asked for, two of one day  *)
(* of which one start kept its zone.  Every other record is mapped, merged *)
(* and shown, or dropped.                                                  *)
(***************************************************************************)
THEOREM OnlyTheseFailASearch == Spec => []ErrorsHaveACause
<1>1. ASSUME MergeInv, NEW k \in DOMAIN best
      PROVE  \E raw \in Universe : best[k] = MapEvent(raw) /\ Listed(raw)
  <2>1. k \in 1..Len(best)
    BY <1>1 DEF MergeInv, TypeOK
  <2>2. PICK p \in DOMAIN Providers : \E m \in Kept(pages[p]) :
           /\ best[k] = MapEvent(pages[p][m])
           /\ Good(pages[p][m])
           /\ pages[p][m] \in ListedBy(Providers[p])
           /\ pages[p][m] \in catalog
           /\ pages[p][m] \in Universe
    BY <1>1, <2>1, BestAreMapped
  <2>3. PICK raw \in Universe : /\ best[k] = MapEvent(raw)
                                /\ Good(raw) /\ raw \in catalog
                                /\ raw \in ListedBy(Providers[p])
    BY <2>2
  <2>4. /\ raw.day \in 0..Endless
        /\ DateFrom <= raw.day /\ raw.day <= DateTo
    BY <2>3, RecordsTyped DEF Good, ListedBy
  <2>5. today \in Nat /\ window \in Windows
    BY <1>1 DEF MergeInv, TypeOK
  <2>6. Asked(raw.day)
    BY <2>4, <2>5, WindowIsAsked
  <2> QED
    BY <2>3, <2>6 DEF Listed
<1>2. MergeInv /\ EnrichRaises => ErrorsHaveACause'
  <2> SUFFICES ASSUME MergeInv, EnrichRaises PROVE ErrorsHaveACause'
    OBVIOUS
  <2>1. PICK k \in DOMAIN best : CannotMeasure(best[k])
    BY DEF EnrichRaises, SomeUnmeasurable
  <2>2. PICK raw \in Universe : best[k] = MapEvent(raw) /\ Listed(raw)
    BY <1>1, <2>1
  <2>3. raw.place = Unmeasurable
    BY <2>1, <2>2, EventFacts DEF CannotMeasure
  <2> QED
    BY <2>2, <2>3 DEF ErrorsHaveACause, EnrichRaises, request, Listed, Asked
<1>3. MergeInv /\ SortRaises => ErrorsHaveACause'
  <2> SUFFICES ASSUME MergeInv, SortRaises PROVE ErrorsHaveACause'
    OBVIOUS
  <2>1. PICK i \in DOMAIN best, j \in DOMAIN best :
           best[i].date = best[j].date /\ Zoned(best[i]) /\ ~Zoned(best[j])
    BY DEF SortRaises, CannotCompare, Zoned
  <2>2. PICK a \in Universe : best[i] = MapEvent(a) /\ Listed(a)
    BY <1>1
  <2>3. PICK b \in Universe : best[j] = MapEvent(b) /\ Listed(b)
    BY <1>1
  <2>4. a.day = b.day /\ a.form = "minutesZ" /\ b.form # "minutesZ"
    BY <2>1, <2>2, <2>3, EventFacts DEF Zoned
  <2>5. sort = "date"
    BY DEF SortRaises
  <2> QED
    BY <2>2, <2>3, <2>4, <2>5
       DEF ErrorsHaveACause, SortRaises, request, Listed, Asked
<1>4. MergeInv /\ ErrorsHaveACause /\ [Next]_vars => ErrorsHaveACause'
  <2> SUFFICES ASSUME MergeInv, ErrorsHaveACause, [Next]_vars
               PROVE  ErrorsHaveACause'
    OBVIOUS
  <2>1. CASE \E i \in DOMAIN Providers : MergeOne(i)
    BY <2>1 DEF MergeOne, ErrorsHaveACause
  <2>2. CASE RankAndCut
    BY <2>2 DEF RankAndCut, ErrorsHaveACause
  <2>3. CASE UNCHANGED vars
    BY <2>3 DEF vars, request, ErrorsHaveACause, Listed, Asked
  <2> QED
    BY <1>2, <1>3, <2>1, <2>2, <2>3 DEF Next
<1>5. Init => ErrorsHaveACause
  BY DEF Init, ErrorsHaveACause
<1> QED
  BY <1>4, <1>5, MergingIsConsistent, PTL DEF Spec
=============================================================================
