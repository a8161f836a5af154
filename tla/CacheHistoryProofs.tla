------------------------- MODULE CacheHistoryProofs -------------------------
(***************************************************************************)
(* Theorems about the cache, for any keys and values, any number of        *)
(* entries and any TTL.                                                    *)
(***************************************************************************)
EXTENDS CacheHistory, SequenceTheorems, FiniteSetTheorems, TLAPS

USE TTLNat, MaxEntriesNat, HorizonNat

(***************************************************************************)
(* Where the entries of the dict are after a deletion: f tells where each  *)
(* one was.                                                                *)
(***************************************************************************)
Survivors(s, k, f) ==
    /\ f \in [1..Len(s) -> 1..Len(data)]
    /\ \A i, j \in 1..Len(s) : i < j => f[i] < f[j]
    /\ \A i \in 1..Len(s) : s[i] = data[f[i]] /\ s[i].key # k
    /\ \A j \in 1..Len(data) :
          data[j].key # k => \E i \in 1..Len(s) : f[i] = j

LEMMA RemoveOne ==
  ASSUME NEW E, NEW s \in Seq(E), NEW n \in 1..Len(s)
  PROVE  /\ RemoveAt(s, n) \in Seq(E)
         /\ Len(RemoveAt(s, n)) = Len(s) - 1
         /\ \A i \in 1..(Len(s) - 1) :
               RemoveAt(s, n)[i] = s[IF i < n THEN i ELSE i + 1]
<1> DEFINE a == SubSeq(s, 1, n - 1)
           b == SubSeq(s, n + 1, Len(s))
<1>1. Len(s) \in Nat /\ n \in Int /\ \A i \in 1..Len(s) : s[i] \in E
  BY LenProperties, ElementOfSeq
<1>2. /\ a \in Seq(E)
      /\ Len(a) = n - 1
      /\ \A i \in 1..(n - 1) : a[i] = s[i]
  <2>1. n - 1 \in Int /\ 1 \in Int /\ \A i \in 1..(n - 1) : s[i] \in E
    BY <1>1
  <2>2. /\ a \in Seq(E)
        /\ Len(a) = IF 1 <= n - 1 THEN n - 1 - 1 + 1 ELSE 0
        /\ \A i \in 1..(n - 1 - 1 + 1) : a[i] = s[1 + i - 1]
    BY <2>1, SubSeqProperties
  <2> QED
    BY <1>1, <2>2
<1>3. /\ b \in Seq(E)
      /\ Len(b) = Len(s) - n
      /\ \A i \in 1..(Len(s) - n) : b[i] = s[n + i]
  <2>1. n + 1 \in Int /\ Len(s) \in Int /\ \A i \in (n + 1)..Len(s) : s[i] \in E
    BY <1>1
  <2>2. /\ b \in Seq(E)
        /\ Len(b) = IF n + 1 <= Len(s) THEN Len(s) - (n + 1) + 1 ELSE 0
        /\ \A i \in 1..(Len(s) - (n + 1) + 1) : b[i] = s[n + 1 + i - 1]
    BY <2>1, SubSeqProperties
  <2> QED
    BY <1>1, <2>2
<1>4. RemoveAt(s, n) = a \o b
  BY DEF RemoveAt
<1> HIDE DEF a, b
<1>5. /\ a \o b \in Seq(E)
      /\ Len(a \o b) = Len(a) + Len(b)
      /\ \A i \in 1..(Len(a) + Len(b)) :
            (a \o b)[i] = IF i <= Len(a) THEN a[i] ELSE b[i - Len(a)]
  BY <1>2, <1>3, ConcatProperties
<1>6. ASSUME NEW i \in 1..(Len(s) - 1)
      PROVE  (a \o b)[i] = s[IF i < n THEN i ELSE i + 1]
  <2>1. CASE i < n
    BY <1>1, <1>2, <1>3, <1>5, <2>1
  <2>2. CASE ~(i < n)
    <3> DEFINE j == i - (n - 1)
    <3>1. j \in 1..(Len(s) - n) /\ ~(i <= n - 1) /\ n + j = i + 1
      BY <1>1, <2>2
    <3> HIDE DEF j
    <3>2. b[j] = s[i + 1]
      BY <1>3, <3>1
    <3>3. (a \o b)[i] = b[j]
      BY <1>1, <1>2, <1>3, <1>5, <3>1 DEF j
    <3> QED
      BY <2>2, <3>2, <3>3
  <2> QED
    BY <2>1, <2>2
<1> QED
  BY <1>1, <1>2, <1>3, <1>4, <1>5, <1>6

LEMMA IndexOfKey ==
  ASSUME NEW E, data \in Seq(E), NEW k, k \in Keys
  PROVE  /\ IndexOf(k) \in 1..Len(data)
         /\ data[IndexOf(k)].key = k
<1>1. DOMAIN data = 1..Len(data)
  BY LenProperties
<1>2. \E i \in DOMAIN data : data[i].key = k
  BY DEF Keys
<1> QED
  BY <1>1, <1>2 DEF IndexOf

LEMMA WithoutKey ==
  ASSUME NEW E, data \in Seq(E), OneEntryPerKey, NEW k
  PROVE  /\ Without(k) \in Seq(E)
         /\ Len(Without(k)) = IF k \in Keys THEN Len(data) - 1 ELSE Len(data)
         /\ \E f : Survivors(Without(k), k, f)
<1>1. Len(data) \in Nat /\ DOMAIN data = 1..Len(data)
  BY LenProperties
<1>2. CASE k \notin Keys
  <2>1. Without(k) = data
    BY <1>2 DEF Without
  <2>2. Survivors(data, k, [i \in 1..Len(data) |-> i])
    BY <1>1, <1>2 DEF Survivors, Keys
  <2> QED
    BY <1>2, <2>1, <2>2
<1>3. CASE k \in Keys
  <2> DEFINE n == IndexOf(k)
             s == Without(k)
  <2>1. n \in 1..Len(data) /\ data[n].key = k
    BY <1>3, IndexOfKey
  <2>2. s = RemoveAt(data, n)
    BY <1>3 DEF Without
  <2> HIDE DEF n, s
  <2>6. s \in Seq(E) /\ Len(s) = Len(data) - 1
    BY <2>1, <2>2, RemoveOne
  <2>7. \A i \in 1..Len(s) : s[i] = data[IF i < n THEN i ELSE i + 1]
    BY <2>1, <2>2, <2>6, RemoveOne
  <2> DEFINE f == [i \in 1..Len(s) |-> IF i < n THEN i ELSE i + 1]
  <2>8. Survivors(s, k, f)
    <3>1. f \in [1..Len(s) -> 1..Len(data)]
      BY <1>1, <2>1, <2>6
    <3>2. \A i, j \in 1..Len(s) : i < j => f[i] < f[j]
      BY <1>1, <2>1, <2>6
    <3>3. \A i \in 1..Len(s) : f[i] # n
      BY <1>1, <2>1, <2>6
    <3>4. \A i \in 1..Len(s) : s[i] = data[f[i]] /\ s[i].key # k
      BY <1>1, <2>1, <2>7, <3>1, <3>3 DEF OneEntryPerKey
    <3>5. ASSUME NEW j \in 1..Len(data), data[j].key # k
          PROVE  \E i \in 1..Len(s) : f[i] = j
      <4>1. j # n
        BY <2>1, <3>5
      <4>2. CASE j < n
        BY <1>1, <2>1, <2>6, <4>2
      <4>3. CASE j > n
        <5>1. j - 1 \in 1..Len(s) /\ f[j - 1] = j
          BY <1>1, <2>1, <2>6, <4>3
        <5> QED
          BY <5>1
      <4> QED
        BY <1>1, <2>1, <4>1, <4>2, <4>3
    <3> QED
      BY <3>1, <3>2, <3>4, <3>5 DEF Survivors
  <2> QED
    BY <1>3, <2>6, <2>8 DEF s
<1> QED
  BY <1>2, <1>3
-----------------------------------------------------------------------------
(***************************************************************************)
(* What the invariant says of the dict, said of any sequence of entries    *)
(* and any history.                                                        *)
(***************************************************************************)
Distinct(s) == \A i, j \in 1..Len(s) : s[i].key = s[j].key => i = j
Ordered(s, used) == \A i, j \in 1..Len(s) :
                       i < j => s[j].key \in used[s[i].key]

LEMMA CacheTypes ==
  ASSUME TypeOK
  PROVE  /\ data \in Seq(Entry)
         /\ Len(data) \in Nat
         /\ DOMAIN data = 1..Len(data)
         /\ \A i \in 1..Len(data) : data[i] \in Entry /\ data[i].key \in CacheKeys
<1>1. data \in Seq(Entry)
  BY DEF TypeOK
<1>2. Len(data) \in Nat /\ DOMAIN data = 1..Len(data)
  BY <1>1, LenProperties
<1>3. \A i \in 1..Len(data) : data[i] \in Entry
  BY <1>1, ElementOfSeq
<1> QED
  BY <1>1, <1>2, <1>3 DEF Entry

(***************************************************************************)
(* A deletion leaves the other entries as they were.                       *)
(***************************************************************************)
LEMMA WithoutIsFit ==
  ASSUME CacheInv, NEW k
  PROVE  /\ Without(k) \in Seq(Entry)
         /\ Len(Without(k)) <= Len(data)
         /\ Distinct(Without(k))
         /\ Ordered(Without(k), since)
         /\ \A i \in 1..Len(Without(k)) :
               /\ Without(k)[i].key # k
               /\ \E j \in 1..Len(data) : Without(k)[i] = data[j]
         /\ \A j \in 1..Len(data) : data[j].key # k =>
               \E i \in 1..Len(Without(k)) : Without(k)[i] = data[j]
<1> DEFINE s == Without(k)
<1>1. TypeOK /\ OneEntryPerKey /\ OldestFirst
  BY DEF CacheInv, TypeOK
<1>2. data \in Seq(Entry) /\ Len(data) \in Nat /\ DOMAIN data = 1..Len(data)
  BY <1>1, CacheTypes
<1>3. s \in Seq(Entry) /\ Len(s) = IF k \in Keys THEN Len(data) - 1 ELSE Len(data)
  BY <1>1, <1>2, WithoutKey
<1>4. PICK f : Survivors(s, k, f)
  BY <1>1, <1>2, WithoutKey
<1> HIDE DEF s
<1>5. /\ \A i \in 1..Len(s) : /\ f[i] \in 1..Len(data)
                              /\ s[i] = data[f[i]]
                              /\ s[i].key # k
      /\ \A i, j \in 1..Len(s) : i < j => f[i] < f[j]
  BY <1>4 DEF Survivors
<1>6. \A j \in 1..Len(data) :
         data[j].key # k => \E i \in 1..Len(s) : s[i] = data[j]
  BY <1>4 DEF Survivors
<1>7. Len(s) \in Nat
  BY <1>2, <1>3, LenProperties
<1>8. Distinct(s)
  <2> SUFFICES ASSUME NEW i \in 1..Len(s), NEW j \in 1..Len(s),
                      s[i].key = s[j].key
               PROVE  i = j
    BY DEF Distinct
  <2>1. f[i] = f[j]
    BY <1>1, <1>2, <1>5 DEF OneEntryPerKey
  <2> QED
    BY <1>2, <1>5, <1>7, <2>1
<1>9. Ordered(s, since)
  BY <1>1, <1>2, <1>5 DEF Ordered, OldestFirst
<1>10. s \in Seq(Entry) /\ Len(s) <= Len(data)
  <2>1. CASE k \in Keys
    BY <1>2, <1>3, <2>1
  <2>2. CASE k \notin Keys
    BY <1>2, <1>3, <2>2
  <2> QED
    BY <2>1, <2>2
<1>11. \A i \in 1..Len(s) : /\ s[i].key # k
                             /\ \E j \in 1..Len(data) : s[i] = data[j]
  BY <1>5
<1> QED
  BY <1>6, <1>8, <1>9, <1>10, <1>11 DEF s

(***************************************************************************)
(* An entry that is used moves to the end.                                 *)
(***************************************************************************)
Moved(k, e) == Append(Without(k), e)

LEMMA AppendUsed ==
  ASSUME CacheInv, NEW k \in CacheKeys, NEW e \in Entry, e.key = k, Use(k)
  PROVE  /\ Moved(k, e) \in Seq(Entry)
         /\ Len(Moved(k, e)) = Len(Without(k)) + 1
         /\ Distinct(Moved(k, e))
         /\ Ordered(Moved(k, e), since')
         /\ \A i \in 1..Len(Moved(k, e)) :
               \/ Moved(k, e)[i] = e
               \/ \E j \in 1..Len(data) : /\ Moved(k, e)[i] = data[j]
                                          /\ data[j].key # k
         /\ \E i \in 1..Len(Moved(k, e)) : Moved(k, e)[i] = e
         /\ \A j \in 1..Len(data) : data[j].key # k =>
               \E i \in 1..Len(Moved(k, e)) : Moved(k, e)[i] = data[j]
<1> DEFINE s == Without(k)
           t == Moved(k, e)
<1>1. /\ s \in Seq(Entry)
      /\ Distinct(s)
      /\ Ordered(s, since)
      /\ \A i \in 1..Len(s) : /\ s[i].key # k
                              /\ \E j \in 1..Len(data) : s[i] = data[j]
      /\ \A j \in 1..Len(data) :
            data[j].key # k => \E i \in 1..Len(s) : s[i] = data[j]
  BY WithoutIsFit
<1> HIDE DEF s
<1>2. /\ t = Append(s, e)
      /\ Len(s) \in Nat
      /\ t \in Seq(Entry)
      /\ Len(t) = Len(s) + 1
      /\ \A i \in 1..Len(s) : t[i] = s[i]
      /\ t[Len(s) + 1] = e
  <2>1. t = Append(s, e) /\ Len(s) \in Nat
    BY <1>1, LenProperties DEF s, Moved
  <2> QED
    BY <1>1, <2>1, AppendProperties
<1>3. \A i \in 1..Len(t) : i \in 1..Len(s) \/ i = Len(s) + 1
  BY <1>2
<1>4. Distinct(t)
  BY <1>1, <1>2, <1>3 DEF Distinct
<1>5. Ordered(t, since')
  <2> SUFFICES ASSUME NEW i \in 1..Len(t), NEW j \in 1..Len(t), i < j
               PROVE  t[j].key \in since'[t[i].key]
    BY DEF Ordered
  <2>1. i \in 1..Len(s) /\ t[i] = s[i]
    BY <1>2
  <2>2. s[i].key \in CacheKeys /\ s[i].key # k
    <3>1. s[i] \in Entry
      BY <1>1, <2>1, ElementOfSeq
    <3> QED
      BY <1>1, <2>1, <3>1 DEF Entry
  <2>3. since'[s[i].key] = since[s[i].key] \cup {k}
    BY <2>2 DEF Use
  <2>4. CASE j \in 1..Len(s)
    BY <1>1, <1>2, <2>1, <2>3, <2>4 DEF Ordered
  <2>5. CASE j = Len(s) + 1
    BY <1>2, <2>1, <2>3, <2>5
  <2> QED
    BY <1>3, <2>4, <2>5
<1>6. \A i \in 1..Len(t) : \/ t[i] = e
                           \/ \E j \in 1..Len(data) : /\ t[i] = data[j]
                                                      /\ data[j].key # k
  <2> SUFFICES ASSUME NEW i \in 1..Len(t), t[i] # e
               PROVE  \E j \in 1..Len(data) : /\ t[i] = data[j]
                                              /\ data[j].key # k
    OBVIOUS
  <2>1. i \in 1..Len(s) /\ t[i] = s[i]
    BY <1>2, <1>3
  <2>2. s[i].key # k /\ \E j \in 1..Len(data) : s[i] = data[j]
    BY <1>1, <2>1
  <2> QED
    BY <2>1, <2>2
<1>7. \E i \in 1..Len(t) : t[i] = e
  <2>1. Len(s) + 1 \in 1..Len(t)
    BY <1>2
  <2> QED
    BY <1>2, <2>1
<1>8. \A j \in 1..Len(data) :
         data[j].key # k => \E i \in 1..Len(t) : t[i] = data[j]
  <2>1. \A i \in 1..Len(s) : i \in 1..Len(t)
    BY <1>2
  <2> QED
    BY <1>1, <1>2, <2>1
<1> QED
  BY <1>2, <1>4, <1>5, <1>6, <1>7, <1>8 DEF s

(***************************************************************************)
(* The eviction loop drops the first of the entries, if it drops any.      *)
(***************************************************************************)
LEMMA NewestIsFit ==
  ASSUME NEW t \in Seq(Entry), Len(t) <= MaxEntries + 1
  PROVE  /\ Newest(t) \in Seq(Entry)
         /\ Len(Newest(t)) <= MaxEntries
         /\ \/ Newest(t) = t
            \/ /\ Len(t) = MaxEntries + 1
               /\ Len(Newest(t)) = MaxEntries
               /\ \A i \in 1..MaxEntries : Newest(t)[i] = t[i + 1]
<1>1. Len(t) \in Nat /\ \A i \in 1..Len(t) : t[i] \in Entry
  BY LenProperties, ElementOfSeq
<1>2. CASE ~(Len(t) > MaxEntries)
  BY <1>1, <1>2 DEF Newest
<1>3. CASE Len(t) > MaxEntries
  <2>1. Len(t) = MaxEntries + 1
    BY <1>1, <1>3
  <2>2. Newest(t) = SubSeq(t, 2, MaxEntries + 1)
    BY <1>1, <1>3, <2>1 DEF Newest
  <2>3. 2 \in Int /\ MaxEntries + 1 \in Int
        /\ \A i \in 2..(MaxEntries + 1) : t[i] \in Entry
    BY <1>1, <2>1
  <2>4. /\ Newest(t) \in Seq(Entry)
        /\ Len(Newest(t)) = IF 2 <= MaxEntries + 1
                            THEN MaxEntries + 1 - 2 + 1 ELSE 0
        /\ \A i \in 1..(MaxEntries + 1 - 2 + 1) : Newest(t)[i] = t[2 + i - 1]
    BY <2>2, <2>3, SubSeqProperties
  <2>5. Len(Newest(t)) = MaxEntries
    BY <2>4
  <2>6. \A i \in 1..MaxEntries : Newest(t)[i] = t[i + 1]
    BY <2>4
  <2> QED
    BY <2>1, <2>4, <2>5, <2>6
<1> QED
  BY <1>2, <1>3
-----------------------------------------------------------------------------
(***************************************************************************)
(* get and set keep the invariant.                                         *)
(***************************************************************************)
LEMMA UseType ==
  ASSUME TypeOK, \A c \in CacheKeys : IsFiniteSet(since[c]),
         NEW k \in CacheKeys, Use(k)
  PROVE  /\ since' \in [CacheKeys -> SUBSET CacheKeys]
         /\ \A c \in CacheKeys : IsFiniteSet(since'[c])
         /\ \A c \in CacheKeys \ {k} : /\ since'[c] = since[c] \cup {k}
                                       /\ Cardinality(since[c]) \in Nat
                                       /\ Cardinality(since'[c]) >= Cardinality(since[c])
<1>1. since \in [CacheKeys -> SUBSET CacheKeys]
  BY DEF TypeOK
<1>2. /\ since'[k] = {}
      /\ \A c \in CacheKeys \ {k} : since'[c] = since[c] \cup {k}
      /\ since' \in [CacheKeys -> SUBSET CacheKeys]
  BY <1>1 DEF Use
<1>3. ASSUME NEW c \in CacheKeys
      PROVE  IsFiniteSet(since'[c])
  <2>1. CASE c = k
    BY <1>2, <2>1, FS_EmptySet
  <2>2. CASE c # k
    <3>1. IsFiniteSet(since[c] \cup {k})
      BY FS_AddElement
    <3> QED
      BY <1>2, <2>2, <3>1
  <2> QED
    BY <2>1, <2>2
<1>4. \A c \in CacheKeys \ {k} : /\ Cardinality(since[c]) \in Nat
                                 /\ Cardinality(since'[c]) >= Cardinality(since[c])
  BY <1>2, <1>3, FS_Subset, FS_CardinalityType
<1> QED
  BY <1>2, <1>3, <1>4

\* A lookup that finds nothing may delete an expired entry.
LEMMA MissKeepsInv ==
  ASSUME CacheInv, NEW k \in CacheKeys, Read(k), ~Hit(k)
  PROVE  CacheInv'
<1> DEFINE s == Without(k)
<1>1. data' = s /\ UNCHANGED <<since, clock, put>>
  BY DEF Read, Get
<1>2. /\ s \in Seq(Entry)
      /\ Len(s) <= Len(data)
      /\ Distinct(s)
      /\ Ordered(s, since)
      /\ \A i \in 1..Len(s) : \E j \in 1..Len(data) : s[i] = data[j]
      /\ \A j \in 1..Len(data) :
            data[j].key # k => \E i \in 1..Len(s) : s[i] = data[j]
  BY WithoutIsFit
<1> HIDE DEF s
<1>3. Len(s) \in Nat /\ DOMAIN s = 1..Len(s)
  BY <1>2, LenProperties
<1>4. Len(data) \in Nat /\ DOMAIN data = 1..Len(data)
  BY CacheTypes DEF CacheInv
<1>5. TypeOK'
  <2>1. Len(s) <= MaxEntries
    BY <1>2, <1>3, <1>4 DEF CacheInv, TypeOK
  <2>2. OneEntryPerKey'
    BY <1>1, <1>2, <1>3 DEF OneEntryPerKey, Distinct
  <2> QED
    BY <1>1, <1>2, <2>1, <2>2 DEF CacheInv, TypeOK
<1>6. EntriesAreWhatWasPut'
  BY <1>1, <1>2, <1>3, <1>4 DEF CacheInv, EntriesAreWhatWasPut
<1>7. OldestFirst'
  BY <1>1, <1>2, <1>3 DEF OldestFirst, Ordered
<1>8. EvictedIsOldest'
  <2> SUFFICES ASSUME NEW c \in CacheKeys, put[c] # NeverPut,
                      clock <= put[c].at + TTL,
                      ~(Cardinality(since[c]) >= MaxEntries)
               PROVE  c \in Keys'
    BY <1>1 DEF EvictedIsOldest
  <2>1. PICK j \in 1..Len(data) : data[j].key = c
    BY <1>4 DEF CacheInv, EvictedIsOldest, Keys
  <2>2. data[j].expires_at = put[c].at + TTL
    BY <1>4, <2>1 DEF CacheInv, EntriesAreWhatWasPut
  <2>3. CASE c # k
    BY <1>1, <1>2, <1>3, <2>1, <2>3 DEF Keys
  <2>4. CASE c = k
    <3>1. k \in Keys /\ data[IndexOf(k)].key = k /\ IndexOf(k) \in 1..Len(data)
      BY <1>4, <2>1, <2>4, IndexOfKey, CacheTypes DEF Keys, CacheInv
    <3>2. IndexOf(k) = j
      BY <1>4, <2>1, <2>4, <3>1 DEF CacheInv, TypeOK, OneEntryPerKey
    <3>3. EntryOf(k).expires_at = put[k].at + TTL
      BY <2>2, <2>4, <3>2 DEF EntryOf
    <3>4. Hit(k)
      BY <2>4, <3>1, <3>3 DEF Hit, Expired, CacheInv, TypeOK
    <3> QED
      BY <3>4
  <2> QED
    BY <2>3, <2>4
<1>9. \A c \in CacheKeys : IsFiniteSet(since'[c])
  BY <1>1 DEF CacheInv
<1> QED
  BY <1>5, <1>6, <1>7, <1>8, <1>9 DEF CacheInv
(***************************************************************************)
(* What a use of k leaves in the dict: the sequence t, of which the first  *)
(* entry may be evicted.  An evicted entry has MaxEntries keys behind it,  *)
(* each of them used since.                                                *)
(***************************************************************************)
LEMMA UseKeepsInv ==
  ASSUME CacheInv, NEW k \in CacheKeys, NEW e \in Entry, e.key = k, Use(k),
         clock' = clock,
         data' = Newest(Moved(k, e)),
         put' \in [CacheKeys -> [value : Values, at : Nat] \cup {NeverPut}],
         \A c \in CacheKeys \ {k} : put'[c] = put[c],
         e.value = put'[k].value, e.expires_at = put'[k].at + TTL
  PROVE  CacheInv'
<1> DEFINE t == Moved(k, e)
<1>1. /\ data \in Seq(Entry)
      /\ Len(data) \in Nat
      /\ DOMAIN data = 1..Len(data)
      /\ \A j \in 1..Len(data) : data[j].key \in CacheKeys
      /\ Len(data) <= MaxEntries
      /\ clock \in 0..Horizon
  BY CacheTypes DEF CacheInv, TypeOK
<1>2. /\ since' \in [CacheKeys -> SUBSET CacheKeys]
      /\ \A c \in CacheKeys : IsFiniteSet(since'[c])
      /\ \A c \in CacheKeys \ {k} : /\ since'[c] = since[c] \cup {k}
                                    /\ Cardinality(since[c]) \in Nat
                                    /\ Cardinality(since'[c]) >= Cardinality(since[c])
  BY UseType DEF CacheInv
<1>3. /\ t \in Seq(Entry)
      /\ Len(t) = Len(Without(k)) + 1
      /\ Distinct(t)
      /\ Ordered(t, since')
      /\ \A i \in 1..Len(t) : \/ t[i] = e
                              \/ \E j \in 1..Len(data) : /\ t[i] = data[j]
                                                         /\ data[j].key # k
      /\ \E i \in 1..Len(t) : t[i] = e
      /\ \A j \in 1..Len(data) :
            data[j].key # k => \E i \in 1..Len(t) : t[i] = data[j]
  BY AppendUsed
<1>4. Len(t) \in Nat /\ Len(t) <= MaxEntries + 1
  <2>1. Without(k) \in Seq(Entry) /\ Len(Without(k)) <= Len(data)
    BY WithoutIsFit
  <2>2. Len(Without(k)) \in Nat
    BY <2>1, LenProperties
  <2> QED
    BY <1>1, <1>3, <2>1, <2>2
<1> HIDE DEF t
<1>5. /\ data' = Newest(t)
      /\ data' \in Seq(Entry)
      /\ Len(data') <= MaxEntries
      /\ \/ data' = t
         \/ /\ Len(t) = MaxEntries + 1
            /\ Len(data') = MaxEntries
            /\ \A i \in 1..MaxEntries : data'[i] = t[i + 1]
  BY <1>3, <1>4, NewestIsFit DEF t
<1>6. DOMAIN data' = 1..Len(data') /\ Len(data') \in Nat
  BY <1>5, LenProperties
<1>7. PICK d \in {0, 1} :
         /\ Len(data') = Len(t) - d
         /\ \A i \in 1..Len(data') : i + d \in 1..Len(t) /\ data'[i] = t[i + d]
         /\ d = 1 => Len(t) = MaxEntries + 1
  <2>1. CASE data' = t
    <3>1. /\ Len(data') = Len(t) - 0
          /\ \A i \in 1..Len(data') : i + 0 \in 1..Len(t) /\ data'[i] = t[i + 0]
      BY <1>4, <2>1
    <3> QED
      BY <3>1
  <2>2. CASE data' # t
    <3>1. /\ Len(data') = Len(t) - 1
          /\ \A i \in 1..Len(data') : i + 1 \in 1..Len(t) /\ data'[i] = t[i + 1]
          /\ Len(t) = MaxEntries + 1
      BY <1>4, <1>5, <2>2
    <3> QED
      BY <3>1
  <2> QED
    BY <2>1, <2>2
<1>8. OneEntryPerKey'
  <2> SUFFICES ASSUME NEW i \in 1..Len(data'), NEW j \in 1..Len(data'),
                      data'[i].key = data'[j].key
               PROVE  i = j
    BY <1>6 DEF OneEntryPerKey
  <2>1. i + d = j + d
    BY <1>3, <1>7 DEF Distinct
  <2> QED
    BY <1>6, <2>1
<1>9. TypeOK'
  BY <1>1, <1>2, <1>5, <1>8 DEF TypeOK
<1>10. EntriesAreWhatWasPut'
  <2> SUFFICES ASSUME NEW i \in 1..Len(data')
               PROVE  /\ data'[i].value = put'[data'[i].key].value
                      /\ data'[i].expires_at = put'[data'[i].key].at + TTL
    BY <1>6 DEF EntriesAreWhatWasPut
  <2>1. CASE data'[i] = e
    BY <2>1
  <2>2. CASE \E j \in 1..Len(data) : data'[i] = data[j] /\ data[j].key # k
    BY <1>1, <2>2 DEF CacheInv, EntriesAreWhatWasPut
  <2> QED
    BY <1>3, <1>7, <2>1, <2>2
<1>11. OldestFirst'
  <2> SUFFICES ASSUME NEW i \in 1..Len(data'), NEW j \in 1..Len(data'), i < j
               PROVE  data'[j].key \in since'[data'[i].key]
    BY <1>6 DEF OldestFirst
  <2>1. i + d < j + d
    BY <1>6
  <2> QED
    BY <1>3, <1>7, <2>1 DEF Ordered
<1>12. ASSUME NEW i \in 1..Len(t), NEW c \in CacheKeys, t[i].key = c
       PROVE  c \in Keys' \/ Cardinality(since'[c]) >= MaxEntries
  <2>1. CASE i - d \in 1..Len(data')
    <3>1. data'[i - d] = t[i]
      BY <1>4, <1>7, <2>1
    <3> QED
      BY <1>6, <1>12, <2>1, <3>1 DEF Keys
  <2>2. CASE i - d \notin 1..Len(data')
    <3>1. i = 1 /\ Len(t) = MaxEntries + 1
      BY <1>4, <1>6, <1>7, <2>2
    <3> DEFINE behind == [j \in 1..MaxEntries |-> t[j + 1].key]
    <3>2. \A j \in 1..MaxEntries : j + 1 \in 1..Len(t) /\ 1 < j + 1
      BY <3>1
    <3>3. \A j \in 1..MaxEntries : behind[j] \in since'[c]
      BY <1>3, <1>12, <3>1, <3>2 DEF Ordered
    <3>4. \A j, l \in 1..MaxEntries : behind[j] = behind[l] => j = l
      <4> SUFFICES ASSUME NEW j \in 1..MaxEntries, NEW l \in 1..MaxEntries,
                          behind[j] = behind[l]
                   PROVE  j = l
        OBVIOUS
      <4>1. j + 1 = l + 1
        BY <1>3, <3>2 DEF Distinct
      <4> QED
        BY <4>1
    <3>5. behind \in Injection(1..MaxEntries, since'[c])
      BY <3>3, <3>4 DEF Injection, IsInjective
    <3>6. IsFiniteSet(1..MaxEntries) /\ Cardinality(1..MaxEntries) = MaxEntries
      <4>1. /\ IsFiniteSet(1..MaxEntries)
            /\ Cardinality(1..MaxEntries) =
                  IF 1 > MaxEntries THEN 0 ELSE MaxEntries - 1 + 1
        BY FS_Interval
      <4> QED
        BY <4>1
    <3> QED
      BY <1>2, <3>5, <3>6, FS_Injection, FS_CardinalityType DEF ExistsInjection
  <2> QED
    BY <2>1, <2>2
<1>13. EvictedIsOldest'
  <2> SUFFICES ASSUME NEW c \in CacheKeys, put'[c] # NeverPut,
                      clock <= put'[c].at + TTL,
                      c \notin Keys'
               PROVE  Cardinality(since'[c]) >= MaxEntries
    BY DEF EvictedIsOldest
  <2>1. CASE c = k
    <3>1. PICK i \in 1..Len(t) : t[i] = e
      BY <1>3
    <3> QED
      BY <1>12, <2>1, <3>1
  <2>2. CASE c # k /\ c \in Keys
    <3>1. PICK j \in 1..Len(data) : data[j].key = c
      BY <1>1, <2>2 DEF Keys
    <3>2. PICK i \in 1..Len(t) : t[i] = data[j]
      BY <1>3, <2>2, <3>1
    <3> QED
      BY <1>12, <3>1, <3>2
  <2>3. CASE c # k /\ c \notin Keys
    <3>1. Cardinality(since[c]) >= MaxEntries
      BY <2>3 DEF CacheInv, EvictedIsOldest
    <3> QED
      BY <1>2, <2>3, <3>1, FS_CardinalityType
  <2> QED
    BY <2>1, <2>2, <2>3
<1> QED
  BY <1>2, <1>9, <1>10, <1>11, <1>13 DEF CacheInv

LEMMA HitFacts ==
  ASSUME CacheInv, NEW k \in CacheKeys, Hit(k)
  PROVE  /\ EntryOf(k) \in Entry
         /\ EntryOf(k).key = k
         /\ EntryOf(k).value = put[k].value
         /\ EntryOf(k).expires_at = put[k].at + TTL
         /\ clock <= put[k].at + TTL
<1>1. k \in Keys /\ ~Expired(EntryOf(k))
  BY DEF Hit
<1>2. /\ data \in Seq(Entry)
      /\ DOMAIN data = 1..Len(data)
      /\ \A i \in 1..Len(data) : data[i] \in Entry
  BY CacheTypes DEF CacheInv
<1>3. IndexOf(k) \in 1..Len(data) /\ data[IndexOf(k)].key = k
  BY <1>1, <1>2, IndexOfKey
<1>4. /\ EntryOf(k) \in Entry
      /\ EntryOf(k).key = k
      /\ EntryOf(k).value = put[k].value
      /\ EntryOf(k).expires_at = put[k].at + TTL
  BY <1>2, <1>3 DEF EntryOf, CacheInv, EntriesAreWhatWasPut
<1>5. EntryOf(k).expires_at \in Nat /\ clock \in Nat
  BY <1>4 DEF Entry, CacheInv, TypeOK
<1> QED
  BY <1>1, <1>4, <1>5 DEF Expired

\* A hit moves to the end; nothing is evicted, as nothing was added.
LEMMA HitKeepsInv ==
  ASSUME CacheInv, NEW k \in CacheKeys, Read(k), Hit(k)
  PROVE  CacheInv'
<1> DEFINE e == EntryOf(k)
<1>1. data' = Moved(k, e) /\ Use(k) /\ UNCHANGED <<clock, put>>
  BY DEF Read, Get, Moved
<1>2. /\ e \in Entry
      /\ e.key = k
      /\ e.value = put'[k].value
      /\ e.expires_at = put'[k].at + TTL
  BY <1>1, HitFacts
<1>3. put' \in [CacheKeys -> [value : Values, at : Nat] \cup {NeverPut}]
  BY <1>1 DEF CacheInv, TypeOK
<1>4. Newest(Moved(k, e)) = Moved(k, e)
  <2>1. /\ data \in Seq(Entry)
        /\ Len(data) \in Nat
        /\ Len(data) <= MaxEntries
        /\ OneEntryPerKey
    BY CacheTypes DEF CacheInv, TypeOK
  <2>2. Len(Without(k)) = Len(data) - 1
    BY <2>1, WithoutKey DEF Hit
  <2>3. Len(Moved(k, e)) = Len(data)
    BY <1>1, <1>2, <2>1, <2>2, AppendUsed
  <2> QED
    BY <2>1, <2>3 DEF Newest
<1> HIDE DEF e
<1> QED
  BY <1>1, <1>2, <1>3, <1>4, UseKeepsInv

LEMMA WriteKeepsInv ==
  ASSUME CacheInv, NEW k \in CacheKeys, NEW v \in Values, Write(k, v)
  PROVE  CacheInv'
<1> DEFINE e == [key |-> k, value |-> v, expires_at |-> clock + TTL]
<1>1. /\ put \in [CacheKeys -> [value : Values, at : Nat] \cup {NeverPut}]
      /\ clock \in Nat
  BY DEF CacheInv, TypeOK
<1>2. /\ data' = Newest(Moved(k, e))
      /\ Use(k)
      /\ clock' = clock
      /\ put' = [put EXCEPT ![k] = [value |-> v, at |-> clock]]
  BY DEF Write, Set, Moved
<1>3. /\ put' \in [CacheKeys -> [value : Values, at : Nat] \cup {NeverPut}]
      /\ \A c \in CacheKeys \ {k} : put'[c] = put[c]
      /\ put'[k] = [value |-> v, at |-> clock]
  BY <1>1, <1>2
<1>4. /\ e \in Entry
      /\ e.key = k
      /\ e.value = put'[k].value
      /\ e.expires_at = put'[k].at + TTL
  BY <1>1, <1>3 DEF Entry
<1> HIDE DEF e
<1> QED
  BY <1>2, <1>3, <1>4, UseKeepsInv

LEMMA ClearKeepsInv ==
  ASSUME CacheInv, Clear
  PROVE  CacheInv'
<1>1. /\ data' = <<>>
      /\ Len(<<>>) = 0
      /\ DOMAIN <<>> = {}
      /\ <<>> \in Seq(Entry)
  BY DEF Clear
<1>2. /\ put' = [c \in CacheKeys |-> NeverPut]
      /\ since' = [c \in CacheKeys |-> {}]
      /\ clock' = clock
  BY DEF Clear
<1>3. TypeOK'
  BY <1>1, <1>2 DEF CacheInv, TypeOK, OneEntryPerKey
<1>4. EntriesAreWhatWasPut' /\ OldestFirst' /\ EvictedIsOldest'
  BY <1>1, <1>2 DEF EntriesAreWhatWasPut, OldestFirst, EvictedIsOldest
<1>5. \A c \in CacheKeys : IsFiniteSet(since'[c])
  BY <1>2, FS_EmptySet
<1> QED
  BY <1>3, <1>4, <1>5 DEF CacheInv

LEMMA TickKeepsInv ==
  ASSUME CacheInv, Tick, UNCHANGED <<put, since>>
  PROVE  CacheInv'
<1>1. /\ clock \in 0..Horizon
      /\ clock < Horizon
      /\ clock' = clock + 1
      /\ UNCHANGED <<data, put, since>>
  BY DEF CacheInv, TypeOK, Tick
<1>2. TypeOK'
  BY <1>1 DEF CacheInv, TypeOK, OneEntryPerKey
<1>3. EntriesAreWhatWasPut' /\ OldestFirst'
  BY <1>1 DEF CacheInv, EntriesAreWhatWasPut, OldestFirst
<1>4. EvictedIsOldest'
  <2> SUFFICES ASSUME NEW k \in CacheKeys, put[k] # NeverPut,
                      clock + 1 <= put[k].at + TTL
               PROVE  k \in Keys \/ Cardinality(since[k]) >= MaxEntries
    BY <1>1 DEF EvictedIsOldest, Keys
  <2>1. put[k].at \in Nat
    BY DEF CacheInv, TypeOK, NeverPut
  <2>2. clock <= put[k].at + TTL
    BY <1>1, <2>1
  <2> QED
    BY <2>2 DEF CacheInv, EvictedIsOldest
<1>5. \A c \in CacheKeys : IsFiniteSet(since'[c])
  BY <1>1 DEF CacheInv
<1> QED
  BY <1>2, <1>3, <1>4, <1>5 DEF CacheInv

LEMMA InitCache == Init => CacheInv
<1> SUFFICES ASSUME Init
             PROVE  CacheInv
  OBVIOUS
<1>1. /\ data = <<>>
      /\ Len(<<>>) = 0
      /\ DOMAIN <<>> = {}
      /\ <<>> \in Seq(Entry)
  BY DEF Init, CacheInit
<1>2. /\ put = [c \in CacheKeys |-> NeverPut]
      /\ since = [c \in CacheKeys |-> {}]
      /\ clock = 0
  BY DEF Init, CacheInit
<1>3. TypeOK
  BY <1>1, <1>2 DEF TypeOK, OneEntryPerKey
<1>4. EntriesAreWhatWasPut /\ OldestFirst /\ EvictedIsOldest
  BY <1>1, <1>2 DEF EntriesAreWhatWasPut, OldestFirst, EvictedIsOldest
<1>5. \A c \in CacheKeys : IsFiniteSet(since[c])
  BY <1>2, FS_EmptySet
<1> QED
  BY <1>3, <1>4, <1>5 DEF CacheInv

LEMMA NextCache == CacheInv /\ [Next]_vars => CacheInv'
<1> SUFFICES ASSUME CacheInv, [Next]_vars
             PROVE  CacheInv'
  OBVIOUS
<1>1. ASSUME NEW k \in CacheKeys, Read(k)
      PROVE  CacheInv'
  BY <1>1, MissKeepsInv, HitKeepsInv
<1>2. ASSUME NEW k \in CacheKeys, NEW v \in Values, Write(k, v)
      PROVE  CacheInv'
  BY <1>2, WriteKeepsInv
<1>3. CASE Clear
  BY <1>3, ClearKeepsInv
<1>4. CASE Tick /\ UNCHANGED <<put, since>>
  BY <1>4, TickKeepsInv
<1>5. CASE UNCHANGED vars
  BY <1>5 DEF vars, CacheInv, TypeOK, OneEntryPerKey, EntriesAreWhatWasPut,
              OldestFirst, EvictedIsOldest, Keys
<1> QED
  BY <1>1, <1>2, <1>3, <1>4, <1>5 DEF Next
-----------------------------------------------------------------------------
(***************************************************************************)
(* The entries of the cache are what was put, in the order of their use,   *)
(* and only the oldest ones are evicted (get and set of cache.py).         *)
(***************************************************************************)
THEOREM CacheIsConsistent == Spec => []CacheInv
<1> QED
  BY InitCache, NextCache, PTL DEF Spec

(***************************************************************************)
(* The cache holds one entry per key and never more than its size.         *)
(***************************************************************************)
THEOREM CacheTypeCorrect == Spec => []TypeOK
<1>1. CacheInv => TypeOK
  BY DEF CacheInv
<1> QED
  BY <1>1, CacheIsConsistent, PTL

(***************************************************************************)
(* A hit is the last value put under its key, at most a TTL ago, however   *)
(* often the entry was read (cache.py:29).                                 *)
(***************************************************************************)
THEOREM HitsAreFresh == Spec => []NeverStale
<1>1. CacheInv => NeverStale
  BY HitFacts DEF NeverStale, ValueOf
<1> QED
  BY <1>1, CacheIsConsistent, PTL

(***************************************************************************)
(* A live key is evicted only after MaxEntries other keys have been used   *)
(* since it was (move_to_end and popitem, cache.py:32-39).                 *)
(***************************************************************************)
THEOREM LiveKeysAreServed == Spec => []RecentIsServed
<1>1. CacheInv => RecentIsServed
  <2> SUFFICES ASSUME CacheInv, NEW k \in CacheKeys, put[k] # NeverPut,
                      clock <= put[k].at + TTL,
                      Cardinality(since[k]) < MaxEntries
               PROVE  Hit(k)
    BY DEF RecentIsServed
  <2>1. k \in Keys
    <3>1. Cardinality(since[k]) \in Nat
      BY FS_CardinalityType DEF CacheInv
    <3> QED
      BY <3>1 DEF CacheInv, EvictedIsOldest
  <2>2. /\ data \in Seq(Entry)
        /\ DOMAIN data = 1..Len(data)
    BY CacheTypes DEF CacheInv
  <2>3. IndexOf(k) \in DOMAIN data /\ data[IndexOf(k)].key = k
    BY <2>1, <2>2, IndexOfKey
  <2>4. EntryOf(k).expires_at = put[k].at + TTL
    BY <2>3 DEF EntryOf, CacheInv, EntriesAreWhatWasPut
  <2>5. clock \in Nat /\ put[k].at \in Nat
    BY DEF CacheInv, TypeOK, NeverPut
  <2> QED
    BY <2>1, <2>4, <2>5 DEF Hit, Expired
<1> QED
  BY <1>1, CacheIsConsistent, PTL

-----------------------------------------------------------------------------
(***************************************************************************)
(* The refinement: reading forgets at most, a write puts one key, nothing  *)
(* else is learnt.                                                         *)
(***************************************************************************)
\* What is hit is what is there and not past its deadline.
HitsAreLive == \A k \in CacheKeys :
                  Hit(k) <=> k \in Keys /\ clock <= put[k].at + TTL

LEMMA HitMeans == CacheInv => HitsAreLive
<1> SUFFICES ASSUME CacheInv, NEW k \in CacheKeys
             PROVE  Hit(k) <=> k \in Keys /\ clock <= put[k].at + TTL
  BY DEF HitsAreLive
<1>1. CASE k \notin Keys
  BY <1>1 DEF Hit
<1>2. CASE k \in Keys
  <2>1. data \in Seq(Entry) /\ DOMAIN data = 1..Len(data)
    BY CacheTypes DEF CacheInv
  <2>2. IndexOf(k) \in DOMAIN data /\ data[IndexOf(k)].key = k
    BY <1>2, <2>1, IndexOfKey
  <2>3. EntryOf(k).expires_at = put[k].at + TTL
    BY <2>2 DEF EntryOf, CacheInv, EntriesAreWhatWasPut
  <2>4. clock \in Nat /\ put[k].at \in Nat
    BY DEF CacheInv, TypeOK, NeverPut
  <2> QED
    BY <1>2, <2>3, <2>4 DEF Hit, Expired
<1> QED
  BY <1>1, <1>2

LEMMA HitMeansNext == CacheInv' => HitsAreLive'
  BY HitMeans, PTL

\* No operation adds a key to the dict but a set of that key.
LEMMA KeysAfterGet ==
  ASSUME CacheInv, NEW k \in CacheKeys, Get(k)
  PROVE  Keys' \subseteq Keys
<1>1. data \in Seq(Entry) /\ DOMAIN data = 1..Len(data)
  BY CacheTypes DEF CacheInv
<1>2. /\ Without(k) \in Seq(Entry)
      /\ \A i \in 1..Len(Without(k)) : \E j \in 1..Len(data) :
            Without(k)[i] = data[j]
  BY WithoutIsFit
<1>3. CASE Hit(k)
  <2>1. EntryOf(k) \in Entry /\ EntryOf(k).key = k
    BY <1>3, HitFacts
  <2>2. data' = Append(Without(k), EntryOf(k))
    BY <1>3 DEF Get
  <2>3. \A i \in DOMAIN data' : \/ \E j \in 1..Len(data) : data'[i] = data[j]
                                \/ data'[i] = EntryOf(k)
    BY <1>2, <2>1, <2>2, AppendProperties, LenProperties
  <2> QED
    BY <1>1, <1>3, <2>1, <2>3 DEF Keys, Hit
<1>4. CASE ~Hit(k)
  <2>1. data' = Without(k)
    BY <1>4 DEF Get
  <2> QED
    BY <1>1, <1>2, <2>1, LenProperties DEF Keys
<1> QED
  BY <1>3, <1>4

LEMMA KeysAfterSet ==
  ASSUME CacheInv, NEW k \in CacheKeys, NEW v \in Values, Write(k, v)
  PROVE  Keys' \subseteq Keys \cup {k}
<1> DEFINE e == [key |-> k, value |-> v, expires_at |-> clock + TTL]
           t == Moved(k, e)
<1>1. e \in Entry /\ e.key = k
  BY DEF Entry, CacheInv, TypeOK
<1>2. data' = Newest(t) /\ Use(k)
  BY DEF Write, Set, Moved
<1>3. data \in Seq(Entry) /\ DOMAIN data = 1..Len(data) /\ Len(data) <= MaxEntries
  BY CacheTypes DEF CacheInv, TypeOK
<1>4. /\ t \in Seq(Entry)
      /\ Len(t) = Len(Without(k)) + 1
      /\ \A i \in 1..Len(t) : t[i] = e \/ \E j \in 1..Len(data) : t[i] = data[j]
  BY <1>1, <1>2, AppendUsed
<1>5. Len(t) <= MaxEntries + 1
  <2>1. Len(Without(k)) \in Nat /\ Len(data) \in Nat
        /\ Len(Without(k)) <= Len(data)
    BY <1>3, WithoutIsFit, LenProperties
  <2> QED
    BY <1>3, <1>4, <2>1
<1> HIDE DEF e, t
<1>6. \A i \in DOMAIN data' : \E j \in 1..Len(t) : data'[i] = t[j]
  <2>1. /\ data' \in Seq(Entry)
        /\ \/ data' = t
           \/ /\ Len(t) = MaxEntries + 1
              /\ Len(data') = MaxEntries
              /\ \A i \in 1..MaxEntries : data'[i] = t[i + 1]
    BY <1>2, <1>4, <1>5, NewestIsFit
  <2>2. DOMAIN data' = 1..Len(data') /\ Len(t) \in Nat
    BY <1>4, <2>1, LenProperties
  <2>3. CASE data' = t
    BY <2>2, <2>3
  <2>4. CASE data' # t
    <3>1. \A i \in 1..MaxEntries : i + 1 \in 1..Len(t) /\ data'[i] = t[i + 1]
      BY <2>1, <2>4
    <3> QED
      BY <2>1, <2>2, <2>4, <3>1
  <2> QED
    BY <2>3, <2>4
<1> QED
  BY <1>1, <1>3, <1>4, <1>6 DEF Keys

LEMMA CacheStepIsMapStep ==
  ASSUME CacheInv, CacheInv', [Next]_vars
  PROVE  [Map!Next]_(Map!vars)
<1> DEFINE known == {k \in CacheKeys : Hit(k)}
<1>1. HitsAreLive /\ HitsAreLive'
  BY HitMeans, HitMeansNext
<1>2. ASSUME NEW k \in CacheKeys, Read(k)
      PROVE  Map!Forget
  <2>1. known' \subseteq known
    BY <1>1, <1>2, KeysAfterGet DEF HitsAreLive, Read
  <2> QED
    BY <1>2, <2>1 DEF Map!Forget, Read
<1>3. ASSUME NEW k \in CacheKeys, NEW v \in Values, Write(k, v)
      PROVE  Map!Put(k, v)
  <2>1. put \in [CacheKeys -> [value : Values, at : Nat] \cup {NeverPut}]
    BY DEF CacheInv, TypeOK
  <2>2. \A c \in CacheKeys \ {k} : put'[c] = put[c]
    BY <1>3, <2>1 DEF Write
  <2>3. known' \subseteq known \cup {k}
    BY <1>1, <1>3, <2>2, KeysAfterSet DEF HitsAreLive, Write
  <2> QED
    BY <1>3, <2>3 DEF Map!Put, Write
<1>4. CASE Clear
  <2>1. Keys' = {}
    BY <1>4 DEF Clear, Keys
  <2>2. known' = {}
    BY <1>1, <2>1 DEF HitsAreLive
  <2>3. Map!Reset
    BY <1>4, <2>2 DEF Map!Reset, Map!Nothing, NeverPut, Clear
  <2> QED
    BY <2>3 DEF Map!Next
<1>5. CASE Tick /\ UNCHANGED <<put, since>>
  <2>1. /\ clock' = clock + 1
        /\ Keys' = Keys
        /\ put' = put
        /\ clock \in Nat
        /\ \A k \in CacheKeys : put[k].at \in Nat
    BY <1>5 DEF Tick, Keys, CacheInv, TypeOK, NeverPut
  <2>2. known' = {k \in known : clock' <= put[k].at + TTL}
    BY <1>1, <2>1 DEF HitsAreLive
  <2>3. Map!Elapse
    BY <2>1, <2>2 DEF Map!Elapse
  <2> QED
    BY <2>3 DEF Map!Next
<1>6. CASE UNCHANGED vars
  <2>1. known' = known
    BY <1>1, <1>6 DEF HitsAreLive, vars, Keys
  <2> QED
    BY <1>6, <2>1 DEF Map!vars, vars
<1> QED
  BY <1>2, <1>3, <1>4, <1>5, <1>6 DEF Next, Map!Next

(***************************************************************************)
(* Whoever calls the cache may take it for a map that forgets: a key is    *)
(* known from a put until its deadline at most, and nothing but a put      *)
(* moves the deadline.                                                     *)
(***************************************************************************)
THEOREM CacheImplementsMap == Spec => ImplementsMap
<1>1. Init => Map!Init
  <2> SUFFICES ASSUME Init
               PROVE  Map!Init
    OBVIOUS
  <2>1. {k \in CacheKeys : Hit(k)} = {}
    BY DEF Init, CacheInit, Hit, Keys
  <2> QED
    BY <2>1 DEF Init, CacheInit, Map!Init, Map!Nothing, NeverPut
<1>2. CacheInv /\ CacheInv' /\ [Next]_vars => [Map!Next]_(Map!vars)
  BY CacheStepIsMapStep
<1> QED
  BY <1>1, <1>2, CacheIsConsistent, PTL DEF Spec, ImplementsMap, Map!Spec
=============================================================================
