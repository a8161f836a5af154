---------------------------- MODULE CacheHistory ----------------------------
(***************************************************************************)
(* The cache under any sequence of calls, with the history that tells what *)
(* it owes its callers: the last value put under each key, and the keys    *)
(* used since that key was, evicted or not.                                *)
(***************************************************************************)
EXTENDS TTLCache, FiniteSets

CONSTANTS CacheKeys, Values

VARIABLES put,    \* put[k]: the last value set under k, and when
          since   \* since[k]: the keys set or hit since k was

vars == <<data, clock, put, since>>

NeverPut == [value |-> "none", at |-> 0]
Entry == [key : CacheKeys, value : Values, expires_at : Nat]
TypeOK == /\ data \in Seq(Entry)
          /\ Len(data) <= MaxEntries
          /\ OneEntryPerKey
          /\ clock \in 0..Horizon
          /\ put \in [CacheKeys -> [value : Values, at : Nat]
                                      \cup {NeverPut}]
          /\ since \in [CacheKeys -> SUBSET CacheKeys]

Init == /\ CacheInit
        /\ put = [k \in CacheKeys |-> NeverPut]
        /\ since = [k \in CacheKeys |-> {}]

Use(k) == since' = [c \in CacheKeys |-> IF c = k THEN {} ELSE since[c] \cup {k}]

Read(k) == /\ Get(k)
           /\ IF Hit(k) THEN Use(k) ELSE UNCHANGED since
           /\ UNCHANGED <<clock, put>>

Write(k, v) == /\ Set(k, v)
               /\ Use(k)
               /\ put' = [put EXCEPT ![k] = [value |-> v, at |-> clock]]
               /\ UNCHANGED clock

Clear == /\ data' = <<>>
         /\ put' = [k \in CacheKeys |-> NeverPut]
         /\ since' = [k \in CacheKeys |-> {}]
         /\ UNCHANGED clock

Next == \/ \E k \in CacheKeys :
              Read(k) \/ (\E v \in Values : Write(k, v))
        \/ Clear
        \/ Tick /\ UNCHANGED <<put, since>>

Spec == Init /\ [][Next]_vars
-----------------------------------------------------------------------------
(***************************************************************************)
(* Whatever reads and evictions came between, a hit is the last value set  *)
(* under that key, no longer ago than the TTL: reading does not prolong an *)
(* entry's life.                                                           *)
(***************************************************************************)
NeverStale == \A k \in CacheKeys : Hit(k) =>
                 /\ ValueOf(k) = put[k].value
                 /\ clock <= put[k].at + TTL

(***************************************************************************)
(* Least recently used: a live key is still there unless MaxEntries other  *)
(* keys have been used since, however the calls were interleaved.          *)
(***************************************************************************)
RecentIsServed == \A k \in CacheKeys :
    /\ put[k] # NeverPut
    /\ clock <= put[k].at + TTL
    /\ Cardinality(since[k]) < MaxEntries
    => Hit(k)

EntriesAreWhatWasPut == \A i \in DOMAIN data :
    /\ data[i].value = put[data[i].key].value
    /\ data[i].expires_at = put[data[i].key].at + TTL

OldestFirst == \A i, j \in DOMAIN data :
                  i < j => data[j].key \in since[data[i].key]

EvictedIsOldest == \A k \in CacheKeys :
    put[k] # NeverPut /\ clock <= put[k].at + TTL =>
        k \in Keys \/ Cardinality(since[k]) >= MaxEntries

(***************************************************************************)
(* Why the cache is right: an entry is what was put, with the deadline of  *)
(* its put; the entries stand in the order of their use, so that popitem   *)
(* takes the oldest; and a live key that is gone was the oldest of a full  *)
(* cache.                                                                  *)
(***************************************************************************)
CacheInv == /\ TypeOK
            /\ EntriesAreWhatWasPut
            /\ OldestFirst
            /\ EvictedIsOldest
            /\ \A k \in CacheKeys : IsFiniteSet(since[k])

(***************************************************************************)
(* Any caller may take the cache for a map that forgets: a key is known    *)
(* from a put until its deadline at most, and no reading, writing of other *)
(* keys or eviction brings one back or prolongs it.                        *)
(***************************************************************************)
Map == INSTANCE ForgetfulMap WITH last <- put,
                                  known <- {k \in CacheKeys : Hit(k)},
                                  now <- clock
ImplementsMap == Map!Spec
=============================================================================
