------------------------------ MODULE TTLCache ------------------------------
(***************************************************************************)
(* The in-process cache (src/app/services/cache.py).  The OrderedDict is   *)
(* the sequence of its entries, least recently used first.                 *)
(***************************************************************************)
EXTENDS Integers, SequencesExt

CONSTANTS TTL,         \* settings.cache_ttl_seconds
          MaxEntries,  \* settings.cache_max_entries
          Horizon      \* bound on the clock

ASSUME TTLNat == TTL \in Nat
ASSUME MaxEntriesNat == MaxEntries \in Nat
ASSUME HorizonNat == Horizon \in Nat

VARIABLES data,        \* the entries
          clock        \* time.monotonic()

Keys == {data[i].key : i \in DOMAIN data}
IndexOf(k) == CHOOSE i \in DOMAIN data : data[i].key = k
EntryOf(k) == data[IndexOf(k)]
ValueOf(k) == EntryOf(k).value
Without(k) == IF k \in Keys THEN RemoveAt(data, IndexOf(k)) ELSE data

\* A key has one entry, as in any dict.
OneEntryPerKey == \A i, j \in DOMAIN data :
                     data[i].key = data[j].key => i = j

Expired(e) == clock > e.expires_at
Hit(k) == k \in Keys /\ ~Expired(EntryOf(k))

CacheInit == data = <<>> /\ clock = 0

\* Bug: no move_to_end on a hit.
BugNoTouch(k) == data' = IF Hit(k) THEN data ELSE Without(k)
\* Bug: a hit renews the deadline.
BugRenew(k) == data' = IF Hit(k)
                       THEN Append(Without(k), [EntryOf(k) EXCEPT
                                                  !.expires_at = clock + TTL])
                       ELSE Without(k)
\* A hit becomes the most recently used entry, an expired entry is deleted.
Get(k) == data' = IF Hit(k) THEN Append(Without(k), EntryOf(k))
                            ELSE Without(k)

\* Bug: the size is checked before the new entry is in.
BugCheckFirst(s) == IF Len(s) > MaxEntries + 1 THEN Tail(s) ELSE s
\* Popped from the front while there are too many.
Newest(s) == IF Len(s) > MaxEntries
             THEN SubSeq(s, Len(s) - MaxEntries + 1, Len(s))
             ELSE s

Set(k, v) == data' = Newest(Append(Without(k),
                [key |-> k, value |-> v, expires_at |-> clock + TTL]))

Tick == /\ clock < Horizon
        /\ clock' = clock + 1
        /\ UNCHANGED data
=============================================================================
