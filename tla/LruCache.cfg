SPECIFICATION Spec
CONSTANTS
    CacheKeys = {k1, k2, k3}
    Values = {v1, v2}
    TTL = 1
    MaxEntries = 2
    Horizon = 3
SYMMETRY Symmetry
INVARIANTS CacheInv NeverStale RecentIsServed
PROPERTY ImplementsMap
