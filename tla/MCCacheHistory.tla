--------------------------- MODULE MCCacheHistory ---------------------------
(***************************************************************************)
(* A cache of two entries and three keys for TLC.                          *)
(***************************************************************************)
EXTENDS CacheHistory, TLC

Symmetry == Permutations(CacheKeys) \cup Permutations(Values)
=============================================================================
