---------------------------- MODULE MCDiscovery ----------------------------
(***************************************************************************)
(* Two providers and a few searches for TLC.                               *)
(***************************************************************************)
EXTENDS Discovery, TLC

CONSTANTS jambase, other

TwoProviders == <<jambase, other>>
Symmetry == Permutations(Searches) \cup Permutations(Places)
=============================================================================
