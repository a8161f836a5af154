------------------------------ MODULE MCBuying ------------------------------
(***************************************************************************)
(* Small instances of the reservation site for TLC.                        *)
(***************************************************************************)
EXTENDS Buying

\* No secrets, half a pair, a live pair, a pair whose webhook secret has a
\* space around it, and the pair that works.
EverySetting == {[key |-> "",        hook |-> ""],
                 [key |-> "sk_test", hook |-> ""],
                 [key |-> "sk_live", hook |-> "whsec"],
                 [key |-> "sk_test", hook |-> "padded"],
                 [key |-> "sk_test", hook |-> "whsec"]}
=============================================================================
