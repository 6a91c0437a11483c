----------------------------- MODULE MCTimestamps -----------------------------
(* Two tasks on core 0 and one on core 1. *)
EXTENDS Timestamps, TLC

CONSTANTS main, second, other

MCCore == (main :> 0) @@ (second :> 0) @@ (other :> 1)

\* One, two and three digits; the cycle counter wraps before the last one.
MCMoments == {0, 12, 112, 215}

Symmetry == Permutations({main, second})
=============================================================================
