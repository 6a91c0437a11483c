----------------------------- MODULE MCLogLevels -----------------------------
(* Instances of LogLevels for TLC. *)
EXTENDS LogLevels, TLC

CONSTANTS a, b, c, d, star

\* One address per tag string; the text of an address is the address itself.
OwnText == [p \in TagPointers |-> IF p = star THEN "*" ELSE p]

\* a and b are two copies of one string, as two files with the same TAG.
SharedText ==
  [p \in TagPointers |->
     IF p = star THEN "*" ELSE IF p = b THEN a ELSE p]

Symmetry == Permutations(TagPointers \ {star})
=============================================================================
