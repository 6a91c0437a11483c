------------------------------ MODULE MCDeepHeap ------------------------------
(***************************************************************************)
(* LogLevels with a heap of three levels and a program that never calls    *)
(* log_level_set.  Addresses are numbers; as tags are interchangeable, the *)
(* program may be taken to use them for the first time in this order.      *)
(***************************************************************************)
EXTENDS LogLevels

OwnText == [p \in TagPointers |-> p]

Lookup ==
  \E p \in TagPointers, level \in Levels :
    p <= s_log_cache_entry_count + 1 /\ is_tag_level_visible(level, p)

LookupSpec == Init /\ [][Lookup]_vars
=============================================================================
