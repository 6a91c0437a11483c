------------------------------ MODULE MCTagList ------------------------------
(* Two tasks on a heap of three blocks. *)
EXTENDS TagList

CONSTANTS t1, t2, n1, n2, n3, a, b, star
=============================================================================
