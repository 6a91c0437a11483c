------------------------------- MODULE MCLogger -------------------------------
(* Two tasks: one logs and dumps buffers with macros and swaps functions,    *)
(* the other swaps functions and sets levels; print functions log.           *)
EXTENDS Logger

CONSTANTS dumper, setter, tag, star, printA, printB, writeA

MCText == [p \in TagPointers |-> p]

MCDoes == (dumper :> {"macro", "swap"}) @@ (setter :> {"set", "swap"})

MCOwns == (dumper :> {printA, writeA}) @@ (setter :> {printB})
=============================================================================
