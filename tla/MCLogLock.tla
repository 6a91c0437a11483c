------------------------------ MODULE MCLogLock ------------------------------
(* Instances of LogLock for TLC. *)
EXTENDS LogLock

CONSTANTS t1, t2, t3, h1, h2, h3
=============================================================================
