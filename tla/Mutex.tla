-------------------------------- MODULE Mutex --------------------------------
(***************************************************************************)
(* What the three functions of log_private.h promise together: the lock    *)
(* has one holder at most, a blocking request ends when it is granted, a   *)
(* request with a timeout may also be refused while another task holds it. *)
(***************************************************************************)
CONSTANTS Tasks, NoTask

VARIABLE holder

Init == holder = NoTask

\* log_impl_lock, or log_impl_lock_timeout that returns true.
Acquire(t) == holder = NoTask /\ holder' = t

\* log_impl_lock_timeout that returns false.
Refused(t) == holder \notin {t, NoTask} /\ UNCHANGED holder

\* log_impl_unlock
Release(t) == holder = t /\ holder' = NoTask

Next == \E t \in Tasks : Acquire(t) \/ Refused(t) \/ Release(t)

Spec == Init /\ [][Next]_holder
=============================================================================
