------------------------------- MODULE LogLock -------------------------------
(***************************************************************************)
(* The lock of the ports with tasks: porting/log_freertos.c and            *)
(* porting/log_pthreads.c.  Both create the mutex in the first call that   *)
(* finds none, wait on the handle they read after that test, and give back *)
(* whatever handle is current when they unlock.  They differ in what a     *)
(* second give does: a FreeRTOS mutex stays at one, a semaphore counts on. *)
(***************************************************************************)
EXTENDS Integers, FiniteSets

CONSTANTS
  Tasks,
  Handles,         \* the mutexes that can be created
  NULL,            \* no mutex yet
  CountsPosts,     \* TRUE: sem_post (pthreads); FALSE: xSemaphoreGive (FreeRTOS)
  FirstUseAlone    \* the program's first logging call returns before any other

ASSUME LockAssumption ==
  /\ NULL \notin Handles
  /\ CountsPosts \in BOOLEAN
  /\ FirstUseAlone \in BOOLEAN

VARIABLES
  s_log_mutex,     \* s_log_mutex of FreeRTOS, `mutex` of pthreads
  tokens,          \* handle -> how often it can be taken now; 0 before it exists
  created,         \* the handles that exist
  stage,           \* task -> how far its call of the lock has come
  timed,           \* task -> the call is log_impl_lock_timeout
  waitsOn          \* task -> the handle it passed to take

vars == <<s_log_mutex, tokens, created, stage, timed, waitsOn>>

Stages == {"idle", "create", "call", "wait", "critical"}

TypeOK ==
  /\ s_log_mutex \in Handles \cup {NULL}
  /\ tokens \in [Handles -> Nat]
  /\ created \subseteq Handles
  /\ stage \in [Tasks -> Stages]
  /\ timed \in [Tasks -> BOOLEAN]
  /\ waitsOn \in [Tasks -> Handles \cup {NULL}]

Init ==
  /\ s_log_mutex = NULL
  /\ tokens = [h \in Handles |-> 0]
  /\ created = {}
  /\ stage = [t \in Tasks |-> "idle"]
  /\ timed = [t \in Tasks |-> FALSE]
  /\ waitsOn = [t \in Tasks |-> NULL]

GoesTo(t, next) == stage' = [stage EXCEPT ![t] = next]

-----------------------------------------------------------------------------
(* log_impl_lock and log_impl_lock_timeout *)

\* Mutant of Test: a mutex is created whether or not there is one.
TestNothing(t, isTimed) ==
  /\ stage[t] = "idle"
  /\ timed' = [timed EXCEPT ![t] = isTimed]
  /\ GoesTo(t, "create")
  /\ UNCHANGED <<s_log_mutex, tokens, created, waitsOn>>

\* `if (!s_log_mutex)`: the test and what follows it are separate steps.
Test(t, isTimed) ==
  /\ stage[t] = "idle"
  /\ timed' = [timed EXCEPT ![t] = isTimed]
  /\ GoesTo(t, IF s_log_mutex = NULL THEN "create" ELSE "call")
  /\ UNCHANGED <<s_log_mutex, tokens, created, waitsOn>>

\* The program's order of calls, not a step of the code: nobody calls the
\* logger while the task that creates the mutex is in its first call.
MayEnter == FirstUseAlone => \A u \in Tasks : s_log_mutex = NULL => stage[u] = "idle"

Enter(t, isTimed) == MayEnter /\ Test(t, isTimed)

\* Mutant of Create: sem_init(&mutex, 0, 2).
CreateForTwo(t) ==
  /\ stage[t] = "create"
  /\ \E h \in Handles \ created :
       /\ created' = created \cup {h}
       /\ tokens' = [tokens EXCEPT ![h] = 2]
       /\ s_log_mutex' = h
  /\ GoesTo(t, "call")
  /\ UNCHANGED <<timed, waitsOn>>

\* xSemaphoreCreateMutex or sem_init(&mutex, 0, 1), and the assignment.
Create(t) ==
  /\ stage[t] = "create"
  /\ \E h \in Handles \ created :
       /\ created' = created \cup {h}
       /\ tokens' = [tokens EXCEPT ![h] = 1]
       /\ s_log_mutex' = h
  /\ GoesTo(t, "call")
  /\ UNCHANGED <<timed, waitsOn>>

\* The handle is the argument of xSemaphoreTake, sem_wait or sem_timedwait.
Call(t) ==
  /\ stage[t] = "call"
  /\ waitsOn' = [waitsOn EXCEPT ![t] = s_log_mutex]
  /\ GoesTo(t, "wait")
  /\ UNCHANGED <<s_log_mutex, tokens, created, timed>>

\* Mutant of Take: the result of the wait is not looked at.
TakeAnyway(t) ==
  /\ stage[t] = "wait"
  /\ tokens' = [tokens EXCEPT ![waitsOn[t]] = @ - 1]
  /\ GoesTo(t, "critical")
  /\ UNCHANGED <<s_log_mutex, created, timed, waitsOn>>

Take(t) ==
  /\ stage[t] = "wait"
  /\ tokens[waitsOn[t]] > 0
  /\ tokens' = [tokens EXCEPT ![waitsOn[t]] = @ - 1]
  /\ GoesTo(t, "critical")
  /\ UNCHANGED <<s_log_mutex, created, timed, waitsOn>>

\* Mutant of GiveUp: the wait has no limit (portMAX_DELAY).
GiveUpNever(t) == FALSE

\* The time is over and the mutex is taken: MAX_MUTEX_WAIT_TICKS later on
\* FreeRTOS; at once on pthreads, whose absolute time is long past.
GiveUp(t) ==
  /\ stage[t] = "wait"
  /\ timed[t]
  /\ tokens[waitsOn[t]] = 0
  /\ GoesTo(t, "idle")
  /\ UNCHANGED <<s_log_mutex, tokens, created, timed, waitsOn>>

-----------------------------------------------------------------------------
(* log_impl_unlock *)

\* Mutant of Unlock: the handle is read but nothing is given back.
UnlockNothing(t) ==
  /\ stage[t] = "critical"
  /\ GoesTo(t, "idle")
  /\ UNCHANGED <<s_log_mutex, tokens, created, timed, waitsOn>>

Unlock(t) ==
  /\ stage[t] = "critical"
  /\ tokens' = [tokens EXCEPT ![s_log_mutex] = IF CountsPosts THEN @ + 1 ELSE 1]
  /\ GoesTo(t, "idle")
  /\ UNCHANGED <<s_log_mutex, created, timed, waitsOn>>

InCall(t) == Create(t) \/ Call(t) \/ Take(t) \/ GiveUp(t)

Next ==
  \E t \in Tasks :
    (\E isTimed \in BOOLEAN : Enter(t, isTimed)) \/ InCall(t) \/ Unlock(t)

(***************************************************************************)
(* A task inside the lock or inside its critical section gets to run; no   *)
(* task has to call the logger.  Take is only weakly fair: neither port    *)
(* says who gets the lock next.                                            *)
(***************************************************************************)
Fairness == \A t \in Tasks : WF_vars(InCall(t)) /\ WF_vars(Unlock(t))

Spec == Init /\ [][Next]_vars /\ Fairness

-----------------------------------------------------------------------------
(* Properties *)

(***************************************************************************)
(* Two tasks are never in the critical section of log.c together.  It      *)
(* needs FirstUseAlone: two first calls can each create a mutex.           *)
(***************************************************************************)
MutualExclusion ==
  \A t, u \in Tasks : stage[t] = "critical" /\ stage[u] = "critical" => t = u

(***************************************************************************)
(* The lock is never lost: a task that waits waits on the mutex that will  *)
(* be given back, and if nobody is in the critical section it can be taken.*)
(***************************************************************************)
LockNotLost ==
  \A t \in Tasks :
    stage[t] = "wait" =>
      /\ waitsOn[t] = s_log_mutex
      /\ tokens[waitsOn[t]] > 0 \/ \E u \in Tasks : stage[u] = "critical"

(***************************************************************************)
(* A logging statement never blocks for good: log_impl_lock_timeout always *)
(* returns, whatever the other tasks do.                                   *)
(***************************************************************************)
TimedLockReturns ==
  \A t \in Tasks :
    (stage[t] \in {"create", "call", "wait"} /\ timed[t])
      ~> (stage[t] \in {"critical", "idle"})

(***************************************************************************)
(* While a task waits without a limit, in log_level_set or in a handler    *)
(* swap, somebody gets the lock: they never all wait for ever.             *)
(***************************************************************************)
LockHandedOn ==
  (\E t \in Tasks : stage[t] = "wait" /\ ~timed[t])
    ~> (\E t \in Tasks : stage[t] = "critical")

(***************************************************************************)
(* The port implements the abstract lock.  It needs FirstUseAlone.         *)
(***************************************************************************)
Holder ==
  IF \E t \in Tasks : stage[t] = "critical"
  THEN CHOOSE t \in Tasks : stage[t] = "critical" ELSE NULL

Abstract == INSTANCE Mutex WITH NoTask <- NULL, holder <- Holder

ImplementsMutex == Abstract!Spec
=============================================================================
