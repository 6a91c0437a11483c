---------------------------- MODULE LogLockProofs ----------------------------
(***************************************************************************)
(* Theorems about LogLock, for every set of tasks and of mutexes and for   *)
(* both ports, when the first logging call of the program runs alone.      *)
(***************************************************************************)
EXTENDS LogLock, TLAPS

\* Before the mutex exists one task at most is in the lock, to create it.
NotYetCreated ==
  s_log_mutex = NULL =>
    /\ \A t \in Tasks : stage[t] \in {"idle", "create"}
    /\ \A t, u \in Tasks : stage[t] = "create" /\ stage[u] = "create" => t = u

\* Afterwards nobody creates another one, everybody waits on this one, and
\* its one token is either in it or with the task in the critical section.
OneToken ==
  s_log_mutex # NULL =>
    /\ \A t \in Tasks : stage[t] # "create"
    /\ \A t \in Tasks : stage[t] = "wait" => waitsOn[t] = s_log_mutex
    /\ tokens[s_log_mutex] \in {0, 1}
    /\ tokens[s_log_mutex] = 1 => \A t \in Tasks : stage[t] # "critical"
    /\ tokens[s_log_mutex] = 0 => \E t \in Tasks : stage[t] = "critical"

LockInv == TypeOK /\ NotYetCreated /\ OneToken /\ MutualExclusion

(***************************************************************************)
(* No mutex and no caller: the static handle is NULL.                      *)
(***************************************************************************)
LEMMA InitLock == Init => LockInv
  BY DEF Init, LockInv, TypeOK, NotYetCreated, OneToken, MutualExclusion, Stages

(***************************************************************************)
(* Every step of a call of the lock keeps the one token.                   *)
(***************************************************************************)
LEMMA NextLock ==
  ASSUME FirstUseAlone
  PROVE  LockInv /\ [Next]_vars => LockInv'
<1> SUFFICES ASSUME LockInv, [Next]_vars PROVE LockInv'
  OBVIOUS
<1> USE LockAssumption DEF LockInv, TypeOK, GoesTo, Stages
<1>1. ASSUME NEW t \in Tasks, NEW isTimed \in BOOLEAN, Enter(t, isTimed)
      PROVE  LockInv'
  <2>1. TypeOK'
    BY <1>1 DEF Enter, Test
  <2>2. NotYetCreated' /\ OneToken'
    BY <1>1 DEF Enter, MayEnter, Test, NotYetCreated, OneToken
  <2>3. MutualExclusion'
    BY <1>1 DEF Enter, Test, MutualExclusion
  <2> QED BY <2>1, <2>2, <2>3
<1>2. ASSUME NEW t \in Tasks, Create(t)
      PROVE  LockInv'
  <2>1. PICK h \in Handles \ created :
          /\ created' = created \cup {h}
          /\ tokens' = [tokens EXCEPT ![h] = 1]
          /\ s_log_mutex' = h
    BY <1>2 DEF Create
  <2>2. s_log_mutex = NULL
    BY <1>2 DEF Create, OneToken
  <2>3. stage' = [stage EXCEPT ![t] = "call"]
    BY <1>2 DEF Create
  <2>4. \A u \in Tasks : stage'[u] \in {"idle", "call"}
    BY <1>2, <2>2, <2>3 DEF Create, NotYetCreated
  <2>5. TypeOK'
    BY <1>2, <2>1 DEF Create
  <2>6. NotYetCreated' /\ OneToken' /\ MutualExclusion'
    BY <2>1, <2>4 DEF NotYetCreated, OneToken, MutualExclusion
  <2> QED BY <2>5, <2>6
<1>3. ASSUME NEW t \in Tasks, Call(t)
      PROVE  LockInv'
  <2>1. s_log_mutex # NULL
    BY <1>3 DEF Call, NotYetCreated
  <2> QED BY <1>3, <2>1 DEF Call, NotYetCreated, OneToken, MutualExclusion
<1>4. ASSUME NEW t \in Tasks, Take(t)
      PROVE  LockInv'
  <2>1. s_log_mutex # NULL /\ waitsOn[t] = s_log_mutex /\ tokens[s_log_mutex] = 1
    BY <1>4 DEF Take, NotYetCreated, OneToken
  <2>2. tokens' = [tokens EXCEPT ![s_log_mutex] = 0]
    BY <1>4, <2>1 DEF Take
  <2>3. TypeOK'
    BY <1>4, <2>1, <2>2 DEF Take
  <2>4. OneToken' /\ NotYetCreated'
    BY <1>4, <2>1, <2>2 DEF Take, OneToken, NotYetCreated
  <2>5. MutualExclusion'
    BY <1>4, <2>1 DEF Take, OneToken, MutualExclusion
  <2> QED BY <2>3, <2>4, <2>5
<1>5. ASSUME NEW t \in Tasks, GiveUp(t)
      PROVE  LockInv'
  BY <1>5 DEF GiveUp, NotYetCreated, OneToken, MutualExclusion
<1>6. ASSUME NEW t \in Tasks, Unlock(t)
      PROVE  LockInv'
  <2>1. s_log_mutex # NULL /\ tokens[s_log_mutex] = 0
    BY <1>6 DEF Unlock, NotYetCreated, OneToken
  <2>2. tokens' = [tokens EXCEPT ![s_log_mutex] = 1]
    BY <1>6, <2>1 DEF Unlock
  <2>3. \A u \in Tasks : stage'[u] # "critical"
    BY <1>6 DEF Unlock, MutualExclusion
  <2>4. TypeOK'
    BY <1>6, <2>1, <2>2 DEF Unlock
  <2>5. OneToken' /\ NotYetCreated' /\ MutualExclusion'
    BY <1>6, <2>1, <2>2, <2>3 DEF Unlock, OneToken, NotYetCreated, MutualExclusion
  <2> QED BY <2>4, <2>5
<1>7. CASE UNCHANGED vars
  BY <1>7 DEF vars, NotYetCreated, OneToken, MutualExclusion
<1> QED BY <1>1, <1>2, <1>3, <1>4, <1>5, <1>6, <1>7 DEF Next, InCall

(***************************************************************************)
(* When the first logging call of the program runs alone, two tasks are    *)
(* never in the critical section together, in either port.                 *)
(***************************************************************************)
THEOREM LockExcludes == FirstUseAlone => (Spec => []MutualExclusion)
<1> SUFFICES ASSUME FirstUseAlone PROVE Spec => []MutualExclusion
  OBVIOUS
<1>1. LockInv => MutualExclusion
  BY DEF LockInv
<1> QED BY <1>1, InitLock, NextLock, PTL DEF Spec

(***************************************************************************)
(* Under the same condition every variable keeps its type: no mutex ever   *)
(* has a token less than none.                                             *)
(***************************************************************************)
THEOREM LockTypes == FirstUseAlone => (Spec => []TypeOK)
<1> SUFFICES ASSUME FirstUseAlone PROVE Spec => []TypeOK
  OBVIOUS
<1>1. LockInv => TypeOK
  BY DEF LockInv
<1> QED BY <1>1, InitLock, NextLock, PTL DEF Spec

(***************************************************************************)
(* Under the same condition a waiting task always waits on the mutex that  *)
(* will be given back to.                                                  *)
(***************************************************************************)
THEOREM LockStays == FirstUseAlone => (Spec => []LockNotLost)
<1> SUFFICES ASSUME FirstUseAlone PROVE Spec => []LockNotLost
  OBVIOUS
<1>1. LockInv => LockNotLost
  BY LockAssumption
  DEF LockInv, TypeOK, NotYetCreated, OneToken, LockNotLost
<1> QED BY <1>1, InitLock, NextLock, PTL DEF Spec

(***************************************************************************)
(* The task in the critical section is the holder of the abstract lock.    *)
(***************************************************************************)
LEMMA HolderIs ==
  ASSUME MutualExclusion
  PROVE  /\ \A t \in Tasks : stage[t] = "critical" => Holder = t
         /\ (\A t \in Tasks : stage[t] # "critical") => Holder = NULL
  BY DEF MutualExclusion, Holder

(***************************************************************************)
(* The same of the next state.                                             *)
(***************************************************************************)
LEMMA HolderIsNext ==
  ASSUME MutualExclusion'
  PROVE  /\ \A t \in Tasks : stage'[t] = "critical" => Holder' = t
         /\ (\A t \in Tasks : stage'[t] # "critical") => Holder' = NULL
  BY DEF MutualExclusion, Holder

(***************************************************************************)
(* Under the same condition both ports implement the abstract lock.        *)
(***************************************************************************)
THEOREM LockImplemented == FirstUseAlone => (Spec => ImplementsMutex)
<1> SUFFICES ASSUME FirstUseAlone PROVE Spec => ImplementsMutex
  OBVIOUS
<1>1. Init => Abstract!Init
  BY DEF Init, Abstract!Init, Holder
<1>2. LockInv /\ LockInv' /\ [Next]_vars => [Abstract!Next]_Holder
  <2> SUFFICES ASSUME LockInv, LockInv', [Next]_vars
               PROVE  Abstract!Next \/ Holder' = Holder
    OBVIOUS
  <2> USE DEF GoesTo, LockInv, TypeOK
  <2>1. ASSUME NEW t \in Tasks, stage'[t] # "critical" <=> stage[t] # "critical",
               \A u \in Tasks \ {t} : stage'[u] = stage[u]
        PROVE  Holder' = Holder
    BY <2>1, HolderIs, HolderIsNext
  <2>2. ASSUME NEW t \in Tasks, NEW isTimed \in BOOLEAN, Enter(t, isTimed)
        PROVE  Holder' = Holder
    BY <2>1, <2>2 DEF Enter, Test
  <2>3. ASSUME NEW t \in Tasks, Create(t) \/ Call(t) \/ GiveUp(t)
        PROVE  Holder' = Holder
    BY <2>1, <2>3 DEF Create, Call, GiveUp
  <2>4. ASSUME NEW t \in Tasks, Take(t)
        PROVE  Abstract!Acquire(t)
    <3>1. \A u \in Tasks : stage[u] # "critical"
      BY <2>4, LockAssumption DEF Take, OneToken, NotYetCreated
    <3>2. stage'[t] = "critical"
      BY <2>4 DEF Take
    <3> QED BY <3>1, <3>2, HolderIs, HolderIsNext DEF Abstract!Acquire
  <2>5. ASSUME NEW t \in Tasks, Unlock(t)
        PROVE  Abstract!Release(t)
    <3>1. \A u \in Tasks : stage'[u] # "critical"
      BY <2>5 DEF Unlock, MutualExclusion
    <3> QED BY <2>5, <3>1, HolderIs, HolderIsNext DEF Unlock, Abstract!Release
  <2>6. CASE UNCHANGED vars
    BY <2>6 DEF vars, Holder
  <2> QED BY <2>2, <2>3, <2>4, <2>5, <2>6 DEF Next, InCall, Abstract!Next
<1> QED BY <1>1, <1>2, InitLock, NextLock, PTL
        DEF Spec, ImplementsMutex, Abstract!Spec
=============================================================================
