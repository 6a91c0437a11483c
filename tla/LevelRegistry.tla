---------------------------- MODULE LevelRegistry ----------------------------
(***************************************************************************)
(* What log_level_set and is_tag_level_visible promise together (log.h):   *)
(* a level per tag STRING over a default, and answers that always follow   *)
(* the level set last.  There is no list and no cache here.                *)
(***************************************************************************)
EXTENDS Integers

CONSTANTS TagPointers, Text, Wildcard, NULL, Levels, DEFAULT_LOG_LEVEL,
          MayTimeOut

VARIABLES
  defaultLevel,
  override,       \* a function from the tags with a level of their own
  reply

Effective(name) ==
  IF name \in DOMAIN override THEN override[name] ELSE defaultLevel

Init ==
  /\ defaultLevel = DEFAULT_LOG_LEVEL
  /\ override = [name \in {} |-> DEFAULT_LOG_LEVEL]
  /\ reply = [tag |-> NULL]

\* "*" gives every tag, known or not, the new level.
SetAll(level) ==
  /\ defaultLevel' = level
  /\ override' = [name \in {} |-> level]
  /\ reply' = [tag |-> NULL]

SetOne(name, level) ==
  /\ override' = [n \in DOMAIN override \cup {name} |->
                    IF n = name THEN level ELSE override[n]]
  /\ UNCHANGED defaultLevel
  /\ reply' = [tag |-> NULL]

\* There was no memory for a tag that had no level yet.
SetNothing(name) ==
  /\ name \notin DOMAIN override
  /\ reply' = [tag |-> NULL]
  /\ UNCHANGED <<defaultLevel, override>>

Set(p, level) ==
  IF Text[p] = Wildcard THEN SetAll(level)
                        ELSE SetOne(Text[p], level) \/ SetNothing(Text[p])

Ask(p, level) ==
  /\ reply' = [tag |-> p, level |-> level,
               visible |-> level <= Effective(Text[p])]
  /\ UNCHANGED <<defaultLevel, override>>

\* The port gave up waiting for the lock.
Refuse(p, level) ==
  /\ MayTimeOut
  /\ reply' = [tag |-> p, level |-> level, visible |-> FALSE]
  /\ UNCHANGED <<defaultLevel, override>>

Next ==
  \E p \in TagPointers, level \in Levels :
    Set(p, level) \/ Ask(p, level) \/ Refuse(p, level)

Spec == Init /\ [][Next]_<<defaultLevel, override, reply>>
=============================================================================
