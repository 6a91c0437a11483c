------------------------------- MODULE TagList -------------------------------
(***************************************************************************)
(* The list s_log_tags at the level of its pointers: the SLIST macros of   *)
(* queue.h as log_level_set, clear_log_level_list and                      *)
(* get_uncached_log_level of log.c use them, with malloc and free, one     *)
(* statement at a time, by tasks that share the lock (Mutex).              *)
(* LogLevels has the same list as a sequence and each call as one step;    *)
(* the cache is LogLevels' part and is left out here: a lookup is one that *)
(* missed the cache.                                                       *)
(***************************************************************************)
EXTENDS Naturals, FiniteSets

CONSTANTS
  Tasks, NoTask,
  Nodes,               \* the blocks of memory malloc can hand out
  NULL,
  Junk,                \* what is in a variable or a block nobody has written
  Tags, Wildcard,      \* the tag strings; strcmp and strncpy go by content
  Levels,
  DEFAULT_LOG_LEVEL

ASSUME TagListAssumption ==
  /\ NoTask \notin Tasks
  /\ IsFiniteSet(Nodes) /\ NULL \notin Nodes
  /\ Junk \notin Nodes \cup {NULL} \cup Tags \cup Levels
  /\ Wildcard \in Tags /\ DEFAULT_LOG_LEVEL \in Levels

VARIABLES
  slh_first,             \* the list head
  node,                  \* block -> its [tag, level, sle_next]
  allocated,             \* the blocks handed out and not freed
  s_log_default_level,
  holder,                \* of Mutex
  call,                  \* task -> the call it is in, with its locals
  committed,             \* history: the levels when the lock was last released
  reply                  \* the answer of the last call

heapVars == <<slh_first, node, allocated>>
specVars == <<committed, reply>>
vars == <<heapVars, s_log_default_level, holder, call, specVars>>

Lock == INSTANCE Mutex

-----------------------------------------------------------------------------
(* Calls *)

NoCall == [op |-> "none", at |-> "idle"]
At(t, stage) == call[t].at = stage
GoesTo(t, stage) == call' = [call EXCEPT ![t].at = stage]

\* A call that has the lock: log_impl_lock in log_level_set, then strcmp with
\* "*"; log_impl_lock_timeout in a lookup.  What walks the list begins with
\* SLIST_FIRST.
Enter(t) ==
  /\ call[t] = NoCall
  /\ Lock!Acquire(t)
  /\ \E op \in {"set", "get"}, tag \in Tags, level \in Levels :
       call' = [call EXCEPT ![t] =
                  [op |-> op, tag |-> tag, level |-> level,
                   at |-> IF op = "set" /\ tag = Wildcard THEN "default" ELSE "walk",
                   it |-> IF op = "set" /\ tag = Wildcard THEN Junk ELSE slh_first,
                   new_entry |-> Junk, level_for_tag |-> Junk]]
  /\ UNCHANGED <<heapVars, s_log_default_level, specVars>>

LockTimesOut(t) ==
  /\ call[t] = NoCall
  /\ Lock!Refused(t)
  /\ \E tag \in Tags, level \in Levels :
       reply' = [tag |-> tag, level |-> level, visible |-> FALSE]
  /\ UNCHANGED <<heapVars, s_log_default_level, call, committed>>

-----------------------------------------------------------------------------
(* log_level_set of "*", and clear_log_level_list *)

SetDefault(t) ==
  /\ At(t, "default")
  /\ s_log_default_level' = call[t].level
  /\ GoesTo(t, "clear")
  /\ UNCHANGED <<heapVars, holder, specVars>>

\* while ((it = SLIST_FIRST(&s_log_tags)) != NULL)
ClearTest(t) ==
  /\ At(t, "clear")
  /\ call' = [call EXCEPT ![t].it = slh_first,
                          ![t].at = IF slh_first = NULL THEN "unlock" ELSE "remove"]
  /\ UNCHANGED <<heapVars, s_log_default_level, holder, specVars>>

\* SLIST_REMOVE_HEAD
RemoveHead(t) ==
  /\ At(t, "remove")
  /\ slh_first' = node[slh_first].sle_next
  /\ GoesTo(t, "free")
  /\ UNCHANGED <<node, allocated, s_log_default_level, holder, specVars>>

\* Mutant of Free: the entries are unlinked and forgotten.
FreeNothing(t) ==
  /\ At(t, "free")
  /\ GoesTo(t, "clear")
  /\ UNCHANGED <<heapVars, s_log_default_level, holder, specVars>>

JunkNode == [tag |-> Junk, level |-> Junk, sle_next |-> Junk]

Free(t) ==
  /\ At(t, "free")
  /\ allocated' = allocated \ {call[t].it}
  /\ node' = [node EXCEPT ![call[t].it] = JunkNode]
  /\ GoesTo(t, "clear")
  /\ UNCHANGED <<slh_first, s_log_default_level, holder, specVars>>

-----------------------------------------------------------------------------
(* SLIST_FOREACH in log_level_set and in get_uncached_log_level *)

\* Mutant of Meets: the walk gives up at the last entry.
MeetsButLast(t) ==
  /\ At(t, "walk") /\ call[t].it # NULL
  /\ node[call[t].it].tag = call[t].tag /\ node[call[t].it].sle_next # NULL

\* strcmp finds the tag of the entry `it`.
Meets(t) ==
  At(t, "walk") /\ call[t].it # NULL /\ node[call[t].it].tag = call[t].tag

\* SLIST_NEXT
NextEntry(t) ==
  /\ At(t, "walk") /\ call[t].it # NULL /\ ~Meets(t)
  /\ call' = [call EXCEPT ![t].it = node[call[t].it].sle_next]
  /\ UNCHANGED <<heapVars, s_log_default_level, holder, specVars>>

UpdateLevel(t) ==
  /\ Meets(t) /\ call[t].op = "set"
  /\ node' = [node EXCEPT ![call[t].it].level = call[t].level]
  /\ GoesTo(t, "unlock")
  /\ UNCHANGED <<slh_first, allocated, s_log_default_level, holder, specVars>>

ReadLevel(t) ==
  /\ Meets(t) /\ call[t].op = "get"
  /\ call' = [call EXCEPT ![t].level_for_tag = node[call[t].it].level, ![t].at = "unlock"]
  /\ UNCHANGED <<heapVars, s_log_default_level, holder, specVars>>

\* Mutant of TakeDefault: the level of the caller is left unset.
TakeNothing(t) ==
  /\ At(t, "walk") /\ call[t].it = NULL /\ call[t].op = "get"
  /\ GoesTo(t, "unlock")
  /\ UNCHANGED <<heapVars, s_log_default_level, holder, specVars>>

\* get_uncached_log_level returned false.
TakeDefault(t) ==
  /\ At(t, "walk") /\ call[t].it = NULL /\ call[t].op = "get"
  /\ call' = [call EXCEPT ![t].level_for_tag = s_log_default_level, ![t].at = "unlock"]
  /\ UNCHANGED <<heapVars, s_log_default_level, holder, specVars>>

-----------------------------------------------------------------------------
(* log_level_set appends a new entry at the head *)

Allocate(t) ==
  /\ At(t, "walk") /\ call[t].it = NULL /\ call[t].op = "set"
  /\ \E n \in Nodes \ allocated :
       /\ allocated' = allocated \cup {n}
       /\ call' = [call EXCEPT ![t].new_entry = n, ![t].at = "fill"]
  /\ UNCHANGED <<slh_first, node, s_log_default_level, holder, specVars>>

\* Mutant of AllocationFails: the early return forgets the lock.
AllocationFailsLocked(t) ==
  /\ At(t, "walk") /\ call[t].it = NULL /\ call[t].op = "set"
  /\ call' = [call EXCEPT ![t] = NoCall]
  /\ UNCHANGED <<heapVars, s_log_default_level, holder, specVars>>

\* malloc returned NULL: log_impl_unlock and return.
AllocationFails(t) ==
  /\ At(t, "walk") /\ call[t].it = NULL /\ call[t].op = "set"
  /\ GoesTo(t, "unlock")
  /\ UNCHANGED <<heapVars, s_log_default_level, holder, specVars>>

Fill(t) ==
  /\ At(t, "fill")
  /\ node' = [node EXCEPT ![call[t].new_entry].level = call[t].level,
                          ![call[t].new_entry].tag = call[t].tag]
  /\ GoesTo(t, "link")
  /\ UNCHANGED <<slh_first, allocated, s_log_default_level, holder, specVars>>

\* Mutant of LinkNext: the new entry is not linked to the old ones.
LinkNothing(t) ==
  /\ At(t, "link")
  /\ GoesTo(t, "insert")
  /\ UNCHANGED <<heapVars, s_log_default_level, holder, specVars>>

\* SLIST_INSERT_HEAD, its two statements
LinkNext(t) ==
  /\ At(t, "link")
  /\ node' = [node EXCEPT ![call[t].new_entry].sle_next = slh_first]
  /\ GoesTo(t, "insert")
  /\ UNCHANGED <<slh_first, allocated, s_log_default_level, holder, specVars>>

InsertHead(t) ==
  /\ At(t, "insert")
  /\ slh_first' = call[t].new_entry
  /\ GoesTo(t, "unlock")
  /\ UNCHANGED <<node, allocated, s_log_default_level, holder, specVars>>

-----------------------------------------------------------------------------
(* The list as a whole, for the history variable and the properties *)

\* The entry k steps from the head, NULL behind the last one.
Entry[k \in 0 .. Cardinality(Nodes)] ==
  IF k = 0 THEN slh_first
  ELSE IF Entry[k - 1] \in Nodes THEN node[Entry[k - 1]].sle_next ELSE NULL

Listed == {Entry[k] : k \in 0 .. Cardinality(Nodes)} \cap Nodes

\* The entry a walk finds for `tag`.
Found(tag) ==
  Entry[CHOOSE k \in 0 .. Cardinality(Nodes) :
          /\ Entry[k] \in Nodes /\ node[Entry[k]].tag = tag
          /\ \A j \in 0 .. k - 1 : node[Entry[j]].tag # tag]

LevelsInForce ==
  [defaultLevel |-> s_log_default_level,
   override |-> [tag \in {node[n].tag : n \in Listed} |-> node[Found(tag)].level]]

\* log_impl_unlock; a lookup then compares its local copy (should_output).
Unlock(t) ==
  /\ At(t, "unlock")
  /\ Lock!Release(t)
  /\ committed' = LevelsInForce
  /\ reply' = IF call[t].op = "set" THEN [tag |-> NULL]
              ELSE [tag |-> call[t].tag, level |-> call[t].level,
                    visible |-> call[t].level <= call[t].level_for_tag]
  /\ call' = [call EXCEPT ![t] = NoCall]
  /\ UNCHANGED <<heapVars, s_log_default_level>>

-----------------------------------------------------------------------------

Step(t) ==
  \/ Unlock(t)
  \/ SetDefault(t) \/ ClearTest(t) \/ RemoveHead(t) \/ Free(t)
  \/ NextEntry(t) \/ UpdateLevel(t) \/ ReadLevel(t) \/ TakeDefault(t)
  \/ Allocate(t) \/ AllocationFails(t) \/ Fill(t) \/ LinkNext(t) \/ InsertHead(t)

Init ==
  /\ slh_first = NULL
  /\ node = [n \in Nodes |-> JunkNode]
  /\ allocated = {}
  /\ s_log_default_level = DEFAULT_LOG_LEVEL
  /\ Lock!Init
  /\ call = [t \in Tasks |-> NoCall]
  /\ committed = LevelsInForce
  /\ reply = [tag |-> NULL]

Next == \E t \in Tasks : Enter(t) \/ LockTimesOut(t) \/ Step(t)

\* A task inside a call gets to run; nobody has to call the logger.
Spec == Init /\ [][Next]_vars /\ \A t \in Tasks : WF_vars(Step(t))

-----------------------------------------------------------------------------
(* Properties *)

Stages == {"default", "clear", "remove", "free", "walk", "fill",
           "link", "insert", "unlock"}
Calls ==
  {NoCall} \cup
  [op : {"set", "get"}, at : Stages, tag : Tags, level : Levels,
   it : Nodes \cup {NULL, Junk}, new_entry : Nodes \cup {Junk},
   level_for_tag : Levels \cup {Junk}]

TypeOK ==
  /\ slh_first \in Nodes \cup {NULL}
  /\ node \in [Nodes -> [tag : Tags \cup {Junk}, level : Levels \cup {Junk},
                         sle_next : Nodes \cup {NULL, Junk}]]
  /\ allocated \subseteq Nodes
  /\ s_log_default_level \in Levels
  /\ holder \in Tasks \cup {NoTask}
  /\ \A t \in Tasks :
       /\ call[t] \in Calls
       /\ At(t, "unlock") /\ call[t].op = "get" => call[t].level_for_tag \in Levels

(***************************************************************************)
(* No pointer dangles: the list ends, its entries are allocated and        *)
(* completely written, and the entry a walk stands on is in the list,      *)
(* although clear_log_level_list frees entries of a list other tasks walk. *)
(***************************************************************************)
MemorySafe ==
  /\ Entry[Cardinality(Nodes)] = NULL
  /\ \A n \in Listed :
       n \in allocated /\ node[n].tag \in Tags \ {Wildcard} /\ node[n].level \in Levels
  /\ \A t \in Tasks : At(t, "walk") => call[t].it \in Listed \cup {NULL}

\* The block a task has in its hands: not linked yet, or not freed yet.
InHand(t) ==
  {n \in Nodes : \/ call[t].at \in {"fill", "link", "insert"} /\ n = call[t].new_entry
                 \/ At(t, "free") /\ n = call[t].it}

(***************************************************************************)
(* No block is lost and none is freed twice: every allocated one is in the *)
(* list or in the hands of one call, through resets and failed calls.      *)
(***************************************************************************)
NothingLeaks ==
  /\ allocated = Listed \cup UNION {InHand(t) : t \in Tasks}
  /\ \A t \in Tasks : InHand(t) \cap Listed = {}

(***************************************************************************)
(* The statements on the list, seen when the lock is released, are the     *)
(* calls of the registry of levels by tag: what is half done is seen by    *)
(* nobody, and a failed malloc changes nothing.                            *)
(***************************************************************************)
Registry == INSTANCE LevelRegistry WITH
  TagPointers <- Tags, Text <- [tag \in Tags |-> tag], MayTimeOut <- TRUE,
  defaultLevel <- committed.defaultLevel, override <- committed.override

ImplementsRegistry == Registry!Spec

(***************************************************************************)
(* A task that enters the critical section leaves it: every loop over the  *)
(* list ends and every path, failed allocation included, gives the lock    *)
(* back.                                                                   *)
(***************************************************************************)
SectionEnds == \A t \in Tasks : holder = t ~> holder # t
=============================================================================
