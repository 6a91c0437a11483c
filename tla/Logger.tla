-------------------------------- MODULE Logger --------------------------------
(***************************************************************************)
(* The public functions of log.c as tasks call them: log_write,            *)
(* log_write_buffer_hex, _char and _hexdump, log_level_set,                *)
(* log_set_vprintf and log_set_writev, and the LOGx macros over them,      *)
(* composed of a lock (Mutex, which LogLock implements, or the flag of     *)
(* log_noos.c) and a registry of levels (LevelRegistry, which LogLevels    *)
(* implements).  A call is a frame on the stack of its task: a macro calls *)
(* log_write and a dump, a dump calls log_write for each line, and a print *)
(* function may log again.                                                 *)
(***************************************************************************)
EXTENDS Integers, FiniteSets, SequencesExt

CONSTANTS
  Tasks, NoTask,
  TagPointers, Text, Wildcard, NULL, Levels, DEFAULT_LOG_LEVEL,
  MessageLevels,   \* the levels of the messages
  Does,            \* task -> the operations it calls from its own code
  Owns,            \* task -> the functions it has to install
  vprintf, PrintFuncs,
  log_writev, WriteFuncs,
  MAXIMUM_ENABLED_LOG_LEVEL,   \* the macros above it are compiled to nothing
  DumpLines,       \* the lines of a buffer dump
  MaxNesting       \* bound: how deep print functions log

\* "macro" is a LOGx_BUFFER_*; LOGx is a log_write.
Operations == {"log", "dump", "macro", "set", "swap"}
Messages == {"log", "dump", "macro"}
Functions == PrintFuncs \cup WriteFuncs

ASSUME LoggerAssumption ==
  /\ NoTask \notin Tasks
  /\ Does \in [Tasks -> SUBSET Operations]
  /\ vprintf \in PrintFuncs /\ log_writev \in WriteFuncs
  /\ PrintFuncs \cap WriteFuncs = {}
  /\ Owns \in [Tasks -> SUBSET (Functions \ {vprintf, log_writev})]
  /\ \A t, u \in Tasks : t # u => Owns[t] \cap Owns[u] = {}
  /\ DumpLines \in Nat /\ MaxNesting \in Nat
  /\ Levels \subseteq Int /\ MessageLevels \subseteq Int
  /\ DEFAULT_LOG_LEVEL \in Levels

VARIABLES
  port,            \* "tasks", or "noos": one program, the flag s_lock
  defaultLevel, override,             \* of LevelRegistry
  holder,                             \* of Mutex
  s_log_print_func, s_writev_func,
  calls,           \* task -> its stack of frames, the running one last
  owned            \* task -> the functions in its hands

vars == <<port, defaultLevel, override, holder,
          s_log_print_func, s_writev_func, calls, owned>>
levelVars == <<defaultLevel, override>>
funcVars == <<s_log_print_func, s_writev_func, owned>>

\* The answer of a lookup goes into the frame of the call.
Registry == INSTANCE LevelRegistry WITH MayTimeOut <- FALSE, reply <- [tag |-> NULL]
Lock == INSTANCE Mutex

-----------------------------------------------------------------------------
(* Frames *)

\* The calls a message is made of: a macro writes its message and then the
\* buffer, a dump writes its lines.
Parts(op) ==
  CASE op = "macro" -> <<"log", "dump">>
    [] op = "dump" -> [i \in 1 .. DumpLines |-> "log"]
    [] op = "log" -> <<>>

\* `seen` is a history variable: whether the message was visible, at each
\* moment since the call.
Message(op, p, level) ==
  [op |-> op,
   at |-> CASE op = "log" -> "entry" [] op = "dump" -> "lock" [] op = "macro" -> "parts",
   tag |-> p, level |-> level, verdict |-> "none",
   seen |-> {level <= Registry!Effective(Text[p])},
   parts |-> Parts(op), output |-> 0, unfiltered |-> FALSE, refused |-> FALSE]

Setting(p, level) == [op |-> "set", at |-> "lock", tag |-> p, level |-> level]

Swap(func) == [op |-> "swap", at |-> "lock", new |-> func, orig |-> NULL]

Running(t) == calls[t] # <<>>
Top(t) == Last(calls[t])
At(t, op, stage) == Running(t) /\ Top(t).op \in op /\ Top(t).at = stage

Push(t, frame) == calls' = [calls EXCEPT ![t] = Append(@, frame)]
Replace(t, frame) == calls' = [calls EXCEPT ![t] = Append(Front(@), frame)]
GoesTo(t, stage) == Replace(t, [Top(t) EXCEPT !.at = stage])

\* A task's own code, outside every call, starts one.
Begin(t) ==
  /\ ~Running(t)
  /\ port = "noos" => \A u \in Tasks : ~Running(u)
  /\ \/ \E p \in TagPointers, level \in MessageLevels, op \in Does[t] \cap Messages :
          /\ Text[p] # Wildcard
          /\ op = "macro" => level <= MAXIMUM_ENABLED_LOG_LEVEL
          /\ Push(t, Message(op, p, level))
          /\ UNCHANGED owned
     \/ /\ "set" \in Does[t]
        /\ \E p \in TagPointers, level \in Levels : Push(t, Setting(p, level))
        /\ UNCHANGED owned
     \/ /\ "swap" \in Does[t]
        /\ \E func \in owned[t] :
             /\ Push(t, Swap(func))
             /\ owned' = [owned EXCEPT ![t] = @ \ {func}]
  /\ UNCHANGED <<port, levelVars, holder, s_log_print_func, s_writev_func>>

-----------------------------------------------------------------------------
(* is_tag_level_visible, in log_writev and at the head of a dump *)

\* Mutant of log_write: a line of a dump is put out on the word of the dump.
log_write_of_dump(t) ==
  /\ At(t, {"log"}, "entry")
  /\ IF Len(calls[t]) > 1 /\ calls[t][Len(calls[t]) - 1].op = "dump"
     THEN Replace(t, [Top(t) EXCEPT !.at = "handler", !.verdict = "visible"])
     ELSE GoesTo(t, "lock")
  /\ UNCHANGED <<levelVars, holder, funcVars>>

\* log_write reads s_writev_func without the lock.  A custom one is the
\* caller's: it puts the message out unfiltered.
log_write(t) ==
  /\ At(t, {"log"}, "entry")
  /\ IF s_writev_func = log_writev
     THEN GoesTo(t, "lock")
     ELSE Replace(t, [Top(t) EXCEPT !.at = "handler", !.verdict = "custom"])
  /\ UNCHANGED <<levelVars, holder, funcVars>>

\* log_impl_lock or log_impl_lock_timeout.  Without tasks nobody waits:
\* assert(s_lock == 0) of log_noos.c stops the program.
TakeLock(t) ==
  /\ At(t, Operations, "lock")
  /\ IF port = "noos" /\ holder # NoTask
     THEN GoesTo(t, "aborted") /\ UNCHANGED holder
     ELSE Lock!Acquire(t) /\ GoesTo(t, "locked")
  /\ UNCHANGED <<levelVars, funcVars>>

LockTimesOut(t) ==
  /\ port = "tasks" /\ At(t, {"log", "dump"}, "lock")
  /\ Lock!Refused(t)
  /\ Replace(t, [Top(t) EXCEPT !.at = "return", !.verdict = "refused", !.refused = TRUE])
  /\ UNCHANGED <<levelVars, funcVars>>

LookUp(t) ==
  /\ At(t, {"log", "dump"}, "locked")
  /\ Replace(t, [Top(t) EXCEPT !.at = "unlock",
                   !.verdict = IF Top(t).level <= Registry!Effective(Text[Top(t).tag])
                               THEN "visible" ELSE "filtered"])
  /\ UNCHANGED <<levelVars, holder, funcVars>>

\* Where a call goes on when it has given the lock back.
AfterUnlock(frame) ==
  CASE frame.op = "log" /\ frame.verdict = "visible" -> "handler"
    [] frame.op = "dump" /\ frame.verdict = "visible" -> "parts"
    [] OTHER -> "return"

\* Mutant of Unlock: a visible message is put out before the unlock, which
\* its path then forgets.
UnlockFiltered(t) ==
  /\ At(t, Operations, "unlock")
  /\ IF AfterUnlock(Top(t)) = "handler" THEN UNCHANGED holder ELSE Lock!Release(t)
  /\ GoesTo(t, AfterUnlock(Top(t)))
  /\ UNCHANGED <<levelVars, funcVars>>

\* log_impl_unlock
Unlock(t) ==
  /\ At(t, Operations, "unlock")
  /\ Lock!Release(t)
  /\ GoesTo(t, AfterUnlock(Top(t)))
  /\ UNCHANGED <<levelVars, funcVars>>

-----------------------------------------------------------------------------
(* Output *)

\* The print function log_writev read without the lock, or a custom writev
\* function, is the caller's code: it may log in its turn.
HandlerLogs(t) ==
  /\ At(t, {"log"}, "handler")
  /\ Cardinality({i \in DOMAIN calls[t] : calls[t][i].at = "handled"}) < MaxNesting
  /\ \E p \in TagPointers, level \in MessageLevels :
       /\ Text[p] # Wildcard
       /\ calls' = [calls EXCEPT ![t] =
                      Front(@) \o <<[Top(t) EXCEPT !.at = "handled"], Message("log", p, level)>>]
  /\ UNCHANGED <<levelVars, holder, funcVars>>

HandlerReturns(t) ==
  /\ At(t, {"log"}, "handler") \/ At(t, {"log"}, "handled")
  /\ GoesTo(t, "return")
  /\ UNCHANGED <<levelVars, holder, funcVars>>

\* Mutant of NextPart: a part is written one level up.
NextPartQuieter(t) ==
  /\ At(t, {"dump", "macro"}, "parts")
  /\ IF Top(t).parts = <<>>
     THEN GoesTo(t, "return")
     ELSE calls' = [calls EXCEPT ![t] =
                      Front(@) \o <<[Top(t) EXCEPT !.parts = Tail(@)],
                                    Message(Head(Top(t).parts), Top(t).tag, Top(t).level + 1)>>]
  /\ UNCHANGED <<levelVars, holder, funcVars>>

\* Mutant of NextPart: the loop does not advance.
NextPartAgain(t) ==
  /\ At(t, {"dump", "macro"}, "parts")
  /\ calls' = [calls EXCEPT ![t] =
                 Append(@, Message(Head(Top(t).parts), Top(t).tag, Top(t).level))]
  /\ UNCHANGED <<levelVars, holder, funcVars>>

\* log_write_buffer_* behind the log_write of a macro; the log_write of each
\* line of a dump.  Each looks the level up again.
NextPart(t) ==
  /\ At(t, {"dump", "macro"}, "parts")
  /\ IF Top(t).parts = <<>>
     THEN GoesTo(t, "return")
     ELSE calls' = [calls EXCEPT ![t] =
                      Front(@) \o <<[Top(t) EXCEPT !.parts = Tail(@)],
                                    Message(Head(Top(t).parts), Top(t).tag, Top(t).level)>>]
  /\ UNCHANGED <<levelVars, holder, funcVars>>

-----------------------------------------------------------------------------
(* log_level_set, log_set_vprintf and log_set_writev, under the lock *)

\* `now` is the level of each tag.
Observed(frame, now) ==
  IF frame.op \in Messages
  THEN [frame EXCEPT !.seen = @ \cup {frame.level <= now[frame.tag]}]
  ELSE frame

SetLevel(t) ==
  /\ At(t, {"set"}, "locked")
  /\ Registry!Set(Top(t).tag, Top(t).level)
  /\ \E now \in [TagPointers -> Levels] :
       /\ \A p \in TagPointers : now[p] = Registry!Effective(Text[p])'
       /\ calls' = [u \in Tasks |->
                      [i \in DOMAIN calls[u] |->
                         IF u = t THEN [calls[u][i] EXCEPT !.at = "unlock"]
                                  ELSE Observed(calls[u][i], now)]]
  /\ UNCHANGED <<holder, funcVars>>

\* Mutant of ReadFunc: the lock is given back between the read and the write.
ReadFuncUnlock(t) ==
  /\ At(t, {"swap"}, "locked")
  /\ Lock!Release(t)
  /\ Replace(t, [Top(t) EXCEPT !.at = "install",
                   !.orig = IF Top(t).new \in PrintFuncs THEN s_log_print_func
                                                         ELSE s_writev_func])
  /\ UNCHANGED <<levelVars, funcVars>>

ReadFunc(t) ==
  /\ At(t, {"swap"}, "locked")
  /\ Replace(t, [Top(t) EXCEPT !.at = "install",
                   !.orig = IF Top(t).new \in PrintFuncs THEN s_log_print_func
                                                         ELSE s_writev_func])
  /\ UNCHANGED <<levelVars, holder, funcVars>>

WriteFunc(t) ==
  /\ At(t, {"swap"}, "install")
  /\ IF Top(t).new \in PrintFuncs
     THEN s_log_print_func' = Top(t).new /\ UNCHANGED s_writev_func
     ELSE s_writev_func' = Top(t).new /\ UNCHANGED s_log_print_func
  /\ GoesTo(t, "unlock")
  /\ UNCHANGED <<levelVars, holder, owned>>

-----------------------------------------------------------------------------

\* A dump or a macro counts what became of its lines.
Credited(frame, part) ==
  IF frame.op \in {"dump", "macro"}
  THEN [frame EXCEPT
          !.output = @ + IF part.op = "dump" THEN part.output
                         ELSE IF part.verdict \in {"visible", "custom"} THEN 1 ELSE 0,
          !.unfiltered = @ \/ part.verdict = "custom",
          !.refused = @ \/ part.refused]
  ELSE frame

\* A call returns; a swap hands the old function to its task.
Return(t) ==
  /\ At(t, Operations, "return")
  /\ LET below == Front(calls[t])
     IN  calls' = [calls EXCEPT ![t] =
                     IF below = <<>> THEN <<>>
                     ELSE Append(Front(below), Credited(Last(below), Top(t)))]
  /\ owned' = IF Top(t).op = "swap" THEN [owned EXCEPT ![t] = @ \cup {Top(t).orig}] ELSE owned
  /\ UNCHANGED <<levelVars, holder, s_log_print_func, s_writev_func>>

Step(t) ==
  /\ UNCHANGED port
  /\ \/ log_write(t) \/ TakeLock(t) \/ LockTimesOut(t) \/ LookUp(t)
     \/ Unlock(t)
     \/ HandlerLogs(t) \/ HandlerReturns(t) \/ NextPart(t)
     \/ SetLevel(t) \/ ReadFunc(t) \/ WriteFunc(t)
     \/ Return(t)

Init ==
  /\ port \in {"tasks", "noos"}
  /\ Registry!Init
  /\ Lock!Init
  /\ s_log_print_func = vprintf
  /\ s_writev_func = log_writev
  /\ calls = [t \in Tasks |-> <<>>]
  /\ owned = Owns

Next == \E t \in Tasks : Begin(t) \/ Step(t)

(***************************************************************************)
(* A task that is inside a call gets to run and the print functions        *)
(* return; nobody has to call the logger.                                  *)
(***************************************************************************)
Spec == Init /\ [][Next]_vars /\ \A t \in Tasks : WF_vars(Step(t))

-----------------------------------------------------------------------------
(* Properties *)

Stages == {"entry", "lock", "locked", "install", "unlock", "parts",
           "handler", "handled", "return"}
Verdicts == {"none", "visible", "filtered", "refused", "custom"}

Frames ==
  [op : Messages, at : Stages, tag : TagPointers, level : MessageLevels,
   verdict : Verdicts, seen : SUBSET BOOLEAN,
   parts : {<<"log", "dump">>, <<"dump">>} \cup {[i \in 1 .. n |-> "log"] : n \in 0 .. DumpLines},
   output : 0 .. DumpLines + 1, unfiltered : BOOLEAN, refused : BOOLEAN]
  \cup [op : {"set"}, at : Stages, tag : TagPointers, level : Levels]
  \cup [op : {"swap"}, at : Stages, new : Functions, orig : Functions \cup {NULL}]

TypeOK ==
  /\ port \in {"tasks", "noos"}
  /\ defaultLevel \in Levels
  /\ \A name \in DOMAIN override : override[name] \in Levels
  /\ holder \in Tasks \cup {NoTask}
  /\ s_log_print_func \in PrintFuncs /\ s_writev_func \in WriteFuncs
  /\ calls \in [Tasks -> Seq(Frames)]
  /\ owned \in [Tasks -> SUBSET Functions]

(***************************************************************************)
(* A message is decided by a level its tag had during the call, although   *)
(* the comparison is made after the unlock and the output after that: what *)
(* is put out was visible at some moment since log_write was called, what  *)
(* is filtered was not.  A refused lock drops a message whatever its level.*)
(***************************************************************************)
LevelDecides ==
  \A t \in Tasks : \A i \in DOMAIN calls[t] :
    LET f == calls[t][i] IN
    f.op \in {"log", "dump"} =>
      /\ f.verdict = "visible" => TRUE \in f.seen
      /\ f.verdict = "filtered" => FALSE \in f.seen

(***************************************************************************)
(* A dump, and a macro's message with its dump, is only cut by a change of *)
(* the level or a refused lock while it runs: what is visible throughout   *)
(* has every line, what is never visible has none, although the level is   *)
(* looked up again for every part.  A custom write function filters        *)
(* nothing: it puts the message of a macro out, without the dump.          *)
(***************************************************************************)
DumpWholeOrNothing ==
  \A t \in Tasks :
    At(t, {"dump", "macro"}, "return") =>
      LET headers == IF Top(t).op = "macro" THEN 1 ELSE 0
      IN  /\ Top(t).seen = {TRUE} /\ ~Top(t).refused => Top(t).output = headers + DumpLines
          /\ Top(t).seen = {FALSE} =>
               Top(t).output = IF Top(t).unfiltered THEN headers ELSE 0

(***************************************************************************)
(* A task never asks for the lock it holds: print functions run without    *)
(* it, on every path, so that a mutex that is not recursive admits a print *)
(* function that logs, and the asserts of the port without tasks hold.     *)
(***************************************************************************)
LockFreeInHandlers ==
  \A t \in Tasks :
    /\ ~At(t, Operations, "aborted")
    /\ holder = t => Running(t) /\ Top(t).at \in {"locked", "install", "unlock"}

\* Where a function is: installed, in a task's hands, on its way there or back.
Places(func) ==
  {<<"installed">> : x \in {func} \cap {s_log_print_func, s_writev_func}}
  \cup {<<"owned", t>> : t \in {u \in Tasks : func \in owned[u]}}
  \cup {<<"going", t>> : t \in {u \in Tasks :
          \E stage \in {"lock", "locked", "install"} :
             At(u, {"swap"}, stage) /\ Top(u).new = func}}
  \cup {<<"coming", t>> : t \in {u \in Tasks :
          \E stage \in {"unlock", "return"} :
             At(u, {"swap"}, stage) /\ Top(u).orig = func}}

(***************************************************************************)
(* log_set_vprintf and log_set_writev return the function they replaced,   *)
(* also when tasks swap at the same time: no function is lost and none is  *)
(* handed to two tasks, so putting the old one back always works.          *)
(***************************************************************************)
FunctionsConserved ==
  \A func \in PrintFuncs \cup WriteFuncs :
    (func \in {vprintf, log_writev} \cup UNION {Owns[t] : t \in Tasks})
      => Cardinality(Places(func)) = 1

(***************************************************************************)
(* A logging statement returns, whatever the other tasks do with the lock  *)
(* and although its print function may log.                                *)
(***************************************************************************)
LoggingReturns ==
  \A t \in Tasks :
    (Running(t) /\ calls[t][1].op \in Messages) ~> ~Running(t)
=============================================================================
