------------------------------ MODULE Timestamps ------------------------------
(***************************************************************************)
(* The clocks of the three ports: log_timestamp and log_early_timestamp,   *)
(* which every LOGx macro puts in front of its message, and                *)
(* log_system_timestamp of the FreeRTOS port with its static buffer.       *)
(* Times are milliseconds since the reset; the clock may jump from one of  *)
(* the moments explored to any later one.                                  *)
(***************************************************************************)
EXTENDS Integers, FiniteSetsExt

CONSTANTS
  Tasks, NoTask,
  Core,            \* task -> the core it runs on, 0 or 1
  Moments,         \* bound: the times explored, the reset among them
  MsPerTick,       \* 1000 / configTICK_RATE_HZ
  EarlyModulus,    \* the milliseconds after which the cycle counter is 0 again
  BufferSize,      \* 18 in the code
  MaxCount         \* bound: the calls explored on a system without a clock

ASSUME TimestampsAssumption ==
  /\ NoTask \notin Tasks /\ Core \in [Tasks -> {0, 1}]
  /\ IsFiniteSet(Moments) /\ Moments \subseteq Nat /\ 0 \in Moments
  /\ {MsPerTick, EarlyModulus, MaxCount} \subseteq Nat \ {0}
  /\ BufferSize \in Nat

VARIABLES
  port,            \* the port the configuration picked
  uses,            \* the function the program calls: the two share no state
  now, started,    \* the time, and when the scheduler started
  base,            \* log_timestamp's static variable (FreeRTOS)
  timestamp,       \* the counter of the port without an operating system
  buffer, bufferLock,
  call,            \* task -> the call it is in, with its locals
  latest,          \* history: the largest stamp returned so far
  settledLatest,   \* history: the same of the calls that began with base settled
  trusted          \* history: no race for base, no wrapped cycle counter

config == <<port, uses>>
clockVars == <<now, started>>
textVars == <<buffer, bufferLock>>
vars == <<config, clockVars, base, timestamp, textVars, call, latest, settledLatest, trusted>>

Never == -1
Running == started # Never
Idle == [at |-> "idle"]
At(t, stage) == call[t].at = stage
GoesTo(t, stage) == call' = [call EXCEPT ![t].at = stage]
Answers(t, stamp) == call' = [call EXCEPT ![t] = [@ EXCEPT !.at = "done", !.ticks = 0, !.stamp = stamp]]

-----------------------------------------------------------------------------
(* The environment *)

Passes ==
  /\ now' \in {m \in Moments : m > now}
  /\ UNCHANGED <<config, started, base, timestamp, textVars, call, latest, settledLatest, trusted>>

\* vTaskStartScheduler is called by the one program there is before it.
SchedulerStarts ==
  /\ port = "freertos" /\ ~Running
  /\ \A t \in Tasks : call[t] = Idle
  /\ started' = now
  /\ UNCHANGED <<config, now, base, timestamp, textVars, call, latest, settledLatest, trusted>>

\* One program counter: no operating system, or none yet.
OneContext == port = "noos" \/ (port = "freertos" /\ ~Running)

\* base is set, and nobody who found it unset has still to set it.
BaseSettled == base # 0 /\ \A t \in Tasks : ~At(t, "unset") /\ ~At(t, "read")

Calls(t) ==
  /\ call[t] = Idle
  /\ OneContext => Core[t] = 0 /\ \A u \in Tasks : call[u] = Idle
  /\ call' = [call EXCEPT ![t] =
       [at |-> "called", floor |-> latest,
        follows |-> port # "freertos" \/ Core[t] = 0 \/ base # 0,
        since |-> IF BaseSettled THEN settledLatest ELSE Never,
        early |-> 0, ticks |-> 0, stamp |-> 0, piece |-> 0]]
  /\ UNCHANGED <<config, clockVars, base, timestamp, textVars, latest, settledLatest, trusted>>

-----------------------------------------------------------------------------
(* log_timestamp and log_early_timestamp without FreeRTOS *)

\* timestamp++ in both functions of the port without an operating system.
CounterStamp(t) ==
  /\ port = "noos" /\ At(t, "called") /\ timestamp < MaxCount
  /\ timestamp' = timestamp + 1
  /\ Answers(t, timestamp)
  /\ UNCHANGED <<config, clockVars, base, textVars, latest, settledLatest, trusted>>

\* clock() in both functions of the pthreads port.
ClockStamp(t) ==
  /\ port = "pthreads" /\ At(t, "called")
  /\ Answers(t, now)
  /\ UNCHANGED <<config, clockVars, base, timestamp, textVars, latest, settledLatest, trusted>>

-----------------------------------------------------------------------------
(* log_timestamp on FreeRTOS *)

\* Mutant of log_early_timestamp: a counter that does not wrap.
EarlyUnwrapped == now

\* log_early_timestamp: the 32-bit cycle counter, in milliseconds.
log_early_timestamp == now % EarlyModulus
CounterWrapped == now >= EarlyModulus

EarlyStamp(t) ==
  /\ port = "freertos" /\ At(t, "called") /\ uses = "stamp" /\ ~Running
  /\ Answers(t, log_early_timestamp)
  /\ trusted' = (trusted /\ ~CounterWrapped)
  /\ UNCHANGED <<config, clockVars, base, timestamp, textVars, latest, settledLatest>>

\* Mutant of TestBase: base is set again by every call on core 0.
TestBaseNot(t) ==
  /\ port = "freertos" /\ At(t, "called") /\ uses = "stamp" /\ Running
  /\ LET unset == Core[t] = 0
     IN  /\ GoesTo(t, IF unset THEN "unset" ELSE "set")
         /\ trusted' = (trusted /\ (unset =>
                          \A u \in Tasks : ~At(u, "unset") /\ ~At(u, "read")))
  /\ UNCHANGED <<config, clockVars, base, timestamp, textVars, latest, settledLatest>>

\* The history notes a task that finds base unset while another sets it.
TestBase(t) ==
  /\ port = "freertos" /\ At(t, "called") /\ uses = "stamp" /\ Running
  /\ LET unset == base = 0 /\ Core[t] = 0
     IN  /\ GoesTo(t, IF unset THEN "unset" ELSE "set")
         /\ trusted' = (trusted /\ (unset =>
                          \A u \in Tasks : ~At(u, "unset") /\ ~At(u, "read")))
  /\ UNCHANGED <<config, clockVars, base, timestamp, textVars, latest, settledLatest>>

ReadEarly(t) ==
  /\ At(t, "unset")
  /\ call' = [call EXCEPT ![t].early = log_early_timestamp, ![t].at = "read"]
  /\ trusted' = (trusted /\ ~CounterWrapped)
  /\ UNCHANGED <<config, clockVars, base, timestamp, textVars, latest, settledLatest>>

SetBase(t) ==
  /\ At(t, "read")
  /\ base' = call[t].early
  /\ call' = [call EXCEPT ![t].early = 0, ![t].at = "set"]
  /\ UNCHANGED <<config, clockVars, timestamp, textVars, latest, settledLatest, trusted>>

\* xTaskGetTickCount, or xTaskGetTickCountFromISR
ReadTicks(t) ==
  /\ At(t, "set")
  /\ call' = [call EXCEPT ![t].ticks = (now - started) \div MsPerTick, ![t].at = "ticks"]
  /\ UNCHANGED <<config, clockVars, base, timestamp, textVars, latest, settledLatest, trusted>>

\* Mutant of AddBase: the ticks alone.
AddNothing(t) ==
  /\ At(t, "ticks")
  /\ Answers(t, call[t].ticks * MsPerTick)
  /\ UNCHANGED <<config, clockVars, base, timestamp, textVars, latest, settledLatest, trusted>>

\* base is read once more.
AddBase(t) ==
  /\ At(t, "ticks")
  /\ Answers(t, base + call[t].ticks * MsPerTick)
  /\ UNCHANGED <<config, clockVars, base, timestamp, textVars, latest, settledLatest, trusted>>

Returns(t) ==
  /\ At(t, "done")
  /\ call' = [call EXCEPT ![t] = Idle]
  /\ latest' = IF uses = "stamp" /\ call[t].stamp > latest
               THEN call[t].stamp ELSE latest
  /\ settledLatest' = IF call[t].since # Never /\ call[t].stamp > settledLatest
                      THEN call[t].stamp ELSE settledLatest
  /\ UNCHANGED <<config, clockVars, base, timestamp, textVars, trusted>>

-----------------------------------------------------------------------------
(* log_system_timestamp *)

Cells == 0 .. BufferSize - 1
Digit(d) == <<"digit", d>>
NUL == <<"nul", 0>>

\* The inner loop: every character one cell up, a digit in front.
PushedFront(text, d) == [j \in Cells |-> IF j = 0 THEN Digit(d) ELSE text[j - 1]]

\* What k rounds of the outer loop leave of n.
Rest(n) ==
  LET rest[k \in 0 .. BufferSize] == IF k = 0 THEN n ELSE rest[k - 1] \div 10
  IN  rest

\* The buffer after k rounds that push a digit of n.
Pushed(text, n) ==
  LET after[k \in 0 .. BufferSize] ==
        IF k = 0 THEN text ELSE PushedFront(after[k - 1], Rest(n)[k - 1] % 10)
  IN  after

\* The rounds until nothing is left of n; there is a first one for 0.
Rounds(n) ==
  CHOOSE k \in 1 .. BufferSize : Rest(n)[k] = 0 /\ \A j \in 1 .. k - 1 : Rest(n)[j] # 0

\* The NUL fits, and so do the four pieces.
ASSUME BufferAssumption == BufferSize > 4 /\ Rest(EarlyModulus - 1)[BufferSize - 1] = 0

\* Mutant of NumberText: the terminator is left out.
NumberTextOpen(text, n) == Pushed(text, n)[Rounds(n)]

\* The round that finds nothing left writes the NUL.
NumberText(text, n) == [Pushed(text, n)[Rounds(n)] EXCEPT ![Rounds(n)] = NUL]

EarlyText(t) ==
  /\ At(t, "called") /\ uses = "text" /\ ~Running
  /\ buffer' = NumberText(buffer, log_early_timestamp)
  /\ Answers(t, log_early_timestamp)
  /\ UNCHANGED <<config, clockVars, base, timestamp, bufferLock, latest, settledLatest, trusted>>

\* gettimeofday, before the lock
ReadTime(t) ==
  /\ At(t, "called") /\ uses = "text" /\ Running
  /\ call' = [call EXCEPT ![t].stamp = now, ![t].at = "lock"]
  /\ UNCHANGED <<config, clockVars, base, timestamp, textVars, latest, settledLatest, trusted>>

\* Mutant of AcquireBuffer: it does not wait.
AcquireAnyway(t) ==
  /\ At(t, "lock")
  /\ bufferLock' = t
  /\ GoesTo(t, "write")
  /\ UNCHANGED <<config, clockVars, base, timestamp, buffer, latest, settledLatest, trusted>>

AcquireBuffer(t) ==
  /\ At(t, "lock") /\ bufferLock = NoTask
  /\ bufferLock' = t
  /\ GoesTo(t, "write")
  /\ UNCHANGED <<config, clockVars, base, timestamp, buffer, latest, settledLatest, trusted>>

\* "%02d:%02d:%02d.%03ld": four pieces and the NUL, one after the other.
Pieces == 4
Piece(moment) == <<"piece", moment>>

WritePiece(t) ==
  /\ At(t, "write")
  /\ LET k == call[t].piece
     IN  /\ buffer' = [buffer EXCEPT ![k] = IF k < Pieces THEN Piece(call[t].stamp) ELSE NUL]
         /\ call' = [call EXCEPT ![t].piece = k + 1,
                                 ![t].at = IF k < Pieces THEN "write" ELSE "release"]
  /\ UNCHANGED <<config, clockVars, base, timestamp, bufferLock, latest, settledLatest, trusted>>

ReleaseBuffer(t) ==
  /\ At(t, "release")
  /\ bufferLock' = NoTask
  /\ GoesTo(t, "done")
  /\ UNCHANGED <<config, clockVars, base, timestamp, buffer, latest, settledLatest, trusted>>

-----------------------------------------------------------------------------

Init ==
  /\ port \in {"freertos", "pthreads", "noos"}
  /\ uses \in {"stamp", "text"}
  /\ uses = "text" => port = "freertos"   \* the only port that has it
  /\ now = 0 /\ started = Never
  /\ base = 0 /\ timestamp = 0
  /\ buffer = [j \in Cells |-> NUL]
  /\ bufferLock = NoTask
  /\ call = [t \in Tasks |-> Idle]
  /\ latest = -1 /\ settledLatest = 0
  /\ trusted = TRUE

Next ==
  \/ Passes \/ SchedulerStarts
  \/ \E t \in Tasks :
       \/ Calls(t) \/ CounterStamp(t) \/ ClockStamp(t) \/ EarlyStamp(t)
       \/ TestBase(t) \/ ReadEarly(t) \/ SetBase(t) \/ ReadTicks(t) \/ AddBase(t)
       \/ EarlyText(t) \/ ReadTime(t) \/ AcquireBuffer(t)
       \/ WritePiece(t) \/ ReleaseBuffer(t)
       \/ Returns(t)

Spec == Init /\ [][Next]_vars

-----------------------------------------------------------------------------
(* Properties *)

LastMoment == Max(Moments)
Chars == {NUL} \cup {Digit(d) : d \in 0 .. 9} \cup {Piece(m) : m \in Moments}

TypeOK ==
  /\ port \in {"freertos", "pthreads", "noos"} /\ uses \in {"stamp", "text"}
  /\ now \in Moments /\ started \in Moments \cup {Never}
  /\ base \in 0 .. EarlyModulus - 1 /\ timestamp \in 0 .. MaxCount
  /\ buffer \in [Cells -> Chars]
  /\ bufferLock \in Tasks \cup {NoTask}
  /\ \A t \in Tasks : call[t] = Idle \/ call[t].piece \in 0 .. Pieces + 1
  /\ latest \in -1 .. EarlyModulus + LastMoment + MaxCount
  /\ settledLatest \in 0 .. EarlyModulus + LastMoment + MaxCount

(***************************************************************************)
(* Stamps do not go back: a call gets a stamp that is at least as large as *)
(* every stamp returned before it began, across the start of the scheduler *)
(* and the setting of base, on both cores; without a clock it gets a new   *)
(* number.  A call on core 1 that begins before core 0 has set base has no *)
(* such promise, nor has anyone after a race for base or once the cycle    *)
(* counter was read past its wrap.                                         *)
(***************************************************************************)
StampsFollow ==
  \A t \in Tasks :
    At(t, "done") /\ uses = "stamp" /\ call[t].follows /\ trusted =>
      IF port = "noos" THEN call[t].stamp > call[t].floor
                       ELSE call[t].stamp >= call[t].floor

(***************************************************************************)
(* What goes wrong while base is being set does not last.  Two tasks may   *)
(* race for base, a wrapped cycle counter may give it a small value, or 0, *)
(* which is taken for unset, and core 1 may have counted without it: once  *)
(* base is set and nobody who found it unset is left to set it, a call     *)
(* that begins gets a stamp at least as large as every stamp that was      *)
(* returned to a call that began so, on both cores, without a condition.   *)
(***************************************************************************)
StampsSettle ==
  \A t \in Tasks :
    At(t, "done") /\ call[t].since # Never => call[t].stamp >= call[t].since

\* The characters a reader of the buffer finds, up to the first NUL.
TextLength == CHOOSE k \in Cells : buffer[k] = NUL /\ \A j \in 0 .. k - 1 : buffer[j] # NUL
Value[k \in Cells] == IF k = 0 THEN 0 ELSE 10 * Value[k - 1] + buffer[k - 1][2]

(***************************************************************************)
(* Before the scheduler starts, the text is the number of milliseconds in  *)
(* decimal without a leading zero, whatever an earlier call has left in    *)
(* the static buffer.                                                      *)
(***************************************************************************)
EarlyTextIsNumber ==
  \A t \in Tasks :
    At(t, "done") /\ uses = "text" /\ ~Running =>
      /\ \E k \in Cells : buffer[k] = NUL
      /\ \A j \in 0 .. TextLength - 1 : buffer[j][1] = "digit"
      /\ Value[TextLength] = call[t].stamp
      /\ TextLength > 1 => buffer[0] # Digit(0)

\* A number, or the four pieces of one moment.
OneText ==
  /\ \E k \in Cells : buffer[k] = NUL
  /\ \A j \in 0 .. TextLength - 1 :
       buffer[j][1] = buffer[0][1] /\ (buffer[j][1] = "piece" => buffer[j] = buffer[0])
  /\ TextLength > 0 /\ buffer[0][1] = "piece" => TextLength = Pieces

(***************************************************************************)
(* While nobody holds bufferLock the buffer is one text: a number, or the  *)
(* four pieces of one moment, never pieces of two calls.                   *)
(***************************************************************************)
TextWhole == bufferLock = NoTask => OneText
=============================================================================
