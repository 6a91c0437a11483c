---------------------------- MODULE LoggerProofs ----------------------------
(***************************************************************************)
(* Theorems about Logger, for any number of tasks, tags, levels, functions *)
(* and lines, for stacks of any depth and for both kinds of port.          *)
(***************************************************************************)
EXTENDS Logger, SequenceTheorems, FiniteSetTheorems, TLAPS

-----------------------------------------------------------------------------
(* Sequences *)

(***************************************************************************)
(* The first n elements of a sequence.                                     *)
(***************************************************************************)
LEMMA PrefixIs ==
  ASSUME NEW S, NEW s, NEW n \in Nat, \A i \in 1 .. n : s[i] \in S
  PROVE  /\ SubSeq(s, 1, n) \in Seq(S)
         /\ Len(SubSeq(s, 1, n)) = n
         /\ \A i \in 1 .. n : SubSeq(s, 1, n)[i] = s[i]
<1>1. 1 \in Int /\ n \in Int
  OBVIOUS
<1> DEFINE f == SubSeq(s, 1, n)
<1>2. f \in Seq(S)
  BY <1>1, SubSeqProperties
<1>3. Len(f) = IF 1 <= n THEN n - 1 + 1 ELSE 0
  BY <1>1, SubSeqProperties
<1>4. \A i \in 1 .. n - 1 + 1 : f[i] = s[1 + i - 1]
  BY <1>1, SubSeqProperties
<1> HIDE DEF f
<1>5. Len(f) = n
  BY <1>3
<1>6. \A i \in 1 .. n : f[i] = s[i]
  BY <1>4
<1> QED BY <1>2, <1>5, <1>6 DEF f

(***************************************************************************)
(* A stack without its top.                                                *)
(***************************************************************************)
LEMMA FrontIs ==
  ASSUME NEW S, NEW s \in Seq(S), s # <<>>
  PROVE  /\ Len(s) \in Nat \ {0} /\ \A i \in 1 .. Len(s) : s[i] \in S
         /\ Front(s) \in Seq(S) /\ Len(Front(s)) = Len(s) - 1
         /\ \A i \in 1 .. Len(s) - 1 : Front(s)[i] = s[i]
<1>1. Len(s) \in Nat \ {0} /\ \A i \in 1 .. Len(s) : s[i] \in S
  BY EmptySeq, LenProperties
<1> DEFINE n == Len(s) - 1
<1>2. n \in Nat /\ \A i \in 1 .. n : s[i] \in S
  BY <1>1
<1> HIDE DEF n
<1>3. /\ SubSeq(s, 1, n) \in Seq(S)
      /\ Len(SubSeq(s, 1, n)) = n
      /\ \A i \in 1 .. n : SubSeq(s, 1, n)[i] = s[i]
  BY <1>2, PrefixIs
<1>4. Front(s) = SubSeq(s, 1, n)
  BY DEF Front, n
<1>5. /\ Front(s) \in Seq(S) /\ Len(Front(s)) = n
      /\ \A i \in 1 .. n : Front(s)[i] = s[i]
  BY <1>3, <1>4
<1> QED BY <1>1, <1>5 DEF n

(***************************************************************************)
(* A stack whose top is replaced.                                          *)
(***************************************************************************)
LEMMA Replaced ==
  ASSUME NEW S, NEW s \in Seq(S), s # <<>>, NEW e \in S
  PROVE  LET r == Append(Front(s), e)
         IN  /\ r \in Seq(S) /\ r # <<>>
             /\ Len(r) = Len(s) /\ Len(s) \in Nat \ {0}
             /\ \A i \in 1 .. Len(s) - 1 : r[i] = s[i]
             /\ r[Len(s)] = e
<1> DEFINE b == Front(s)
           r == Append(b, e)
<1>1. /\ Len(s) \in Nat \ {0}
      /\ b \in Seq(S) /\ Len(b) = Len(s) - 1
      /\ \A i \in 1 .. Len(s) - 1 : b[i] = s[i]
  BY FrontIs
<1> HIDE DEF b
<1>2. /\ r \in Seq(S) /\ r # <<>> /\ Len(r) = Len(b) + 1
      /\ \A i \in 1 .. Len(b) : r[i] = b[i]
      /\ r[Len(b) + 1] = e
  BY <1>1, AppendProperties
<1> HIDE DEF r
<1>3. Len(b) + 1 = Len(s)
  BY <1>1
<1>4. r[Len(s)] = e
  BY <1>2, <1>3
<1> QED BY <1>1, <1>2, <1>3, <1>4 DEF b, r

(***************************************************************************)
(* A function on 1 .. n is a sequence of n elements.                       *)
(***************************************************************************)
LEMMA FunctionIsSeq ==
  ASSUME NEW S, NEW n \in Nat, NEW r \in [1 .. n -> S]
  PROVE  r \in Seq(S) /\ Len(r) = n
<1>1. r \in Seq(S)
  BY SeqDef
<1>2. Len(r) \in Nat /\ 1 .. Len(r) = 1 .. n
  BY <1>1, LenProperties
<1>3. Len(r) = n
  BY <1>2
<1> QED BY <1>1, <1>3

-----------------------------------------------------------------------------
(* Types *)

\* Frames, but for the bound on the lines put out, which needs an argument.
PartsLeft == {<<"log", "dump">>, <<"dump">>} \cup {[i \in 1 .. n |-> "log"] : n \in 0 .. DumpLines}
MessageFrames ==
  [op : Messages, at : Stages, tag : TagPointers, level : MessageLevels,
   verdict : Verdicts, seen : SUBSET BOOLEAN, parts : PartsLeft,
   output : Nat, unfiltered : BOOLEAN, refused : BOOLEAN]
SetFrames == [op : {"set"}, at : Stages, tag : TagPointers, level : Levels]
SwapFrames == [op : {"swap"}, at : Stages, new : Functions, orig : Functions \cup {NULL}]
FrameType == MessageFrames \cup SetFrames \cup SwapFrames

Stacks == calls \in [Tasks -> Seq(FrameType)]

Typed ==
  /\ port \in {"tasks", "noos"}
  /\ defaultLevel \in Levels
  /\ \A name \in DOMAIN override : override[name] \in Levels
  /\ holder \in Tasks \cup {NoTask}
  /\ s_log_print_func \in PrintFuncs /\ s_writev_func \in WriteFuncs
  /\ Stacks
  /\ owned \in [Tasks -> SUBSET Functions]

(***************************************************************************)
(* The parts of a message that are still to be written.                    *)
(***************************************************************************)
LEMMA PartsAre ==
  ASSUME NEW p \in PartsLeft
  PROVE  /\ p \in Seq({"log", "dump"}) /\ Len(p) \in Nat /\ (p = <<>> <=> Len(p) = 0)
         /\ p # <<>> => /\ Head(p) \in {"log", "dump"}
                        /\ Tail(p) \in PartsLeft /\ Len(Tail(p)) = Len(p) - 1
<1> DEFINE S == {"log", "dump"}
<1>1. CASE p = <<"log", "dump">>
  <2>1. Tail(p) = <<"dump">> /\ Head(p) = "log" /\ Len(p) = 2 /\ p \in Seq(S) /\ p # <<>>
    BY <1>1
  <2> QED BY <2>1 DEF PartsLeft
<1>2. CASE p = <<"dump">>
  <2>1. Tail(p) = <<>> /\ Head(p) = "dump" /\ Len(p) = 1 /\ p \in Seq(S) /\ p # <<>>
    BY <1>2
  <2>2. <<>> = [i \in 1 .. 0 |-> "log"]
    OBVIOUS
  <2> QED BY <2>1, <2>2, LoggerAssumption DEF PartsLeft
<1>3. ASSUME NEW n \in 0 .. DumpLines, p = [i \in 1 .. n |-> "log"]
      PROVE  /\ p \in Seq(S) /\ Len(p) = n
             /\ p # <<>> => Head(p) = "log" /\ Tail(p) \in PartsLeft
  <2>1. n \in Nat /\ p \in [1 .. n -> S]
    BY <1>3, LoggerAssumption
  <2>2. p \in Seq(S)
    BY <2>1, FunctionIsSeq
  <2>3. Len(p) = n
    BY <2>1, FunctionIsSeq
  <2>4. ASSUME p # <<>>
        PROVE  Head(p) = "log" /\ Tail(p) \in PartsLeft
    <3> DEFINE q == Tail(p)
               r == [i \in 1 .. n - 1 |-> "log"]
    <3>1. /\ q \in Seq(S) /\ Len(q) = n - 1 /\ n # 0
          /\ \A i \in 1 .. Len(q) : q[i] = p[i + 1]
      BY <2>2, <2>3, <2>4, HeadTailProperties, EmptySeq
    <3>2. Head(p) = p[1]
      BY <2>2, <2>4
    <3> HIDE DEF q
    <3>3. n - 1 \in 0 .. DumpLines
      BY <2>1, <3>1, LoggerAssumption
    <3>4. DOMAIN q = 1 .. n - 1 /\ q \in [1 .. n - 1 -> S]
      BY <3>1, LenProperties
    <3>5. \A i \in 1 .. n - 1 : q[i] = "log"
      BY <1>3, <2>1, <3>1
    <3>6. q = r
      BY <3>4, <3>5
    <3>7. q \in PartsLeft
      BY <3>3, <3>6 DEF PartsLeft
    <3> QED BY <1>3, <2>1, <3>1, <3>2, <3>7 DEF q
  <2> QED BY <2>2, <2>3, <2>4
<1>4. p \in Seq(S)
  BY <1>1, <1>2, <1>3 DEF PartsLeft
<1>5. p # <<>> => Head(p) \in S /\ Tail(p) \in PartsLeft
  BY <1>1, <1>2, <1>3 DEF PartsLeft
<1> QED BY <1>4, <1>5, EmptySeq, HeadTailProperties, LenProperties

(***************************************************************************)
(* A level is below another one or it is not.                              *)
(***************************************************************************)
LEMMA VisibleIsBoolean ==
  ASSUME Typed, NEW level \in MessageLevels, NEW name
  PROVE  (level <= Registry!Effective(name)) \in BOOLEAN
<1>1. Registry!Effective(name) \in Levels
  BY DEF Typed, Registry!Effective
<1> QED BY <1>1, LoggerAssumption

(***************************************************************************)
(* The frame of a new message.                                             *)
(***************************************************************************)
LEMMA MessageType ==
  ASSUME Typed, NEW op \in Messages, NEW p \in TagPointers, NEW level \in MessageLevels
  PROVE  /\ Message(op, p, level) \in MessageFrames
         /\ Parts(op) \in PartsLeft
<1>1. (level <= Registry!Effective(Text[p])) \in BOOLEAN
  BY VisibleIsBoolean
<1>2. Parts(op) \in PartsLeft
  <2>1. CASE op = "log"
    <3>1. <<>> = [i \in 1 .. 0 |-> "log"] /\ 0 \in 0 .. DumpLines
      BY LoggerAssumption
    <3> QED BY <2>1, <3>1 DEF Parts, PartsLeft
  <2>2. CASE op = "dump"
    <3>1. DumpLines \in 0 .. DumpLines
      BY LoggerAssumption
    <3> QED BY <2>2, <3>1 DEF Parts, PartsLeft
  <2>3. CASE op = "macro"
    BY <2>3 DEF Parts, PartsLeft
  <2> QED BY <2>1, <2>2, <2>3 DEF Messages
<1>3. {level <= Registry!Effective(Text[p])} \in SUBSET BOOLEAN
  BY <1>1
<1> HIDE DEF PartsLeft
<1> QED BY <1>2, <1>3 DEF Message, MessageFrames, Messages, Stages, Verdicts

(***************************************************************************)
(* A frame that goes to another stage.                                     *)
(***************************************************************************)
LEMMA FrameMoves ==
  ASSUME NEW f \in FrameType, NEW stage \in Stages
  PROVE  /\ [f EXCEPT !.at = stage] \in FrameType
         /\ [f EXCEPT !.at = stage].at = stage /\ [f EXCEPT !.at = stage].op = f.op
<1>1. CASE f \in MessageFrames
  BY <1>1 DEF MessageFrames, FrameType
<1>2. CASE f \in SetFrames
  BY <1>2 DEF SetFrames, FrameType
<1>3. CASE f \in SwapFrames
  BY <1>3 DEF SwapFrames, FrameType
<1> QED BY <1>1, <1>2, <1>3 DEF FrameType

(***************************************************************************)
(* Which frames have which fields.                                         *)
(***************************************************************************)
LEMMA FrameKinds ==
  ASSUME NEW f \in FrameType
  PROVE  /\ f.op \in Operations /\ f.at \in Stages
         /\ f.op \in Messages => f \in MessageFrames
         /\ f.op = "set" => f \in SetFrames
         /\ f.op = "swap" => f \in SwapFrames
  BY DEF FrameType, MessageFrames, SetFrames, SwapFrames, Operations, Messages

(***************************************************************************)
(* The stack of a task.                                                    *)
(***************************************************************************)
LEMMA StackIs ==
  ASSUME Stacks, NEW t \in Tasks
  PROVE  /\ calls[t] \in Seq(FrameType) /\ Len(calls[t]) \in Nat
         /\ DOMAIN calls[t] = 1 .. Len(calls[t])
         /\ Running(t) <=> Len(calls[t]) # 0
         /\ \A i \in 1 .. Len(calls[t]) : calls[t][i] \in FrameType
         /\ Running(t) => /\ Top(t) = calls[t][Len(calls[t])] /\ Top(t) \in FrameType
                          /\ Len(calls[t]) \in 1 .. Len(calls[t])
<1>1. calls[t] \in Seq(FrameType)
  BY DEF Stacks
<1>2. /\ Len(calls[t]) \in Nat /\ DOMAIN calls[t] = 1 .. Len(calls[t])
      /\ \A i \in 1 .. Len(calls[t]) : calls[t][i] \in FrameType
  BY <1>1, LenProperties, ElementOfSeq
<1>3. Running(t) <=> Len(calls[t]) # 0
  BY <1>1, EmptySeq DEF Running
<1>4. Running(t) => Len(calls[t]) \in 1 .. Len(calls[t])
  BY <1>2, <1>3
<1> QED BY <1>1, <1>2, <1>3, <1>4 DEF Top, Last

(***************************************************************************)
(* The same of the next state.                                             *)
(***************************************************************************)
LEMMA StackIsNext ==
  ASSUME Stacks', NEW t \in Tasks
  PROVE  /\ calls'[t] \in Seq(FrameType) /\ Len(calls'[t]) \in Nat
         /\ DOMAIN calls'[t] = 1 .. Len(calls'[t])
         /\ Running(t)' <=> Len(calls'[t]) # 0
         /\ \A i \in 1 .. Len(calls'[t]) : calls'[t][i] \in FrameType
         /\ Running(t)' => /\ Top(t)' = calls'[t][Len(calls'[t])] /\ Top(t)' \in FrameType
                           /\ Len(calls'[t]) \in 1 .. Len(calls'[t])
<1>1. calls'[t] \in Seq(FrameType)
  BY DEF Stacks
<1>2. /\ Len(calls'[t]) \in Nat /\ DOMAIN calls'[t] = 1 .. Len(calls'[t])
      /\ \A i \in 1 .. Len(calls'[t]) : calls'[t][i] \in FrameType
  BY <1>1, LenProperties, ElementOfSeq
<1>3. Running(t)' <=> Len(calls'[t]) # 0
  BY <1>1, EmptySeq DEF Running
<1>4. Running(t)' => Len(calls'[t]) \in 1 .. Len(calls'[t])
  BY <1>2, <1>3
<1> QED BY <1>1, <1>2, <1>3, <1>4 DEF Top, Last

-----------------------------------------------------------------------------
(* What a step does to the stacks *)

OthersStay(t) == \A u \in Tasks \ {t} : calls'[u] = calls[u]

\* The stack of t up to n stays.
StaysBelow(t, n) == \A i \in 1 .. n : calls'[t][i] = calls[t][i]

TopBecomes(t, f) ==
  /\ Stacks' /\ OthersStay(t)
  /\ Len(calls'[t]) = Len(calls[t]) /\ Len(calls[t]) \in Nat \ {0}
  /\ StaysBelow(t, Len(calls[t]) - 1)
  /\ calls'[t][Len(calls[t])] = f

TopCalls(t, f, g) ==
  /\ Stacks' /\ OthersStay(t)
  /\ Len(calls'[t]) = Len(calls[t]) + 1 /\ Len(calls[t]) \in Nat \ {0}
  /\ StaysBelow(t, Len(calls[t]) - 1)
  /\ calls'[t][Len(calls[t])] = f /\ calls'[t][Len(calls[t]) + 1] = g

Starts(t, g) ==
  /\ Stacks' /\ OthersStay(t)
  /\ Len(calls[t]) = 0 /\ Len(calls'[t]) = 1 /\ calls'[t][1] = g

TopReturns(t) ==
  /\ Stacks' /\ OthersStay(t)
  /\ Len(calls[t]) \in Nat \ {0} /\ Len(calls'[t]) = Len(calls[t]) - 1
  /\ StaysBelow(t, Len(calls[t]) - 2)
  /\ Len(calls[t]) > 1 =>
       calls'[t][Len(calls[t]) - 1] = Credited(calls[t][Len(calls[t]) - 1], Top(t))

(***************************************************************************)
(* Replace gives a stack another top.                                      *)
(***************************************************************************)
LEMMA ReplaceShape ==
  ASSUME Stacks, NEW t \in Tasks, Running(t), NEW f \in FrameType, Replace(t, f)
  PROVE  TopBecomes(t, f)
<1>1. calls[t] \in Seq(FrameType) /\ calls[t] # <<>>
  BY StackIs DEF Running
<1>2. calls' = [calls EXCEPT ![t] = Append(Front(calls[t]), f)]
  BY DEF Replace
<1> DEFINE r == Append(Front(calls[t]), f)
<1>3. /\ r \in Seq(FrameType) /\ Len(r) = Len(calls[t]) /\ Len(calls[t]) \in Nat \ {0}
      /\ \A i \in 1 .. Len(calls[t]) - 1 : r[i] = calls[t][i]
      /\ r[Len(calls[t])] = f
  BY <1>1, Replaced
<1> HIDE DEF r
<1>4. calls' = [calls EXCEPT ![t] = r]
  BY <1>2 DEF r
<1>5. calls'[t] = r /\ Stacks' /\ OthersStay(t)
  BY <1>3, <1>4 DEF Stacks, OthersStay
<1> QED BY <1>3, <1>5 DEF TopBecomes, StaysBelow

(***************************************************************************)
(* A call replaces the top and pushes a frame.                             *)
(***************************************************************************)
LEMMA CallShape ==
  ASSUME Stacks, NEW t \in Tasks, Running(t), NEW f \in FrameType, NEW g \in FrameType,
         calls' = [calls EXCEPT ![t] = Front(@) \o <<f, g>>]
  PROVE  TopCalls(t, f, g)
<1>1. calls[t] \in Seq(FrameType) /\ calls[t] # <<>>
  BY StackIs DEF Running
<1> DEFINE b == Front(calls[t])
           c == <<f, g>>
           r == b \o c
<1>2. /\ b \in Seq(FrameType) /\ Len(b) = Len(calls[t]) - 1
      /\ Len(calls[t]) \in Nat \ {0}
      /\ \A i \in 1 .. Len(calls[t]) - 1 : b[i] = calls[t][i]
  BY <1>1, FrontIs
<1>3. c \in Seq(FrameType) /\ Len(c) = 2 /\ c[1] = f /\ c[2] = g
  OBVIOUS
<1> HIDE DEF b, c
<1>4. /\ r \in Seq(FrameType) /\ Len(r) = Len(b) + Len(c)
      /\ \A i \in 1 .. Len(b) + Len(c) : r[i] = IF i <= Len(b) THEN b[i] ELSE c[i - Len(b)]
  BY <1>2, <1>3, ConcatProperties
<1>5. calls' = [calls EXCEPT ![t] = r]
  BY DEF b, c
<1> HIDE DEF r
<1>6. calls'[t] = r /\ Stacks' /\ OthersStay(t)
  BY <1>4, <1>5 DEF Stacks, OthersStay
<1> DEFINE n == Len(calls[t])
<1>7. n \in Nat \ {0} /\ Len(b) = n - 1
  BY <1>2
<1> HIDE DEF n
<1>8. \A i \in 1 .. n + 1 : r[i] = IF i <= n - 1 THEN b[i] ELSE c[i - (n - 1)]
  BY <1>3, <1>4, <1>7
<1>9. r[n] = f /\ r[n + 1] = g
  <2>1. n \in 1 .. n + 1 /\ n + 1 \in 1 .. n + 1 /\ n - (n - 1) = 1 /\ n + 1 - (n - 1) = 2
    BY <1>7
  <2>2. ~(n <= n - 1) /\ ~(n + 1 <= n - 1)
    BY <1>7
  <2> QED BY <1>3, <1>8, <2>1, <2>2
<1>10. \A i \in 1 .. n - 1 : r[i] = b[i]
  BY <1>7, <1>8
<1>11. Len(r) = n + 1
  BY <1>3, <1>4, <1>7
<1> QED BY <1>2, <1>6, <1>9, <1>10, <1>11 DEF TopCalls, StaysBelow, n

(***************************************************************************)
(* A task that is in no call begins one.                                   *)
(***************************************************************************)
LEMMA PushShape ==
  ASSUME Stacks, NEW t \in Tasks, ~Running(t), NEW g \in FrameType, Push(t, g)
  PROVE  Starts(t, g)
<1>1. calls[t] \in Seq(FrameType) /\ calls[t] = <<>> /\ Len(calls[t]) = 0
  BY StackIs, EmptySeq DEF Running
<1> DEFINE r == Append(calls[t], g)
<1>2. r \in Seq(FrameType) /\ Len(r) = Len(calls[t]) + 1 /\ r[Len(calls[t]) + 1] = g
  BY <1>1, AppendProperties
<1>3. calls' = [calls EXCEPT ![t] = r]
  BY DEF Push
<1> HIDE DEF r
<1>4. calls'[t] = r /\ Stacks' /\ OthersStay(t)
  BY <1>2, <1>3 DEF Stacks, OthersStay
<1>5. Len(calls[t]) + 1 = 1
  BY <1>1
<1> QED BY <1>1, <1>2, <1>4, <1>5 DEF Starts

(***************************************************************************)
(* The caller's frame, when a call has returned.                           *)
(***************************************************************************)
LEMMA CreditedType ==
  ASSUME NEW f \in FrameType, NEW g \in FrameType, g.op \in Messages
  PROVE  /\ Credited(f, g) \in FrameType
         /\ Credited(f, g).op = f.op /\ Credited(f, g).at = f.at
<1>1. CASE f.op \notin {"dump", "macro"}
  BY <1>1 DEF Credited
<1>2. CASE f.op \in {"dump", "macro"}
  <2>1. f \in MessageFrames /\ g \in MessageFrames
    BY <1>2, FrameKinds DEF Messages
  <2> DEFINE gain == IF g.op = "dump" THEN g.output
                     ELSE IF g.verdict \in {"visible", "custom"} THEN 1 ELSE 0
  <2>2. gain \in Nat /\ f.output \in Nat /\ f.output + gain \in Nat
    BY <2>1 DEF MessageFrames
  <2>3. (f.unfiltered \/ g.verdict = "custom") \in BOOLEAN /\ (f.refused \/ g.refused) \in BOOLEAN
    BY <2>1 DEF MessageFrames
  <2>4. Credited(f, g) = [f EXCEPT !.output = f.output + gain,
                                   !.unfiltered = f.unfiltered \/ g.verdict = "custom",
                                   !.refused = f.refused \/ g.refused]
    BY <1>2 DEF Credited
  <2> HIDE DEF gain
  <2> QED BY <2>1, <2>2, <2>3, <2>4 DEF MessageFrames, FrameType
<1> QED BY <1>1, <1>2

(***************************************************************************)
(* Return takes the top from a stack and credits the frame below.          *)
(***************************************************************************)
LEMMA ReturnShape ==
  ASSUME Stacks, NEW t \in Tasks, Return(t),
         Len(calls[t]) > 1 => Top(t).op \in Messages
  PROVE  TopReturns(t)
<1> DEFINE s == calls[t]
           below == Front(s)
           r == IF below = <<>> THEN <<>>
                ELSE Append(Front(below), Credited(Last(below), Top(t)))
           n == Len(s)
<1>1. Running(t) /\ s \in Seq(FrameType) /\ s # <<>> /\ Top(t) \in FrameType
  BY StackIs DEF Running, Return, At
<1>2. /\ n \in Nat \ {0} /\ below \in Seq(FrameType) /\ Len(below) = n - 1
      /\ \A i \in 1 .. n - 1 : below[i] = s[i] /\ below[i] \in FrameType
  BY <1>1, FrontIs
<1>3. calls' = [calls EXCEPT ![t] = r]
  BY DEF Return
<1>4. n > 1 <=> below # <<>>
  BY <1>2, EmptySeq
<1>5. CASE n = 1
  <2>1. r = <<>> /\ r \in Seq(FrameType) /\ Len(r) = 0
    BY <1>4, <1>5, EmptySeq
  <2>2. calls'[t] = r /\ Stacks' /\ OthersStay(t)
    BY <1>3, <2>1 DEF Stacks, OthersStay
  <2> QED BY <1>5, <2>1, <2>2 DEF TopReturns, StaysBelow
<1>6. CASE n > 1
  <2> DEFINE e == Credited(Last(below), Top(t))
  <2>1. n - 1 \in 1 .. n - 1 /\ Last(below) = s[n - 1] /\ Last(below) \in FrameType
    BY <1>2, <1>6 DEF Last
  <2>2. e \in FrameType
    BY <1>1, <1>6, <2>1, CreditedType
  <2>3. r = Append(Front(below), e) /\ below # <<>>
    BY <1>4, <1>6
  <2> HIDE DEF e, r, below
  <2>4. /\ r \in Seq(FrameType) /\ Len(r) = Len(below)
        /\ \A i \in 1 .. Len(below) - 1 : r[i] = below[i]
        /\ r[Len(below)] = e
    <3>1. below \in Seq(FrameType)
      BY <1>2
    <3> HIDE DEF n, s
    <3> QED BY <2>2, <2>3, <3>1, Replaced
  <2>5. calls'[t] = r /\ Stacks' /\ OthersStay(t)
    BY <1>3, <2>4 DEF Stacks, OthersStay
  <2>6. Len(below) - 1 = n - 2 /\ \A i \in 1 .. n - 2 : i \in 1 .. n - 1
    BY <1>2
  <2>7. \A i \in 1 .. n - 2 : r[i] = s[i]
    BY <1>2, <2>4, <2>6
  <2>8. e = Credited(calls[t][Len(calls[t]) - 1], Top(t))
    BY <2>1 DEF e
  <2>9. /\ Len(calls'[t]) = Len(calls[t]) - 1 /\ Len(calls[t]) \in Nat \ {0}
        /\ calls'[t][Len(calls[t]) - 1] = e
        /\ StaysBelow(t, Len(calls[t]) - 2)
    BY <1>2, <2>4, <2>5, <2>7 DEF StaysBelow
  <2> QED BY <2>5, <2>8, <2>9 DEF TopReturns
<1>7. n = 1 \/ n > 1
  <2>1. n \in Nat \ {0}
    BY <1>2
  <2> HIDE DEF n
  <2> QED BY <2>1
<1> QED BY <1>5, <1>6, <1>7

\* log_level_set: a frame of t moves on, every message sees the new levels.
AllObserve(t, now) ==
  /\ Stacks'
  /\ \A u \in Tasks :
       /\ Len(calls'[u]) = Len(calls[u])
       /\ \A i \in 1 .. Len(calls[u]) :
            calls'[u][i] = IF u = t THEN [calls[u][i] EXCEPT !.at = "unlock"]
                                    ELSE Observed(calls[u][i], now)

(***************************************************************************)
(* What a message sees has its type.                                       *)
(***************************************************************************)
LEMMA ObservedType ==
  ASSUME NEW f \in FrameType, NEW now \in [TagPointers -> Levels]
  PROVE  /\ Observed(f, now) \in FrameType
         /\ Observed(f, now).op = f.op /\ Observed(f, now).at = f.at
<1>1. CASE f.op \notin Messages
  BY <1>1 DEF Observed
<1>2. CASE f.op \in Messages
  <2>1. f \in MessageFrames
    BY <1>2, FrameKinds
  <2>2. (f.level <= now[f.tag]) \in BOOLEAN
    <3>1. f.level \in Int /\ now[f.tag] \in Int
      BY <2>1, LoggerAssumption DEF MessageFrames
    <3> QED BY <3>1
  <2>3. f.seen \cup {f.level <= now[f.tag]} \in SUBSET BOOLEAN
    BY <2>1, <2>2 DEF MessageFrames
  <2>4. Observed(f, now) = [f EXCEPT !.seen = f.seen \cup {f.level <= now[f.tag]}]
    BY <1>2 DEF Observed
  <2> QED BY <2>1, <2>3, <2>4 DEF MessageFrames, FrameType
<1> QED BY <1>1, <1>2

(***************************************************************************)
(* log_level_set touches every stack.                                      *)
(***************************************************************************)
LEMMA SetLevelShape ==
  ASSUME Typed, NEW t \in Tasks, SetLevel(t)
  PROVE  \E now \in [TagPointers -> Levels] :
           /\ \A p \in TagPointers : now[p] = Registry!Effective(Text[p])'
           /\ AllObserve(t, now)
<1>1. PICK now \in [TagPointers -> Levels] :
        /\ \A p \in TagPointers : now[p] = Registry!Effective(Text[p])'
        /\ calls' = [u \in Tasks |->
                      [i \in DOMAIN calls[u] |->
                         IF u = t THEN [calls[u][i] EXCEPT !.at = "unlock"]
                                  ELSE Observed(calls[u][i], now)]]
  BY DEF SetLevel
<1>2. ASSUME NEW u \in Tasks
      PROVE  /\ calls'[u] \in Seq(FrameType) /\ Len(calls'[u]) = Len(calls[u])
             /\ \A i \in 1 .. Len(calls[u]) :
                  calls'[u][i] = IF u = t THEN [calls[u][i] EXCEPT !.at = "unlock"]
                                          ELSE Observed(calls[u][i], now)
  <2> DEFINE n == Len(calls[u])
             e(i) == IF u = t THEN [calls[u][i] EXCEPT !.at = "unlock"]
                              ELSE Observed(calls[u][i], now)
             r == [i \in 1 .. n |-> e(i)]
  <2>1. /\ n \in Nat /\ DOMAIN calls[u] = 1 .. n
        /\ \A i \in 1 .. n : calls[u][i] \in FrameType
    BY StackIs DEF Typed
  <2>2. calls'[u] = r
    BY <1>1, <2>1
  <2>3. \A i \in 1 .. n : e(i) \in FrameType
    BY <2>1, FrameMoves, ObservedType DEF Stages
  <2>4. \A i \in 1 .. n : r[i] = e(i)
    OBVIOUS
  <2> HIDE DEF n, e
  <2>5. r \in [1 .. n -> FrameType]
    BY <2>3
  <2> HIDE DEF r
  <2>6. r \in Seq(FrameType) /\ Len(r) = n
    BY <2>1, <2>5, FunctionIsSeq
  <2> QED BY <2>2, <2>4, <2>6 DEF n, e
<1>3. Stacks'
  BY <1>1, <1>2 DEF Stacks
<1> QED BY <1>1, <1>2, <1>3 DEF AllObserve

-----------------------------------------------------------------------------
(* The stacks and the lock *)

StagesOf(op) ==
  CASE op = "log"   -> {"entry", "lock", "locked", "unlock", "handler", "handled", "return"}
    [] op = "dump"  -> {"lock", "locked", "unlock", "parts", "return"}
    [] op = "macro" -> {"parts", "return"}
    [] op = "set"   -> {"lock", "locked", "unlock", "return"}
    [] op = "swap"  -> {"lock", "locked", "install", "unlock", "return"}

Holding == {"locked", "install", "unlock"}

\* A frame is where its operation can be, it waits for the one above it, and
\* only a log_write or a dump is ever called by another frame.
StackOK(t) ==
  \A i \in 1 .. Len(calls[t]) :
    /\ calls[t][i].at \in StagesOf(calls[t][i].op)
    /\ i < Len(calls[t]) => calls[t][i].at \in {"parts", "handled"}
    /\ i > 1 => calls[t][i].op \in {"log", "dump"}
StacksOK == \A t \in Tasks : StackOK(t)

\* The lock is held exactly by the call that is in its critical section.
InSection(t) == Running(t) /\ Top(t).at \in Holding
HolderOK == \A t \in Tasks : holder = t <=> InSection(t)

OneProgram ==
  port = "noos" => \A t, u \in Tasks : Running(t) /\ Running(u) => t = u

\* A swap that has read the old function has a function.
ReadsOrig(f) == f.op = "swap" /\ f.at \in {"install", "unlock", "return"}
OrigKnown ==
  \A t \in Tasks : Running(t) /\ ReadsOrig(Top(t)) => Top(t).orig \in Functions

StackInv == Typed /\ StacksOK /\ HolderOK /\ OneProgram /\ OrigKnown

(***************************************************************************)
(* The stack of a task that no step touches.                               *)
(***************************************************************************)
LEMMA OthersKeep ==
  ASSUME NEW t \in Tasks, OthersStay(t), NEW u \in Tasks \ {t}
  PROVE  /\ calls'[u] = calls[u] /\ StackOK(u)' = StackOK(u)
         /\ Running(u)' = Running(u) /\ Top(u)' = Top(u) /\ InSection(u)' = InSection(u)
  BY DEF OthersStay, StackOK, Running, Top, InSection

(***************************************************************************)
(* A frame that moves on keeps the order of its stack.                     *)
(***************************************************************************)
LEMMA BecomesKeeps ==
  ASSUME Stacks, StacksOK, NEW t \in Tasks, NEW f, TopBecomes(t, f), Running(t),
         f.op = Top(t).op, f.at \in StagesOf(f.op)
  PROVE  /\ StacksOK' /\ Running(t)' /\ Top(t)' = f
         /\ \A u \in Tasks : Running(u)' <=> Running(u)
<1>1. Running(t)' /\ Top(t)' = f /\ Top(t) = calls[t][Len(calls[t])]
  BY StackIs, StackIsNext DEF TopBecomes
<1>2. StackOK(t)'
  <2> SUFFICES ASSUME NEW i \in 1 .. Len(calls'[t])
               PROVE  /\ calls'[t][i].at \in StagesOf(calls'[t][i].op)
                      /\ i < Len(calls'[t]) => calls'[t][i].at \in {"parts", "handled"}
                      /\ i > 1 => calls'[t][i].op \in {"log", "dump"}
    BY DEF StackOK
  <2> DEFINE n == Len(calls[t])
  <2>1. n \in Nat /\ n # 0 /\ Len(calls'[t]) = n
    BY DEF TopBecomes
  <2>2. StackOK(t)
    BY DEF StacksOK
  <2> HIDE DEF n
  <2>3. CASE i = n
    <3>1. calls'[t][i] = f /\ i \in 1 .. Len(calls[t])
      BY <2>1, <2>3 DEF TopBecomes, n
    <3>2. f.op = calls[t][i].op
      BY <1>1, <2>3 DEF n
    <3> QED BY <2>1, <2>2, <2>3, <3>1, <3>2 DEF StackOK
  <2>4. CASE i # n
    <3>1. i \in 1 .. n - 1 /\ i \in 1 .. n /\ i < n
      BY <2>1, <2>4
    <3>2. calls'[t][i] = calls[t][i]
      BY <3>1 DEF TopBecomes, StaysBelow, n
    <3> QED BY <2>1, <2>2, <3>1, <3>2 DEF StackOK, n
  <2> QED BY <2>3, <2>4
<1>3. OthersStay(t)
  BY DEF TopBecomes
<1> QED BY <1>1, <1>2, <1>3, OthersKeep DEF StacksOK

(***************************************************************************)
(* So does a call of a message by a frame that waits for it.               *)
(***************************************************************************)
LEMMA CallKeeps ==
  ASSUME Stacks, StacksOK, NEW t \in Tasks, NEW f, NEW g, TopCalls(t, f, g), Running(t),
         f.op = Top(t).op, f.at \in StagesOf(f.op) \cap {"parts", "handled"},
         g.op \in {"log", "dump"}, g.at \in StagesOf(g.op)
  PROVE  /\ StacksOK' /\ Running(t)' /\ Top(t)' = g
         /\ \A u \in Tasks : Running(u)' <=> Running(u)
<1> DEFINE n == Len(calls[t])
<1>1. n \in Nat /\ n # 0 /\ Len(calls'[t]) = n + 1
  BY DEF TopCalls
<1>2. Top(t) = calls[t][n]
  BY StackIs
<1>3. Stacks' /\ OthersStay(t)
  BY DEF TopCalls
<1>4. Running(t)' /\ Top(t)' = calls'[t][Len(calls'[t])]
  <2>1. Len(calls'[t]) # 0
    BY <1>1
  <2> QED BY <1>3, <2>1, StackIsNext
<1>5. Top(t)' = g
  BY <1>1, <1>4 DEF TopCalls
<1>6. StackOK(t)'
  <2> SUFFICES ASSUME NEW i \in 1 .. Len(calls'[t])
               PROVE  /\ calls'[t][i].at \in StagesOf(calls'[t][i].op)
                      /\ i < Len(calls'[t]) => calls'[t][i].at \in {"parts", "handled"}
                      /\ i > 1 => calls'[t][i].op \in {"log", "dump"}
    BY DEF StackOK
  <2>1. StackOK(t)
    BY DEF StacksOK
  <2> HIDE DEF n
  <2>2. CASE i = n + 1
    <3>1. calls'[t][i] = g
      BY <2>2 DEF TopCalls, n
    <3> QED BY <1>1, <2>2, <3>1
  <2>3. CASE i = n
    <3>1. calls'[t][i] = f /\ i \in 1 .. Len(calls[t])
      BY <1>1, <2>3 DEF TopCalls, n
    <3>2. f.op = calls[t][i].op
      BY <1>2, <2>3
    <3> QED BY <1>1, <2>1, <2>3, <3>1, <3>2 DEF StackOK
  <2>4. CASE i \notin {n, n + 1}
    <3>1. i \in 1 .. n - 1 /\ i \in 1 .. n /\ i < n
      BY <1>1, <2>4
    <3>2. calls'[t][i] = calls[t][i]
      BY <3>1 DEF TopCalls, StaysBelow, n
    <3> QED BY <2>1, <3>1, <3>2 DEF StackOK, n
  <2> QED BY <2>2, <2>3, <2>4
<1> QED BY <1>3, <1>4, <1>5, <1>6, OthersKeep DEF StacksOK

(***************************************************************************)
(* So does the first frame of a stack.                                     *)
(***************************************************************************)
LEMMA StartKeeps ==
  ASSUME Stacks, StacksOK, NEW t \in Tasks, NEW g, Starts(t, g), g.at \in StagesOf(g.op)
  PROVE  /\ StacksOK' /\ Running(t)' /\ Top(t)' = g
         /\ \A u \in Tasks \ {t} : Running(u)' <=> Running(u)
<1>1. Stacks' /\ OthersStay(t) /\ Len(calls'[t]) = 1 /\ calls'[t][1] = g
  BY DEF Starts
<1>2. Running(t)' /\ Top(t)' = g
  BY <1>1, StackIsNext
<1>3. StackOK(t)'
  BY <1>1 DEF StackOK
<1> QED BY <1>1, <1>2, <1>3, OthersKeep DEF StacksOK

(***************************************************************************)
(* So does the end of a call; the frame below was waiting for it.          *)
(***************************************************************************)
LEMMA ReturnKeeps ==
  ASSUME Stacks, StacksOK, NEW t \in Tasks, Return(t)
  PROVE  /\ TopReturns(t) /\ StacksOK'
         /\ Running(t)' => Top(t)'.at \in {"parts", "handled"}
         /\ \A u \in Tasks \ {t} : Running(u)' <=> Running(u)
<1> DEFINE n == Len(calls[t])
<1>1. /\ Running(t) /\ n \in 1 .. n /\ Top(t) = calls[t][n]
      /\ \A i \in 1 .. n : calls[t][i] \in FrameType
  BY StackIs DEF Return, At
<1>2. StackOK(t)
  BY DEF StacksOK
<1>3. n > 1 => Top(t).op \in {"log", "dump"}
  BY <1>1, <1>2 DEF StackOK
<1>4. TopReturns(t)
  BY <1>3, ReturnShape DEF Messages
<1>5. Stacks' /\ OthersStay(t) /\ n \in Nat \ {0} /\ Len(calls'[t]) = n - 1
  BY <1>4 DEF TopReturns
<1>6. ASSUME NEW i \in 1 .. n - 1
      PROVE  calls'[t][i].op = calls[t][i].op /\ calls'[t][i].at = calls[t][i].at
  <2>1. i \in 1 .. n - 2 \/ i = n - 1
    BY <1>5
  <2>2. CASE i \in 1 .. n - 2
    BY <1>4, <2>2 DEF TopReturns, StaysBelow
  <2>3. CASE i = n - 1
    <3>1. n > 1
      BY <1>5, <2>3
    <3>2. calls'[t][i] = Credited(calls[t][i], Top(t))
      BY <1>4, <2>3, <3>1 DEF TopReturns
    <3>3. calls[t][i] \in FrameType /\ Top(t) \in FrameType
      BY <1>1, <1>5
    <3> QED BY <1>3, <3>1, <3>2, <3>3, CreditedType DEF Messages
  <2> QED BY <2>1, <2>2, <2>3
<1>7. ASSUME NEW i \in 1 .. n - 1
      PROVE  /\ calls'[t][i].at \in StagesOf(calls'[t][i].op) \cap {"parts", "handled"}
             /\ i > 1 => calls'[t][i].op \in {"log", "dump"}
  <2>1. i \in 1 .. n /\ i < n
    BY <1>5
  <2> QED BY <1>2, <1>6, <2>1 DEF StackOK
<1>8. StackOK(t)'
  BY <1>5, <1>7 DEF StackOK
<1>9. Running(t)' => Top(t)'.at \in {"parts", "handled"}
  <2> SUFFICES ASSUME Running(t)' PROVE Top(t)'.at \in {"parts", "handled"}
    OBVIOUS
  <2>1. Top(t)' = calls'[t][n - 1] /\ n - 1 \in 1 .. n - 1
    BY <1>5, StackIsNext
  <2> QED BY <1>7, <2>1
<1> QED BY <1>4, <1>5, <1>8, <1>9, OthersKeep DEF StacksOK

(***************************************************************************)
(* So does log_level_set, whose frame is alone on its stack.               *)
(***************************************************************************)
LEMMA ObserveKeeps ==
  ASSUME Stacks, StacksOK, NEW t \in Tasks, At(t, {"set"}, "locked"),
         NEW now \in [TagPointers -> Levels], AllObserve(t, now)
  PROVE  /\ StacksOK' /\ Running(t)' /\ Len(calls[t]) = 1
         /\ Top(t)'.at = "unlock" /\ Top(t)'.op = "set"
         /\ \A u \in Tasks : Running(u)' <=> Running(u)
         /\ \A u \in Tasks \ {t} :
              Running(u) => /\ Top(u)'.at = Top(u).at /\ Top(u)'.op = Top(u).op
                            /\ Top(u).op \notin Messages => Top(u)' = Top(u)
<1>1. Stacks' /\ \A u \in Tasks : Len(calls'[u]) = Len(calls[u])
  BY DEF AllObserve
<1>2. \A u \in Tasks : Running(u)' <=> Running(u)
  BY <1>1, StackIs, StackIsNext
<1>3. Len(calls[t]) = 1 /\ calls[t][1] = Top(t)
  <2> DEFINE n == Len(calls[t])
  <2>1. n \in Nat /\ n \in 1 .. n /\ Top(t) = calls[t][n] /\ Top(t).op = "set"
    BY StackIs DEF At
  <2>2. n > 1 => Top(t).op \in {"log", "dump"}
    BY <2>1 DEF StacksOK, StackOK
  <2> HIDE DEF n
  <2>3. n = 1
    BY <2>1, <2>2
  <2> QED BY <2>1, <2>3 DEF n
<1>4. calls[t][1] \in FrameType /\ calls'[t][1] = [calls[t][1] EXCEPT !.at = "unlock"]
  BY <1>3, StackIs DEF AllObserve
<1>5. calls'[t][1].at = "unlock" /\ calls'[t][1].op = "set"
  BY <1>3, <1>4, FrameMoves DEF At, Stages
<1>6. StackOK(t)'
  <2>1. "unlock" \in StagesOf("set") /\ Len(calls'[t]) = 1
    BY <1>1, <1>3 DEF StagesOf
  <2> QED BY <1>5, <2>1 DEF StackOK
<1>7. ASSUME NEW u \in Tasks \ {t}
      PROVE  /\ StackOK(u)'
             /\ Running(u) => /\ Top(u)'.at = Top(u).at /\ Top(u)'.op = Top(u).op
                              /\ Top(u).op \notin Messages => Top(u)' = Top(u)
  <2>1. \A i \in 1 .. Len(calls[u]) : calls[u][i] \in FrameType
    BY StackIs
  <2>2. ASSUME NEW i \in 1 .. Len(calls[u])
        PROVE  /\ calls'[u][i].op = calls[u][i].op /\ calls'[u][i].at = calls[u][i].at
               /\ calls[u][i].op \notin Messages => calls'[u][i] = calls[u][i]
    <3>1. calls[u][i] \in FrameType /\ calls'[u][i] = Observed(calls[u][i], now)
      BY <2>1 DEF AllObserve
    <3>2. calls[u][i].op \notin Messages => Observed(calls[u][i], now) = calls[u][i]
      BY DEF Observed
    <3> QED BY <3>1, <3>2, ObservedType
  <2>3. StackOK(u)
    BY DEF StacksOK
  <2>4. StackOK(u)'
    BY <1>1, <2>2, <2>3 DEF StackOK
  <2>5. Running(u) => /\ Top(u)' = calls'[u][Len(calls[u])] /\ Top(u) = calls[u][Len(calls[u])]
                      /\ Len(calls[u]) \in 1 .. Len(calls[u])
    BY <1>1, <1>2, StackIs, StackIsNext
  <2> QED BY <2>2, <2>4, <2>5
<1>8. Running(t)' /\ Top(t)' = calls'[t][1]
  BY <1>1, <1>3, StackIsNext
<1> QED BY <1>2, <1>3, <1>5, <1>6, <1>7, <1>8 DEF StacksOK

-----------------------------------------------------------------------------
(* The steps as changes of the stacks *)

\* The frame of an operation that has the type of its kind.
CustomFrame(f) == [f EXCEPT !.at = "handler", !.verdict = "custom"]
RefusedFrame(f) == [f EXCEPT !.at = "return", !.verdict = "refused", !.refused = TRUE]
LookedUpFrame(f) ==
  [f EXCEPT !.at = "unlock",
            !.verdict = IF f.level <= Registry!Effective(Text[f.tag]) THEN "visible" ELSE "filtered"]
ReadFrame(f) ==
  [f EXCEPT !.at = "install",
            !.orig = IF f.new \in PrintFuncs THEN s_log_print_func ELSE s_writev_func]
CallingFrame(f) == [f EXCEPT !.parts = Tail(f.parts)]

(***************************************************************************)
(* The frames a step makes have the type of a frame.                       *)
(***************************************************************************)
LEMMA EditsType ==
  ASSUME Typed, NEW f \in FrameType
  PROVE  /\ f.op \in Messages =>
              {CustomFrame(f), RefusedFrame(f), LookedUpFrame(f)} \subseteq MessageFrames
         /\ f.op \in Messages /\ f.parts # <<>> => CallingFrame(f) \in MessageFrames
         /\ f.op = "swap" => ReadFrame(f) \in SwapFrames
<1>1. ASSUME f \in MessageFrames
      PROVE  {CustomFrame(f), RefusedFrame(f), LookedUpFrame(f)} \subseteq MessageFrames
  <2>1. CustomFrame(f) \in MessageFrames
    BY <1>1 DEF CustomFrame, MessageFrames, Stages, Verdicts
  <2>2. RefusedFrame(f) \in MessageFrames
    BY <1>1 DEF RefusedFrame, MessageFrames, Stages, Verdicts
  <2>3. LookedUpFrame(f) \in MessageFrames
    <3> DEFINE v == IF f.level <= Registry!Effective(Text[f.tag]) THEN "visible" ELSE "filtered"
    <3>1. v \in Verdicts
      BY DEF Verdicts
    <3> HIDE DEF v
    <3>2. [f EXCEPT !.at = "unlock", !.verdict = v] \in MessageFrames
      BY <1>1, <3>1 DEF MessageFrames, Stages
    <3> QED BY <3>2 DEF LookedUpFrame, v
  <2> QED BY <2>1, <2>2, <2>3
<1>2. ASSUME f \in MessageFrames, f.parts # <<>>
      PROVE  CallingFrame(f) \in MessageFrames
  <2>1. f.parts \in PartsLeft
    BY <1>2 DEF MessageFrames
  <2>2. Tail(f.parts) \in PartsLeft
    BY <1>2, <2>1, PartsAre
  <2> QED BY <1>2, <2>2 DEF CallingFrame, MessageFrames
<1>3. ASSUME f \in SwapFrames
      PROVE  ReadFrame(f) \in SwapFrames
  <2> DEFINE o == IF f.new \in PrintFuncs THEN s_log_print_func ELSE s_writev_func
  <2>1. o \in Functions \cup {NULL}
    BY DEF Typed, Functions
  <2> HIDE DEF o
  <2>2. [f EXCEPT !.at = "install", !.orig = o] \in SwapFrames
    BY <1>3, <2>1 DEF SwapFrames, Stages
  <2> QED BY <2>2 DEF ReadFrame, o
<1> QED BY <1>1, <1>2, <1>3, FrameKinds

(***************************************************************************)
(* A task that asks for the lock gets it: nobody else is there without an  *)
(* operating system, and it does not hold the lock itself.                 *)
(***************************************************************************)
LEMMA LockIsFree ==
  ASSUME StackInv, NEW t \in Tasks, TakeLock(t)
  PROVE  /\ holder = NoTask /\ holder' = t
         /\ GoesTo(t, "locked")
<1>1. CASE port = "noos" /\ holder # NoTask
  <2>1. holder \in Tasks /\ Running(holder) /\ Top(holder).at \in Holding
    BY <1>1 DEF StackInv, HolderOK, InSection, Typed
  <2>2. Running(t) /\ Top(t).at = "lock"
    BY DEF TakeLock, At
  <2>3. holder = t
    BY <1>1, <2>1, <2>2 DEF StackInv, OneProgram
  <2> QED BY <2>1, <2>2, <2>3 DEF Holding
<1>2. CASE ~(port = "noos" /\ holder # NoTask)
  BY <1>2 DEF TakeLock, Lock!Acquire
<1> QED BY <1>1, <1>2

(***************************************************************************)
(* The steps of a call that leave the depth of its stack.                  *)
(***************************************************************************)
LEMMA Moves ==
  ASSUME StackInv, NEW t \in Tasks
  PROVE  /\ log_write(t) => TopBecomes(t, IF s_writev_func = log_writev
                                          THEN [Top(t) EXCEPT !.at = "lock"] ELSE CustomFrame(Top(t)))
         /\ TakeLock(t) => TopBecomes(t, [Top(t) EXCEPT !.at = "locked"])
         /\ LockTimesOut(t) => TopBecomes(t, RefusedFrame(Top(t)))
         /\ LookUp(t) => TopBecomes(t, LookedUpFrame(Top(t)))
         /\ Unlock(t) => TopBecomes(t, [Top(t) EXCEPT !.at = AfterUnlock(Top(t))])
         /\ HandlerReturns(t) => TopBecomes(t, [Top(t) EXCEPT !.at = "return"])
         /\ NextPart(t) /\ Top(t).parts = <<>> => TopBecomes(t, [Top(t) EXCEPT !.at = "return"])
         /\ ReadFunc(t) => TopBecomes(t, ReadFrame(Top(t)))
         /\ WriteFunc(t) => TopBecomes(t, [Top(t) EXCEPT !.at = "unlock"])
<1>1. Typed /\ Stacks
  BY DEF StackInv, Typed
<1>2. ASSUME NEW stage \in Stages, Running(t), GoesTo(t, stage)
      PROVE  TopBecomes(t, [Top(t) EXCEPT !.at = stage])
  <2>1. [Top(t) EXCEPT !.at = stage] \in FrameType
    BY <1>1, <1>2, StackIs, FrameMoves
  <2> QED BY <1>1, <1>2, <2>1, ReplaceShape DEF GoesTo
<1>3. Running(t) => Top(t) \in FrameType
  BY <1>1, StackIs
<1> USE DEF Stages
<1>4. log_write(t) => TopBecomes(t, IF s_writev_func = log_writev
                                     THEN [Top(t) EXCEPT !.at = "lock"] ELSE CustomFrame(Top(t)))
  <2> SUFFICES ASSUME log_write(t)
               PROVE  TopBecomes(t, IF s_writev_func = log_writev
                                     THEN [Top(t) EXCEPT !.at = "lock"] ELSE CustomFrame(Top(t)))
    OBVIOUS
  <2>1. Running(t) /\ Top(t).op = "log"
    BY DEF log_write, At
  <2>2. CASE s_writev_func = log_writev
    BY <1>2, <2>1, <2>2 DEF log_write
  <2>3. CASE s_writev_func # log_writev
    <3>1. CustomFrame(Top(t)) \in FrameType
      BY <1>1, <1>3, <2>1, EditsType DEF Messages, FrameType
    <3>2. Replace(t, CustomFrame(Top(t)))
      BY <2>3 DEF log_write, CustomFrame
    <3> QED BY <1>1, <2>1, <2>3, <3>1, <3>2, ReplaceShape
  <2> QED BY <2>2, <2>3
<1>5. TakeLock(t) => TopBecomes(t, [Top(t) EXCEPT !.at = "locked"])
  BY <1>2, LockIsFree DEF TakeLock, At
<1>6. LockTimesOut(t) => TopBecomes(t, RefusedFrame(Top(t)))
  <2> SUFFICES ASSUME LockTimesOut(t) PROVE TopBecomes(t, RefusedFrame(Top(t)))
    OBVIOUS
  <2>1. Running(t) /\ Top(t).op \in Messages /\ Replace(t, RefusedFrame(Top(t)))
    BY DEF LockTimesOut, At, Messages, RefusedFrame
  <2>2. RefusedFrame(Top(t)) \in FrameType
    BY <1>1, <1>3, <2>1, EditsType DEF FrameType
  <2> QED BY <1>1, <2>1, <2>2, ReplaceShape
<1>7. LookUp(t) => TopBecomes(t, LookedUpFrame(Top(t)))
  <2> SUFFICES ASSUME LookUp(t) PROVE TopBecomes(t, LookedUpFrame(Top(t)))
    OBVIOUS
  <2>1. Running(t) /\ Top(t).op \in Messages /\ Replace(t, LookedUpFrame(Top(t)))
    BY DEF LookUp, At, Messages, LookedUpFrame
  <2>2. LookedUpFrame(Top(t)) \in FrameType
    BY <1>1, <1>3, <2>1, EditsType DEF FrameType
  <2> QED BY <1>1, <2>1, <2>2, ReplaceShape
<1>8. Unlock(t) => TopBecomes(t, [Top(t) EXCEPT !.at = AfterUnlock(Top(t))])
  BY <1>2 DEF Unlock, At, AfterUnlock
<1>9. HandlerReturns(t) => TopBecomes(t, [Top(t) EXCEPT !.at = "return"])
  BY <1>2 DEF HandlerReturns, At
<1>10. NextPart(t) /\ Top(t).parts = <<>> => TopBecomes(t, [Top(t) EXCEPT !.at = "return"])
  BY <1>2 DEF NextPart, At
<1>11. ReadFunc(t) => TopBecomes(t, ReadFrame(Top(t)))
  <2> SUFFICES ASSUME ReadFunc(t) PROVE TopBecomes(t, ReadFrame(Top(t)))
    OBVIOUS
  <2>1. Running(t) /\ Top(t).op = "swap" /\ Replace(t, ReadFrame(Top(t)))
    BY DEF ReadFunc, At, ReadFrame
  <2>2. ReadFrame(Top(t)) \in FrameType
    BY <1>1, <1>3, <2>1, EditsType DEF FrameType
  <2> QED BY <1>1, <2>1, <2>2, ReplaceShape
<1>12. WriteFunc(t) => TopBecomes(t, [Top(t) EXCEPT !.at = "unlock"])
  BY <1>2 DEF WriteFunc, At
<1> QED BY <1>4, <1>5, <1>6, <1>7, <1>8, <1>9, <1>10, <1>11, <1>12

(***************************************************************************)
(* The steps that put a frame on a stack.                                  *)
(***************************************************************************)
LEMMA Pushes ==
  ASSUME StackInv, NEW t \in Tasks
  PROVE  /\ HandlerLogs(t) =>
              \E p \in TagPointers, level \in MessageLevels :
                TopCalls(t, [Top(t) EXCEPT !.at = "handled"], Message("log", p, level))
         /\ NextPart(t) /\ Top(t).parts # <<>> =>
              TopCalls(t, CallingFrame(Top(t)),
                       Message(Head(Top(t).parts), Top(t).tag, Top(t).level))
         /\ Begin(t) =>
              \/ /\ UNCHANGED owned
                 /\ \E p \in TagPointers, level \in MessageLevels, op \in Messages :
                      Starts(t, Message(op, p, level))
              \/ /\ UNCHANGED owned
                 /\ \E p \in TagPointers, level \in Levels : Starts(t, Setting(p, level))
              \/ \E func \in owned[t] :
                   /\ Starts(t, Swap(func))
                   /\ owned' = [owned EXCEPT ![t] = @ \ {func}]
<1>1. Typed /\ Stacks
  BY DEF StackInv, Typed
<1>2. Running(t) => Top(t) \in FrameType
  BY <1>1, StackIs
<1>3. ASSUME HandlerLogs(t)
      PROVE  \E p \in TagPointers, level \in MessageLevels :
               TopCalls(t, [Top(t) EXCEPT !.at = "handled"], Message("log", p, level))
  <2>1. Running(t)
    BY <1>3 DEF HandlerLogs, At
  <2>2. PICK p \in TagPointers, level \in MessageLevels :
          calls' = [calls EXCEPT ![t] =
                      Front(@) \o <<[Top(t) EXCEPT !.at = "handled"], Message("log", p, level)>>]
    BY <1>3 DEF HandlerLogs
  <2>3. [Top(t) EXCEPT !.at = "handled"] \in FrameType
    BY <1>2, <2>1, FrameMoves DEF Stages
  <2>4. Message("log", p, level) \in FrameType
    BY <1>1, MessageType DEF Messages, FrameType
  <2>5. TopCalls(t, [Top(t) EXCEPT !.at = "handled"], Message("log", p, level))
    BY <1>1, <2>1, <2>2, <2>3, <2>4, CallShape
  <2> QED BY <2>5
<1>4. ASSUME NextPart(t), Top(t).parts # <<>>
      PROVE  TopCalls(t, CallingFrame(Top(t)),
                      Message(Head(Top(t).parts), Top(t).tag, Top(t).level))
  <2> DEFINE g == Message(Head(Top(t).parts), Top(t).tag, Top(t).level)
  <2>1. Running(t) /\ Top(t).op \in Messages
    BY <1>4 DEF NextPart, At, Messages
  <2>2. Top(t) \in MessageFrames
    BY <1>2, <2>1, FrameKinds
  <2>3. Head(Top(t).parts) \in Messages
    BY <1>4, <2>2, PartsAre DEF MessageFrames, Messages
  <2>4. g \in FrameType
    <3>1. Top(t).tag \in TagPointers /\ Top(t).level \in MessageLevels
      BY <2>2 DEF MessageFrames
    <3> QED BY <1>1, <2>3, <3>1, MessageType DEF FrameType
  <2>5. CallingFrame(Top(t)) \in FrameType
    BY <1>1, <1>2, <1>4, <2>1, EditsType DEF FrameType
  <2>6. calls' = [calls EXCEPT ![t] = Front(@) \o <<CallingFrame(Top(t)), g>>]
    BY <1>4 DEF NextPart, CallingFrame
  <2> QED BY <1>1, <2>1, <2>4, <2>5, <2>6, CallShape
<1>5. ASSUME Begin(t)
      PROVE  \/ /\ UNCHANGED owned
                /\ \E p \in TagPointers, level \in MessageLevels, op \in Messages :
                     Starts(t, Message(op, p, level))
             \/ /\ UNCHANGED owned
                /\ \E p \in TagPointers, level \in Levels : Starts(t, Setting(p, level))
             \/ \E func \in owned[t] :
                  /\ Starts(t, Swap(func))
                  /\ owned' = [owned EXCEPT ![t] = @ \ {func}]
  <2>1. ~Running(t)
    BY <1>5 DEF Begin
  <2>2. ASSUME NEW p \in TagPointers, NEW level \in MessageLevels, NEW op \in Messages,
               Push(t, Message(op, p, level))
        PROVE  Starts(t, Message(op, p, level))
    BY <1>1, <2>1, <2>2, MessageType, PushShape DEF FrameType
  <2>3. ASSUME NEW p \in TagPointers, NEW level \in Levels, Push(t, Setting(p, level))
        PROVE  Starts(t, Setting(p, level))
    <3>1. Setting(p, level) \in FrameType
      BY DEF Setting, SetFrames, FrameType, Stages
    <3> QED BY <1>1, <2>1, <2>3, <3>1, PushShape
  <2>4. ASSUME NEW func \in owned[t], Push(t, Swap(func))
        PROVE  Starts(t, Swap(func))
    <3>1. func \in Functions
      BY <1>1 DEF Typed
    <3>2. Swap(func) \in FrameType
      BY <3>1 DEF Swap, SwapFrames, FrameType, Stages
    <3> QED BY <1>1, <2>1, <2>4, <3>2, PushShape
  <2> QED BY <1>5, <2>2, <2>3, <2>4 DEF Begin
<1> QED BY <1>3, <1>4, <1>5

-----------------------------------------------------------------------------
(* The invariant of the stacks and the lock *)

(***************************************************************************)
(* At the start no task is in a call.                                      *)
(***************************************************************************)
LEMMA InitStacks == Init => StackInv
<1> SUFFICES ASSUME Init PROVE StackInv
  OBVIOUS
<1>1. Stacks /\ \A t \in Tasks : calls[t] = <<>> /\ Len(calls[t]) = 0
  BY DEF Init, Stacks
<1>2. Typed
  BY <1>1, LoggerAssumption
  DEF Init, Typed, Registry!Init, Lock!Init, Functions
<1>3. StacksOK
  BY <1>1 DEF StacksOK, StackOK
<1>4. \A t \in Tasks : ~Running(t)
  BY <1>1 DEF Running
<1>5. HolderOK /\ OneProgram /\ OrigKnown
  BY <1>4, LoggerAssumption DEF Init, Lock!Init, HolderOK, OneProgram, OrigKnown, InSection
<1> QED BY <1>2, <1>3, <1>5 DEF StackInv

(***************************************************************************)
(* The holder, when the frame on top of one task has changed.              *)
(***************************************************************************)
LEMMA HolderMoves ==
  ASSUME HolderOK, NEW t \in Tasks, OthersStay(t),
         \A u \in Tasks \ {t} : holder' = u <=> holder = u,
         holder' = t <=> InSection(t)'
  PROVE  HolderOK'
<1>1. \A u \in Tasks \ {t} : InSection(u)' = InSection(u)
  BY OthersKeep
<1> QED BY <1>1 DEF HolderOK

(***************************************************************************)
(* The old functions, when the frame on top of one task has changed.       *)
(***************************************************************************)
LEMMA OrigMoves ==
  ASSUME OrigKnown, NEW t \in Tasks, OthersStay(t),
         (Running(t) /\ ReadsOrig(Top(t)) => Top(t).orig \in Functions)'
  PROVE  OrigKnown'
<1>1. \A u \in Tasks \ {t} : Running(u)' = Running(u) /\ Top(u)' = Top(u)
  BY OthersKeep
<1> QED BY <1>1 DEF OrigKnown, ReadsOrig

(***************************************************************************)
(* A step that gives its frame another stage keeps the invariant, if the   *)
(* lock follows.                                                           *)
(***************************************************************************)
LEMMA MoveKeeps ==
  ASSUME StackInv, Typed', NEW t \in Tasks, Running(t), UNCHANGED port,
         NEW f, TopBecomes(t, f), f.op = Top(t).op, f.at \in StagesOf(f.op),
         \A u \in Tasks \ {t} : holder' = u <=> holder = u,
         holder' = t <=> f.at \in Holding,
         ReadsOrig(f) => f.orig \in Functions
  PROVE  StackInv'
<1>1. Stacks /\ StacksOK /\ HolderOK /\ OneProgram /\ OrigKnown /\ OthersStay(t)
  BY DEF StackInv, Typed, TopBecomes
<1>2. /\ StacksOK' /\ Running(t)' /\ Top(t)' = f
      /\ \A u \in Tasks : Running(u)' <=> Running(u)
  BY <1>1, BecomesKeeps
<1>3. HolderOK'
  <2>1. InSection(t)' <=> f.at \in Holding
    BY <1>2 DEF InSection
  <2> QED BY <1>1, <2>1, HolderMoves
<1>4. OneProgram'
  BY <1>1, <1>2 DEF OneProgram
<1>5. OrigKnown'
  BY <1>1, <1>2, OrigMoves DEF ReadsOrig
<1> QED BY <1>2, <1>3, <1>4, <1>5 DEF StackInv

(***************************************************************************)
(* Every step of a call keeps the stacks in order and the lock with the    *)
(* frame that has it.                                                      *)
(***************************************************************************)
LEMMA StepStacks ==
  ASSUME StackInv, NEW t \in Tasks, Step(t)
  PROVE  StackInv'
<1>1. /\ Typed /\ Stacks /\ StacksOK /\ HolderOK /\ OneProgram /\ OrigKnown
      /\ UNCHANGED port
  BY DEF StackInv, Typed, Step
<1>2. Running(t) => Top(t) \in FrameType /\ Top(t).at \in StagesOf(Top(t).op)
  BY <1>1, StackIs DEF StacksOK, StackOK
<1>3. HolderOK => (holder = t <=> InSection(t))
  BY DEF HolderOK
<1> DEFINE f(stage) == [Top(t) EXCEPT !.at = stage]
<1>4. Running(t) => \A stage \in Stages : f(stage).op = Top(t).op /\ f(stage).at = stage
  BY <1>2, FrameMoves
<1> HIDE DEF f
<1>5. CASE log_write(t)
  <2>1. Running(t) /\ Top(t).op = "log" /\ Top(t).at = "entry" /\ Top(t) \in MessageFrames
    BY <1>2, <1>5, FrameKinds DEF log_write, At, Messages
  <2>2. holder' = holder /\ holder # t
    BY <1>1, <1>3, <1>5, <2>1 DEF log_write, InSection, Holding
  <2> DEFINE g == IF s_writev_func = log_writev THEN [Top(t) EXCEPT !.at = "lock"]
                                                ELSE CustomFrame(Top(t))
  <2>3. TopBecomes(t, g)
    BY <1>5, Moves
  <2>4. g.op = "log" /\ g.at \in {"lock", "handler"}
    BY <2>1 DEF CustomFrame, MessageFrames
  <2> HIDE DEF g
  <2>5. Typed'
    BY <1>1, <1>5, <2>3 DEF log_write, Typed, TopBecomes, levelVars, funcVars
  <2> QED BY <1>1, <2>1, <2>2, <2>3, <2>4, <2>5, MoveKeeps DEF StagesOf, Holding, ReadsOrig
<1>6. CASE TakeLock(t)
  <2>1. Running(t) /\ Top(t).at = "lock" /\ Top(t).op # "macro"
    BY <1>2, <1>6 DEF TakeLock, At, StagesOf
  <2>2. holder = NoTask /\ holder' = t /\ TopBecomes(t, f("locked"))
    BY <1>6, LockIsFree, Moves DEF f
  <2>3. f("locked").op = Top(t).op /\ f("locked").at = "locked"
    BY <1>4, <2>1 DEF Stages
  <2>4. "locked" \in StagesOf(Top(t).op)
    BY <1>2, <2>1, FrameKinds DEF StagesOf, Operations
  <2>5. Typed'
    BY <1>1, <1>6, <2>2 DEF TakeLock, Typed, TopBecomes, levelVars, funcVars
  <2> QED BY <1>1, <2>1, <2>2, <2>3, <2>4, <2>5, MoveKeeps, LoggerAssumption DEF Holding, ReadsOrig
<1>7. CASE LockTimesOut(t)
  <2>1. Running(t) /\ Top(t).op \in {"log", "dump"} /\ Top(t).at = "lock"
    BY <1>7 DEF LockTimesOut, At
  <2>2. holder' = holder /\ holder # t
    BY <1>7 DEF LockTimesOut, Lock!Refused
  <2> DEFINE g == RefusedFrame(Top(t))
  <2>3. TopBecomes(t, g)
    BY <1>7, Moves
  <2>4. g.op = Top(t).op /\ g.at = "return"
    BY <1>2, <2>1, FrameKinds DEF RefusedFrame, MessageFrames, Messages
  <2> HIDE DEF g
  <2>5. Typed'
    BY <1>1, <1>7, <2>2, <2>3 DEF LockTimesOut, Typed, TopBecomes, levelVars, funcVars
  <2> QED BY <1>1, <2>1, <2>2, <2>3, <2>4, <2>5, MoveKeeps DEF StagesOf, Holding, ReadsOrig
<1>8. CASE LookUp(t)
  <2>1. Running(t) /\ Top(t).op \in {"log", "dump"} /\ Top(t).at = "locked"
    BY <1>8 DEF LookUp, At
  <2>2. holder' = holder /\ holder = t
    BY <1>1, <1>3, <1>8, <2>1 DEF LookUp, InSection, Holding
  <2> DEFINE g == LookedUpFrame(Top(t))
  <2>3. TopBecomes(t, g)
    BY <1>8, Moves
  <2>4. g.op = Top(t).op /\ g.at = "unlock"
    BY <1>2, <2>1, FrameKinds DEF LookedUpFrame, MessageFrames, Messages
  <2> HIDE DEF g
  <2>5. Typed'
    BY <1>1, <1>8, <2>3 DEF LookUp, Typed, TopBecomes, levelVars, funcVars
  <2> QED BY <1>1, <2>1, <2>2, <2>3, <2>4, <2>5, MoveKeeps DEF StagesOf, Holding, ReadsOrig
<1>9. CASE Unlock(t)
  <2>1. Running(t) /\ Top(t).at = "unlock" /\ Top(t).op # "macro"
    BY <1>2, <1>9 DEF Unlock, At, StagesOf
  <2>2. holder = t /\ holder' = NoTask
    BY <1>9 DEF Unlock, Lock!Release
  <2> DEFINE a == AfterUnlock(Top(t))
  <2>3. TopBecomes(t, f(a))
    BY <1>9, Moves DEF f
  <2>4. a \in StagesOf(Top(t).op) /\ a \in {"handler", "parts", "return"}
    BY <1>2, <2>1, FrameKinds DEF AfterUnlock, StagesOf, Operations
  <2>5. f(a).op = Top(t).op /\ f(a).at = a
    BY <1>4, <2>1, <2>4 DEF Stages
  <2>7. ReadsOrig(f(a)) => f(a).orig \in Functions
    BY <1>1, <1>2, <2>1, <2>5, FrameKinds DEF OrigKnown, ReadsOrig, SwapFrames, f
  <2> HIDE DEF a
  <2>6. Typed'
    BY <1>1, <1>9, <2>2, <2>3 DEF Unlock, Typed, TopBecomes, levelVars, funcVars
  <2> QED BY <1>1, <2>1, <2>2, <2>3, <2>4, <2>5, <2>6, <2>7, MoveKeeps, LoggerAssumption DEF Holding
<1>10. CASE HandlerReturns(t)
  <2>1. Running(t) /\ Top(t).op = "log" /\ Top(t).at \in {"handler", "handled"}
    BY <1>10 DEF HandlerReturns, At
  <2>2. holder' = holder /\ holder # t
    BY <1>1, <1>3, <1>10, <2>1 DEF HandlerReturns, InSection, Holding
  <2>3. TopBecomes(t, f("return")) /\ f("return").op = "log" /\ f("return").at = "return"
    BY <1>4, <1>10, <2>1, Moves DEF f, Stages
  <2>4. Typed'
    BY <1>1, <1>10, <2>3 DEF HandlerReturns, Typed, TopBecomes, levelVars, funcVars
  <2> QED BY <1>1, <2>1, <2>2, <2>3, <2>4, MoveKeeps DEF StagesOf, Holding, ReadsOrig
<1>11. CASE HandlerLogs(t)
  <2>1. Running(t) /\ Top(t).op = "log" /\ Top(t).at = "handler"
    BY <1>11 DEF HandlerLogs, At
  <2>2. holder' = holder /\ holder # t
    BY <1>1, <1>3, <1>11, <2>1 DEF HandlerLogs, InSection, Holding
  <2>3. PICK p \in TagPointers, level \in MessageLevels :
          TopCalls(t, f("handled"), Message("log", p, level))
    BY <1>11, Pushes DEF f
  <2>4. /\ f("handled").op = "log" /\ f("handled").at = "handled"
        /\ Message("log", p, level).op = "log" /\ Message("log", p, level).at = "entry"
    BY <1>4, <2>1 DEF Message, Stages
  <2>5. /\ StacksOK' /\ Running(t)' /\ Top(t)' = Message("log", p, level)
        /\ \A u \in Tasks : Running(u)' <=> Running(u)
    BY <1>1, <2>1, <2>3, <2>4, CallKeeps DEF StagesOf
  <2>6. HolderOK' /\ OneProgram' /\ OrigKnown'
    BY <1>1, <2>2, <2>3, <2>4, <2>5, HolderMoves, OrigMoves
    DEF TopCalls, InSection, Holding, OneProgram, ReadsOrig
  <2>7. Typed'
    BY <1>1, <1>11, <2>3 DEF HandlerLogs, Typed, TopCalls, levelVars, funcVars
  <2> QED BY <2>5, <2>6, <2>7 DEF StackInv
<1>12. CASE NextPart(t)
  <2>1. Running(t) /\ Top(t).op \in {"dump", "macro"} /\ Top(t).at = "parts"
    BY <1>12 DEF NextPart, At
  <2>2. holder' = holder /\ holder # t
    BY <1>1, <1>3, <1>12, <2>1 DEF NextPart, InSection, Holding
  <2>3. CASE Top(t).parts = <<>>
    <3>1. TopBecomes(t, f("return")) /\ f("return").op = Top(t).op /\ f("return").at = "return"
      BY <1>4, <1>12, <2>1, <2>3, Moves DEF f, Stages
    <3>2. Typed'
      BY <1>1, <1>12, <3>1 DEF NextPart, Typed, TopBecomes, levelVars, funcVars
    <3> QED BY <1>1, <2>1, <2>2, <3>1, <3>2, MoveKeeps DEF StagesOf, Holding, ReadsOrig
  <2>4. CASE Top(t).parts # <<>>
    <3> DEFINE g == Message(Head(Top(t).parts), Top(t).tag, Top(t).level)
               c == CallingFrame(Top(t))
    <3>1. TopCalls(t, c, g)
      BY <1>12, <2>4, Pushes
    <3>2. Top(t) \in MessageFrames /\ Head(Top(t).parts) \in {"log", "dump"}
      BY <1>2, <2>1, <2>4, FrameKinds, PartsAre DEF Messages, MessageFrames
    <3>3. /\ c.op = Top(t).op /\ c.at = "parts"
          /\ g.op \in {"log", "dump"} /\ g.at \in StagesOf(g.op) /\ g.at \notin Holding
      BY <2>1, <3>2 DEF CallingFrame, MessageFrames, Message, StagesOf, Holding
    <3> HIDE DEF g, c
    <3>4. /\ StacksOK' /\ Running(t)' /\ Top(t)' = g
          /\ \A u \in Tasks : Running(u)' <=> Running(u)
      BY <1>1, <2>1, <3>1, <3>3, CallKeeps DEF StagesOf
    <3>5. HolderOK' /\ OneProgram' /\ OrigKnown'
      BY <1>1, <2>2, <3>1, <3>3, <3>4, HolderMoves, OrigMoves
      DEF TopCalls, InSection, OneProgram, ReadsOrig
    <3>6. Typed'
      BY <1>1, <1>12, <3>1 DEF NextPart, Typed, TopCalls, levelVars, funcVars
    <3> QED BY <3>4, <3>5, <3>6 DEF StackInv
  <2> QED BY <2>3, <2>4
<1>13. CASE SetLevel(t)
  <2>1. At(t, {"set"}, "locked") /\ Running(t) /\ Top(t).op = "set" /\ Top(t).at = "locked"
    BY <1>13 DEF SetLevel, At
  <2>2. holder' = holder /\ holder = t
    BY <1>1, <1>3, <1>13, <2>1 DEF SetLevel, InSection, Holding
  <2>3. PICK now \in [TagPointers -> Levels] : AllObserve(t, now)
    BY <1>1, <1>13, SetLevelShape
  <2>4. /\ StacksOK' /\ Running(t)' /\ Top(t)'.at = "unlock" /\ Top(t)'.op = "set"
        /\ \A u \in Tasks : Running(u)' <=> Running(u)
        /\ \A u \in Tasks \ {t} :
             Running(u) => /\ Top(u)'.at = Top(u).at /\ Top(u)'.op = Top(u).op
                           /\ Top(u).op \notin Messages => Top(u)' = Top(u)
    BY <1>1, <2>1, <2>3, ObserveKeeps
  <2>5. HolderOK'
    BY <1>1, <2>1, <2>2, <2>4 DEF HolderOK, InSection, Holding
  <2>6. OneProgram' /\ OrigKnown'
    BY <1>1, <2>4 DEF OneProgram, OrigKnown, ReadsOrig, Messages
  <2>7. Typed'
    <3>1. Top(t).level \in Levels
      BY <1>2, <2>1, FrameKinds DEF SetFrames
    <3>2. defaultLevel' \in Levels /\ \A name \in DOMAIN override' : override'[name] \in Levels
      <4>1. Registry!Set(Top(t).tag, Top(t).level)
        BY <1>13 DEF SetLevel
      <4> QED BY <1>1, <3>1, <4>1
              DEF Registry!Set, Registry!SetAll, Registry!SetOne, Registry!SetNothing, Typed
    <3> QED BY <1>1, <1>13, <2>3, <3>2 DEF SetLevel, Typed, AllObserve, funcVars
  <2> QED BY <2>4, <2>5, <2>6, <2>7 DEF StackInv
<1>14. CASE ReadFunc(t)
  <2>1. Running(t) /\ Top(t).op = "swap" /\ Top(t).at = "locked" /\ Top(t) \in SwapFrames
    BY <1>2, <1>14, FrameKinds DEF ReadFunc, At
  <2>2. holder' = holder /\ holder = t
    BY <1>1, <1>3, <1>14, <2>1 DEF ReadFunc, InSection, Holding
  <2> DEFINE g == ReadFrame(Top(t))
  <2>3. TopBecomes(t, g)
    BY <1>14, Moves
  <2>4. g.op = "swap" /\ g.at = "install" /\ g.orig \in Functions
    BY <1>1, <2>1 DEF ReadFrame, SwapFrames, Typed, Functions
  <2> HIDE DEF g
  <2>5. Typed'
    BY <1>1, <1>14, <2>3 DEF ReadFunc, Typed, TopBecomes, levelVars, funcVars
  <2> QED BY <1>1, <2>1, <2>2, <2>3, <2>4, <2>5, MoveKeeps DEF StagesOf, Holding, ReadsOrig
<1>15. CASE WriteFunc(t)
  <2>1. Running(t) /\ Top(t).op = "swap" /\ Top(t).at = "install" /\ Top(t) \in SwapFrames
    BY <1>2, <1>15, FrameKinds DEF WriteFunc, At
  <2>2. holder' = holder /\ holder = t
    BY <1>1, <1>3, <1>15, <2>1 DEF WriteFunc, InSection, Holding
  <2>3. /\ TopBecomes(t, f("unlock")) /\ f("unlock").op = "swap" /\ f("unlock").at = "unlock"
        /\ f("unlock").orig \in Functions
    <3>1. Top(t).orig \in Functions
      BY <1>1, <2>1 DEF OrigKnown, ReadsOrig
    <3> QED BY <1>4, <1>15, <2>1, <3>1, Moves DEF f, Stages, SwapFrames
  <2>4. Typed'
    <3>1. s_log_print_func' \in PrintFuncs /\ s_writev_func' \in WriteFuncs
      BY <1>1, <1>15, <2>1 DEF WriteFunc, Typed, SwapFrames, Functions
    <3> QED BY <1>1, <1>15, <2>3, <3>1 DEF WriteFunc, Typed, TopBecomes, levelVars
  <2> QED BY <1>1, <2>1, <2>2, <2>3, <2>4, MoveKeeps DEF StagesOf, Holding, ReadsOrig
<1>16. CASE Return(t)
  <2>1. Running(t) /\ Top(t).at = "return"
    BY <1>16 DEF Return, At
  <2>2. holder' = holder /\ holder # t
    BY <1>1, <1>3, <1>16, <2>1 DEF Return, InSection, Holding
  <2>3. /\ TopReturns(t) /\ StacksOK'
        /\ Running(t)' => Top(t)'.at \in {"parts", "handled"}
        /\ \A u \in Tasks \ {t} : Running(u)' <=> Running(u)
    BY <1>1, <1>16, ReturnKeeps
  <2>4. HolderOK' /\ OrigKnown'
    BY <1>1, <2>2, <2>3, HolderMoves, OrigMoves DEF TopReturns, InSection, Holding, ReadsOrig
  <2>5. OneProgram'
    BY <1>1, <2>1, <2>3 DEF OneProgram
  <2>6. owned' \in [Tasks -> SUBSET Functions]
    <3>1. CASE Top(t).op = "swap"
      <4>1. owned' = [owned EXCEPT ![t] = @ \cup {Top(t).orig}]
        BY <1>16, <3>1 DEF Return
      <4>2. Top(t).orig \in Functions
        BY <1>1, <2>1, <3>1 DEF OrigKnown, ReadsOrig
      <4> QED BY <1>1, <4>1, <4>2 DEF Typed
    <3>2. CASE Top(t).op # "swap"
      BY <1>1, <1>16, <3>2 DEF Return, Typed
    <3> QED BY <3>1, <3>2
  <2>7. Typed'
    BY <1>1, <1>16, <2>3, <2>6 DEF Return, Typed, TopReturns, levelVars
  <2> QED BY <2>3, <2>4, <2>5, <2>7 DEF StackInv
<1> QED BY <1>5, <1>6, <1>7, <1>8, <1>9, <1>10, <1>11, <1>12, <1>13, <1>14, <1>15, <1>16
        DEF Step

(***************************************************************************)
(* So does the beginning of a call.                                        *)
(***************************************************************************)
LEMMA BeginStacks ==
  ASSUME StackInv, NEW t \in Tasks, Begin(t)
  PROVE  StackInv'
<1>1. Typed /\ Stacks /\ StacksOK /\ HolderOK /\ OneProgram /\ OrigKnown
  BY DEF StackInv, Typed
<1>2. ~Running(t) /\ holder' = holder /\ holder # t
  BY <1>1 DEF Begin, HolderOK, InSection
<1>3. port = "noos" => \A u \in Tasks : ~Running(u)
  BY DEF Begin
<1>4. PICK g : Starts(t, g) /\ g.at \in StagesOf(g.op) \ Holding /\ ~ReadsOrig(g)
  <2>1. \A p \in TagPointers, level \in MessageLevels, op \in Messages :
          LET g == Message(op, p, level)
          IN  g.at \in StagesOf(g.op) \ Holding /\ ~ReadsOrig(g)
    BY DEF Message, Messages, StagesOf, Holding, ReadsOrig
  <2>2. \A p \in TagPointers, level \in Levels :
          LET g == Setting(p, level)
          IN  g.at \in StagesOf(g.op) \ Holding /\ ~ReadsOrig(g)
    BY DEF Setting, StagesOf, Holding, ReadsOrig
  <2>3. \A func : LET g == Swap(func) IN g.at \in StagesOf(g.op) \ Holding /\ ~ReadsOrig(g)
    BY DEF Swap, StagesOf, Holding, ReadsOrig
  <2> QED BY <2>1, <2>2, <2>3, Pushes
<1>5. OthersStay(t) /\ Stacks'
  BY <1>4 DEF Starts
<1>6. /\ StacksOK' /\ Running(t)' /\ Top(t)' = g
      /\ \A u \in Tasks \ {t} : Running(u)' <=> Running(u)
  BY <1>1, <1>4, StartKeeps
<1>7. HolderOK' /\ OrigKnown'
  BY <1>1, <1>2, <1>4, <1>5, <1>6, HolderMoves, OrigMoves DEF InSection
<1>8. OneProgram'
  BY <1>3, <1>6 DEF Begin, OneProgram
<1>9. Typed'
  BY <1>1, <1>5, Pushes DEF Begin, Typed, levelVars
<1> QED BY <1>6, <1>7, <1>8, <1>9 DEF StackInv

(***************************************************************************)
(* The invariant is inductive.                                             *)
(***************************************************************************)
LEMMA NextStacks == StackInv /\ [Next]_vars => StackInv'
<1> SUFFICES ASSUME StackInv, [Next]_vars PROVE StackInv'
  OBVIOUS
<1>1. CASE UNCHANGED vars
  BY <1>1
  DEF vars, StackInv, Typed, Stacks, StacksOK, StackOK, HolderOK, OneProgram, OrigKnown,
      InSection, Running, Top
<1> QED BY <1>1, StepStacks, BeginStacks DEF Next

(***************************************************************************)
(* For any number of tasks and any depth of the stacks: a print function   *)
(* runs without the lock, no task asks for the lock it holds, and neither  *)
(* assert of the port without an operating system fails.                   *)
(***************************************************************************)
THEOREM HandlersRunUnlocked == Spec => []LockFreeInHandlers
<1>1. StackInv => LockFreeInHandlers
  <2> SUFFICES ASSUME StackInv, NEW t \in Tasks
               PROVE  /\ ~At(t, Operations, "aborted")
                      /\ holder = t => Running(t) /\ Top(t).at \in {"locked", "install", "unlock"}
    BY DEF LockFreeInHandlers
  <2>1. Running(t) => Top(t).at \in Stages
    BY StackIs, FrameKinds DEF StackInv, Typed
  <2> QED BY <2>1 DEF StackInv, HolderOK, InSection, Holding, At, Stages
<1> QED BY <1>1, InitStacks, NextStacks, PTL DEF Spec

-----------------------------------------------------------------------------
(* Messages and their parts *)

\* The level of every tag, and whether a message has seen it.
LevelsNow == [p \in TagPointers |-> Registry!Effective(Text[p])]
Sees(f, now) == (f.level <= now[f.tag]) \in f.seen

\* What was decided about a message agrees with what it saw and where it is.
Decided(f) ==
  /\ f.verdict = "visible" => TRUE \in f.seen
  /\ f.verdict = "filtered" => FALSE \in f.seen

VerdictFits(f) ==
  /\ f.op = "log" =>
       /\ f.at \in {"entry", "lock", "locked"} => f.verdict = "none"
       /\ f.at = "unlock" => f.verdict \in {"visible", "filtered"}
       /\ f.at \in {"handler", "handled"} => f.verdict \in {"visible", "custom"}
       /\ f.at = "return" => f.verdict # "none"
       /\ f.refused <=> f.verdict = "refused"
  /\ f.op = "dump" =>
       /\ f.at \in {"lock", "locked"} => f.verdict = "none"
       /\ f.at = "unlock" => f.verdict \in {"visible", "filtered"}
       /\ f.at = "parts" => f.verdict = "visible"
       /\ f.at = "return" => f.verdict \in {"visible", "filtered", "refused"}
       /\ f.verdict = "refused" => f.refused

FrameOK(f, now) == Sees(f, now) /\ Decided(f) /\ VerdictFits(f)

\* How many parts are counted, `pending` being one when the last one that was
\* begun has not returned; and what is put out if all of them were.
Done(f, pending) ==
  (IF f.op = "dump" THEN DumpLines ELSE 2) - Len(f.parts) - pending
Due(f, n) == IF f.op = "macro" /\ n = 2 THEN DumpLines + 1 ELSE n

Lines == {[i \in 1 .. n |-> "log"] : n \in 0 .. DumpLines}

CountedDump(f, pending) ==
  /\ f.parts \in Lines
  /\ f.verdict # "visible" => f.output = 0 /\ Len(f.parts) = DumpLines
  /\ f.verdict = "visible" =>
       /\ f.at = "return" => f.parts = <<>>
       /\ f.output <= Done(f, pending)
       /\ f.seen = {TRUE} /\ ~f.refused => f.output = Done(f, pending)

CountedMacro(f, pending) ==
  /\ f.parts \in {<<"log", "dump">>, <<"dump">>, <<>>}
  /\ f.at = "return" => f.parts = <<>>
  /\ Done(f, pending) \in 0 .. 2 /\ f.output <= Due(f, Done(f, pending))
  /\ Done(f, pending) = 0 => ~f.unfiltered
  /\ f.seen = {TRUE} /\ ~f.refused => f.output = Due(f, Done(f, pending))
  /\ f.seen = {FALSE} => f.output = IF f.unfiltered THEN 1 ELSE 0

Counted(f, pending) ==
  /\ f.op = "log" => f.output = 0
  /\ f.op = "dump" => CountedDump(f, pending)
  /\ f.op = "macro" => CountedMacro(f, pending)

\* c is a part of the message f: it looks at the same tag, and began later.
PartOf(f, c) ==
  f.op \in {"dump", "macro"} =>
    /\ c.tag = f.tag /\ c.level = f.level /\ c.seen \subseteq f.seen
    /\ c.op = IF f.op = "macro" /\ f.parts = <<>> THEN "dump" ELSE "log"

\* The i-th call of a stack.
MessageOK(stack, i, now) ==
  LET f == stack[i]
  IN  f.op \in Messages =>
        /\ FrameOK(f, now)
        /\ i < Len(stack) => Counted(f, 1) /\ PartOf(f, stack[i + 1])
        /\ i = Len(stack) => Counted(f, 0)

MessagesInv ==
  \A t \in Tasks : \A i \in 1 .. Len(calls[t]) : MessageOK(calls[t], i, LevelsNow)

\* The same message at another stage.
SameMessage(f, g) ==
  g.op = f.op /\ g.tag = f.tag /\ g.level = f.level /\ g.seen = f.seen

(***************************************************************************)
(* The lines of a dump.                                                    *)
(***************************************************************************)
LEMMA LinesAre ==
  /\ [i \in 1 .. DumpLines |-> "log"] \in Lines /\ <<>> \in Lines /\ Lines \subseteq PartsLeft
  /\ Len([i \in 1 .. DumpLines |-> "log"]) = DumpLines
  /\ \A p \in Lines : /\ Len(p) \in 0 .. DumpLines /\ (p = <<>> <=> Len(p) = 0)
                      /\ p # <<>> => /\ Head(p) = "log" /\ Tail(p) \in Lines
                                     /\ Len(Tail(p)) = Len(p) - 1
<1>1. ASSUME NEW p \in Lines
      PROVE  /\ Len(p) \in 0 .. DumpLines /\ (p = <<>> <=> Len(p) = 0)
             /\ p # <<>> => /\ Head(p) = "log" /\ Tail(p) \in Lines
                            /\ Len(Tail(p)) = Len(p) - 1
  <2>1. PICK n \in 0 .. DumpLines : p = [i \in 1 .. n |-> "log"]
    BY DEF Lines
  <2>2. n \in Nat /\ p \in [1 .. n -> {"log"}]
    BY <2>1, LoggerAssumption
  <2>3. p \in Seq({"log"}) /\ Len(p) = n
    BY <2>2, FunctionIsSeq
  <2>4. p = <<>> <=> Len(p) = 0
    BY <2>3, EmptySeq
  <2>5. ASSUME p # <<>>
        PROVE  Head(p) = "log" /\ Tail(p) \in Lines /\ Len(Tail(p)) = Len(p) - 1
    <3> DEFINE q == Tail(p)
    <3>1. q \in Seq({"log"}) /\ Len(q) = n - 1 /\ n # 0 /\ Head(p) = "log"
      BY <2>3, <2>4, <2>5, HeadTailProperties
    <3> HIDE DEF q
    <3>2. n - 1 \in 0 .. DumpLines
      BY <2>1, <2>2, <3>1, LoggerAssumption
    <3>3. q \in [1 .. n - 1 -> {"log"}]
      BY <3>1, LenProperties
    <3>4. q = [i \in 1 .. n - 1 |-> "log"]
      BY <3>3
    <3>5. q \in Lines
      BY <3>2, <3>4 DEF Lines
    <3> QED BY <2>3, <3>1, <3>5 DEF q
  <2> QED BY <2>1, <2>3, <2>4, <2>5
<1>2. DumpLines \in 0 .. DumpLines /\ 0 \in 0 .. DumpLines /\ DumpLines \in Nat
  BY LoggerAssumption
<1>3. [i \in 1 .. DumpLines |-> "log"] \in Lines /\ Lines \subseteq PartsLeft
  BY <1>2 DEF Lines, PartsLeft
<1>4. <<>> \in Lines
  <2>1. <<>> = [i \in 1 .. 0 |-> "log"]
    OBVIOUS
  <2> QED BY <1>2, <2>1 DEF Lines
<1>5. Len([i \in 1 .. DumpLines |-> "log"]) = DumpLines
  <2>1. [i \in 1 .. DumpLines |-> "log"] \in [1 .. DumpLines -> {"log"}]
    OBVIOUS
  <2> QED BY <1>2, <2>1, FunctionIsSeq
<1> QED BY <1>1, <1>3, <1>4, <1>5

(***************************************************************************)
(* A message that was just begun.                                          *)
(***************************************************************************)
LEMMA NewMessage ==
  ASSUME Typed, NEW op \in Messages, NEW p \in TagPointers, NEW level \in MessageLevels
  PROVE  LET g == Message(op, p, level)
         IN  FrameOK(g, LevelsNow) /\ Counted(g, 0)
<1> DEFINE g == Message(op, p, level)
           v == level <= Registry!Effective(Text[p])
<1>1. /\ g \in MessageFrames /\ g.op = op /\ g.tag = p /\ g.level = level /\ g.verdict = "none"
      /\ g.seen = {v} /\ g.output = 0 /\ ~g.refused /\ ~g.unfiltered /\ g.parts = Parts(op)
      /\ g.at = CASE op = "log" -> "entry" [] op = "dump" -> "lock" [] op = "macro" -> "parts"
  BY MessageType DEF Message
<1>2. LevelsNow[p] = Registry!Effective(Text[p])
  BY DEF LevelsNow
<1> HIDE DEF g
<1>3. FrameOK(g, LevelsNow)
  BY <1>1, <1>2 DEF FrameOK, Sees, Decided, VerdictFits, Messages
<1>4. Counted(g, 0)
  <2>1. CASE op = "log"
    BY <1>1, <2>1 DEF Counted
  <2>2. CASE op = "dump"
    <3>1. g.parts \in Lines /\ Len(g.parts) = DumpLines
      BY <1>1, <2>2, LinesAre DEF Parts
    <3> QED BY <1>1, <2>2, <3>1 DEF Counted, CountedDump
  <2>3. CASE op = "macro"
    <3>1. g.parts = <<"log", "dump">> /\ Len(g.parts) = 2
      BY <1>1, <2>3 DEF Parts
    <3>2. Done(g, 0) = 0 /\ Due(g, 0) = 0 /\ g.at = "parts"
      BY <1>1, <2>3, <3>1 DEF Done, Due
    <3>3. CountedMacro(g, 0)
      <4>1. g.parts \in {<<"log", "dump">>, <<"dump">>, <<>>}
        BY <3>1
      <4>2. g.at # "return"
        BY <3>2
      <4>3. Done(g, 0) \in 0 .. 2 /\ g.output <= Due(g, Done(g, 0))
        BY <1>1, <3>2
      <4>4. ~g.unfiltered
        BY <1>1
      <4>5. g.output = Due(g, Done(g, 0))
        BY <1>1, <3>2
      <4>6. g.output = IF g.unfiltered THEN 1 ELSE 0
        BY <1>1
      <4> QED BY <4>1, <4>2, <4>3, <4>4, <4>5, <4>6 DEF CountedMacro
    <3> QED BY <1>1, <2>3, <3>3 DEF Counted
  <2> QED BY <2>1, <2>2, <2>3 DEF Messages
<1> QED BY <1>3, <1>4 DEF g

(***************************************************************************)
(* A message that moves on with its parts, its output and its verdict.     *)
(***************************************************************************)
LEMMA StageMessage ==
  ASSUME NEW f \in MessageFrames, NEW now, NEW stage \in Stages,
         FrameOK(f, now), Counted(f, 0), f.at \in StagesOf(f.op),
         \/ f.op = "log" /\ f.at = "entry" /\ stage = "lock"
         \/ f.op \in {"log", "dump"} /\ f.at = "lock" /\ stage = "locked"
         \/ f.at = "unlock" /\ stage = AfterUnlock(f)
         \/ f.op = "log" /\ f.at = "handler" /\ stage = "handled"
         \/ f.op = "log" /\ f.at \in {"handler", "handled"} /\ stage = "return"
         \/ f.at = "parts" /\ f.parts = <<>> /\ stage = "return"
  PROVE  LET g == [f EXCEPT !.at = stage]
         IN  SameMessage(f, g) /\ FrameOK(g, now) /\ Counted(g, 0)
<1> DEFINE g == [f EXCEPT !.at = stage]
<1>1. /\ g.op = f.op /\ g.tag = f.tag /\ g.level = f.level /\ g.seen = f.seen
      /\ g.verdict = f.verdict /\ g.parts = f.parts /\ g.output = f.output
      /\ g.unfiltered = f.unfiltered /\ g.refused = f.refused /\ g.at = stage
  BY DEF MessageFrames
<1>2. f.op \in Messages /\ f.verdict \in Verdicts
  BY DEF MessageFrames
<1> HIDE DEF g
<1>3. Sees(g, now) /\ Decided(g)
  BY <1>1 DEF FrameOK, Sees, Decided
<1>4. VerdictFits(g)
  <2>1. CASE f.op = "log"
    BY <1>1, <1>2, <2>1 DEF FrameOK, VerdictFits, AfterUnlock, StagesOf
  <2>2. CASE f.op = "dump"
    BY <1>1, <1>2, <2>2 DEF FrameOK, VerdictFits, AfterUnlock, StagesOf
  <2>3. CASE f.op = "macro"
    BY <1>1, <2>3 DEF VerdictFits
  <2> QED BY <1>2, <2>1, <2>2, <2>3 DEF Messages
<1>5. Done(g, 0) = Done(f, 0) /\ Due(g, Done(g, 0)) = Due(f, Done(f, 0))
  BY <1>1 DEF Done, Due
<1>6. f.op = "log" => Counted(g, 0)
  BY <1>1 DEF Counted
<1>7. ASSUME f.op = "dump"
      PROVE  Counted(g, 0)
  <2>1. CountedDump(f, 0) /\ VerdictFits(f)
    BY <1>7 DEF Counted, FrameOK
  <2>2. f.verdict = "visible" /\ stage = "return" => f.parts = <<>>
    BY <1>7, <2>1 DEF VerdictFits, AfterUnlock, StagesOf
  <2>3. CountedDump(g, 0)
    BY <1>1, <1>5, <2>1, <2>2 DEF CountedDump
  <2> QED BY <1>1, <1>7, <2>3 DEF Counted
<1>8. ASSUME f.op = "macro"
      PROVE  Counted(g, 0)
  <2>1. CountedMacro(f, 0)
    BY <1>8 DEF Counted
  <2>2. f.parts = <<>>
    BY <1>8 DEF StagesOf
  <2>3. CountedMacro(g, 0)
    BY <1>1, <1>5, <2>1, <2>2 DEF CountedMacro
  <2> QED BY <1>1, <1>8, <2>3 DEF Counted
<1> QED BY <1>1, <1>2, <1>3, <1>4, <1>6, <1>7, <1>8 DEF SameMessage, FrameOK, g, Messages

(***************************************************************************)
(* A message given to a custom write function.                             *)
(***************************************************************************)
LEMMA CustomMessage ==
  ASSUME NEW f \in MessageFrames, NEW now, FrameOK(f, now), Counted(f, 0), f.op = "log",
         f.at = "entry"
  PROVE  LET g == CustomFrame(f)
         IN  SameMessage(f, g) /\ FrameOK(g, now) /\ Counted(g, 0)
  BY DEF CustomFrame, MessageFrames, SameMessage, FrameOK, Sees, Decided, VerdictFits, Counted

(***************************************************************************)
(* A message whose lock was refused.                                       *)
(***************************************************************************)
LEMMA RefusedMessage ==
  ASSUME NEW f \in MessageFrames, NEW now, FrameOK(f, now), Counted(f, 0),
         f.op \in {"log", "dump"}, f.at = "lock"
  PROVE  LET g == RefusedFrame(f)
         IN  SameMessage(f, g) /\ FrameOK(g, now) /\ Counted(g, 0)
<1> DEFINE g == RefusedFrame(f)
<1>1. /\ g.op = f.op /\ g.tag = f.tag /\ g.level = f.level /\ g.seen = f.seen
      /\ g.verdict = "refused" /\ g.parts = f.parts /\ g.output = f.output
      /\ g.refused = TRUE /\ g.at = "return"
  BY DEF MessageFrames, RefusedFrame
<1> HIDE DEF g
<1>2. FrameOK(g, now)
  BY <1>1 DEF FrameOK, Sees, Decided, VerdictFits
<1>3. Counted(g, 0)
  BY <1>1 DEF FrameOK, VerdictFits, Counted, CountedDump
<1> QED BY <1>1, <1>2, <1>3 DEF SameMessage, g

(***************************************************************************)
(* A message whose level was looked up: what it is told it has seen.       *)
(***************************************************************************)
LEMMA LookedUpMessage ==
  ASSUME Typed, NEW f \in MessageFrames, FrameOK(f, LevelsNow), Counted(f, 0),
         f.op \in {"log", "dump"}, f.at = "locked"
  PROVE  LET g == LookedUpFrame(f)
         IN  SameMessage(f, g) /\ FrameOK(g, LevelsNow) /\ Counted(g, 0)
<1> DEFINE g == LookedUpFrame(f)
           v == f.level <= Registry!Effective(Text[f.tag])
<1>1. /\ g.op = f.op /\ g.tag = f.tag /\ g.level = f.level /\ g.seen = f.seen
      /\ g.verdict = (IF v THEN "visible" ELSE "filtered")
      /\ g.parts = f.parts /\ g.output = f.output
      /\ g.refused = f.refused /\ g.at = "unlock"
  BY DEF MessageFrames, LookedUpFrame
<1>2. v \in BOOLEAN /\ v \in f.seen
  <2>1. f.tag \in TagPointers /\ f.level \in MessageLevels
    BY DEF MessageFrames
  <2>2. v \in BOOLEAN
    BY <2>1, VisibleIsBoolean
  <2>3. LevelsNow[f.tag] = Registry!Effective(Text[f.tag])
    BY <2>1 DEF LevelsNow
  <2> QED BY <2>2, <2>3 DEF FrameOK, Sees
<1> HIDE DEF g, v
<1>3. Decided(g)
  <2>1. CASE v = TRUE
    BY <1>1, <1>2, <2>1 DEF Decided
  <2>2. CASE v = FALSE
    BY <1>1, <1>2, <2>2 DEF Decided
  <2> QED BY <1>2, <2>1, <2>2
<1>4. Sees(g, LevelsNow)
  BY <1>1 DEF FrameOK, Sees
<1>5. f.verdict = "none" /\ (f.op = "log" => ~f.refused)
  BY DEF FrameOK, VerdictFits
<1>6. g.verdict \in {"visible", "filtered"}
  BY <1>1
<1>7. VerdictFits(g)
  BY <1>1, <1>5, <1>6 DEF VerdictFits
<1>8. Counted(g, 0)
  <2>1. CASE f.op = "log"
    BY <1>1, <2>1 DEF Counted
  <2>2. CASE f.op = "dump"
    <3>1. f.output = 0 /\ f.parts \in Lines /\ Len(f.parts) = DumpLines
      BY <1>5, <2>2 DEF Counted, CountedDump
    <3>2. Done(g, 0) = 0 /\ g.output <= Done(g, 0) /\ g.output = Done(g, 0)
      BY <1>1, <2>2, <3>1, LoggerAssumption DEF Done
    <3>3. CountedDump(g, 0)
      BY <1>1, <3>1, <3>2 DEF CountedDump
    <3> QED BY <1>1, <2>2, <3>3 DEF Counted
  <2> QED BY <2>1, <2>2
<1> QED BY <1>1, <1>3, <1>4, <1>7, <1>8 DEF SameMessage, FrameOK, g

(***************************************************************************)
(* A dump or a macro that begins its next part.                            *)
(***************************************************************************)
LEMMA CallingMessage ==
  ASSUME Typed, NEW f \in MessageFrames, FrameOK(f, LevelsNow), Counted(f, 0),
         f.op \in {"dump", "macro"}, f.at = "parts", f.parts # <<>>
  PROVE  LET g == CallingFrame(f)
             c == Message(Head(f.parts), f.tag, f.level)
         IN  /\ SameMessage(f, g) /\ FrameOK(g, LevelsNow) /\ Counted(g, 1) /\ PartOf(g, c)
             /\ c.op \in {"log", "dump"} /\ FrameOK(c, LevelsNow) /\ Counted(c, 0)
<1> DEFINE g == CallingFrame(f)
           h == Head(f.parts)
           v == f.level <= Registry!Effective(Text[f.tag])
           c == Message(h, f.tag, f.level)
<1>1. /\ g.op = f.op /\ g.tag = f.tag /\ g.level = f.level /\ g.seen = f.seen
      /\ g.verdict = f.verdict /\ g.parts = Tail(f.parts) /\ g.output = f.output
      /\ g.unfiltered = f.unfiltered /\ g.refused = f.refused /\ g.at = f.at
  BY DEF MessageFrames, CallingFrame
<1>2. /\ f.parts \in PartsLeft /\ f.tag \in TagPointers /\ f.level \in MessageLevels
      /\ f.output \in Nat
  BY DEF MessageFrames
<1>3. h \in {"log", "dump"} /\ Len(f.parts) \in Nat /\ Len(Tail(f.parts)) = Len(f.parts) - 1
  BY <1>2, PartsAre
<1>4. c.op = h /\ c.tag = f.tag /\ c.level = f.level /\ c.seen = {v}
  BY DEF Message
<1>5. v \in f.seen
  BY <1>2 DEF FrameOK, Sees, LevelsNow
<1>6. FrameOK(c, LevelsNow) /\ Counted(c, 0)
  BY <1>2, <1>3, NewMessage DEF Messages
<1> HIDE DEF g, h, v, c
<1>7. SameMessage(f, g) /\ FrameOK(g, LevelsNow)
  BY <1>1 DEF SameMessage, FrameOK, Sees, Decided, VerdictFits
<1>8. Done(g, 1) = Done(f, 0) /\ Due(g, Done(g, 1)) = Due(f, Done(f, 0))
  <2>1. Done(g, 1) = Done(f, 0)
    <3> DEFINE k == IF f.op = "dump" THEN DumpLines ELSE 2
    <3>1. Done(g, 1) = k - Len(g.parts) - 1 /\ Done(f, 0) = k - Len(f.parts) - 0 /\ k \in Int
      BY <1>1, LoggerAssumption DEF Done
    <3> HIDE DEF k
    <3> QED BY <1>1, <1>3, <3>1
  <2> QED BY <1>1, <2>1 DEF Due
<1>9. CASE f.op = "dump"
  <2>1. CountedDump(f, 0) /\ f.verdict = "visible"
    BY <1>9 DEF Counted, FrameOK, VerdictFits
  <2>2. g.parts \in Lines /\ h = "log"
    BY <1>1, <2>1, LinesAre DEF CountedDump, h
  <2>3. CountedDump(g, 1)
    BY <1>1, <1>8, <2>1, <2>2 DEF CountedDump
  <2>4. PartOf(g, c)
    BY <1>1, <1>4, <1>5, <1>9, <2>2 DEF PartOf
  <2> QED BY <1>1, <1>3, <1>4, <1>6, <1>7, <1>9, <2>3, <2>4 DEF Counted, g, h, c
<1>10. CASE f.op = "macro"
  <2>1. CountedMacro(f, 0)
    BY <1>10 DEF Counted
  <2>2. f.parts = <<"log", "dump">> \/ f.parts = <<"dump">>
    BY <2>1 DEF CountedMacro
  <2>3. /\ Tail(<<"log", "dump">>) = <<"dump">> /\ Tail(<<"dump">>) = <<>>
        /\ Head(<<"log", "dump">>) = "log" /\ Head(<<"dump">>) = "dump" /\ <<"dump">> # <<>>
    OBVIOUS
  <2>4. /\ g.parts \in {<<"dump">>, <<>>}
        /\ h = IF g.parts = <<>> THEN "dump" ELSE "log"
    BY <1>1, <2>2, <2>3 DEF h
  <2>5. CountedMacro(g, 1)
    BY <1>1, <1>8, <2>1, <2>4 DEF CountedMacro
  <2>6. PartOf(g, c)
    BY <1>1, <1>4, <1>5, <1>10, <2>4 DEF PartOf
  <2> QED BY <1>1, <1>3, <1>4, <1>6, <1>7, <1>10, <2>5, <2>6 DEF Counted, g, h, c
<1> QED BY <1>9, <1>10

\* What a part adds to the output of the message it is a part of.
Gain(c) == IF c.op = "dump" THEN c.output
           ELSE IF c.verdict \in {"visible", "custom"} THEN 1 ELSE 0

(***************************************************************************)
(* A part that returns: it adds no more than it has lines, all of them     *)
(* when the message was visible throughout and no lock was refused.        *)
(***************************************************************************)
LEMMA PartReturns ==
  ASSUME NEW c \in MessageFrames, NEW now, FrameOK(c, now), Counted(c, 0),
         c.op \in {"log", "dump"}, c.at = "return"
  PROVE  LET most == IF c.op = "dump" THEN DumpLines ELSE 1
         IN  /\ Gain(c) \in 0 .. most /\ c.seen # {}
             /\ c.seen \subseteq {TRUE} /\ ~c.refused => Gain(c) = most
             /\ c.seen \subseteq {FALSE} =>
                  Gain(c) = IF c.verdict = "custom" THEN 1 ELSE 0
             /\ c.op = "dump" => c.verdict # "custom"
<1> DEFINE most == IF c.op = "dump" THEN DumpLines ELSE 1
           gain == Gain(c)
           all == c.seen \subseteq {TRUE}
           nothing == c.seen \subseteq {FALSE}
<1>1. c.output \in Nat /\ c.verdict \in Verdicts /\ DumpLines \in Nat
  BY LoggerAssumption DEF MessageFrames
<1>2. c.seen # {} /\ Decided(c) /\ VerdictFits(c)
  BY DEF FrameOK, Sees
<1>3. (all => c.verdict # "filtered") /\ (nothing => c.verdict # "visible")
  BY <1>2 DEF Decided
<1>4. all => c.seen = {TRUE}
  BY <1>2
<1>5. c.op = "log" => most = 1 /\ gain = IF c.verdict \in {"visible", "custom"} THEN 1 ELSE 0
  BY DEF Gain
<1>6. c.op = "dump" => most = DumpLines /\ gain = c.output
  BY DEF Gain
<1> HIDE DEF most, gain, all, nothing
<1>7. /\ gain \in 0 .. most /\ (all /\ ~c.refused => gain = most)
      /\ nothing => gain = IF c.verdict = "custom" THEN 1 ELSE 0
      /\ c.op = "dump" => c.verdict # "custom"
  <2>1. CASE c.op = "log"
    <3>1. c.verdict # "none" /\ (c.refused <=> c.verdict = "refused")
      BY <1>2, <2>1 DEF VerdictFits
    <3> QED BY <1>1, <1>3, <1>5, <2>1, <3>1 DEF Verdicts
  <2>2. CASE c.op = "dump" /\ c.verdict = "visible"
    <3>1. CountedDump(c, 0)
      BY <2>2 DEF Counted
    <3>2. c.parts = <<>> /\ Len(<<>>) = 0
      BY <2>2, <3>1 DEF CountedDump
    <3>3. Done(c, 0) = DumpLines
      BY <1>1, <2>2, <3>2 DEF Done
    <3>4. c.output <= DumpLines /\ (all /\ ~c.refused => c.output = DumpLines)
      BY <1>4, <2>2, <3>1, <3>3 DEF CountedDump
    <3> QED BY <1>1, <1>3, <1>6, <2>2, <3>4
  <2>3. CASE c.op = "dump" /\ c.verdict # "visible"
    <3>1. c.output = 0
      BY <2>3 DEF Counted, CountedDump
    <3>2. c.verdict \in {"filtered", "refused"} /\ (c.verdict = "refused" => c.refused)
      BY <1>2, <2>3 DEF VerdictFits
    <3> QED BY <1>1, <1>3, <1>6, <2>3, <3>1, <3>2
  <2> QED BY <2>1, <2>2, <2>3
<1> QED BY <1>2, <1>7 DEF most, gain, all, nothing

(***************************************************************************)
(* The message a returned part belongs to.                                 *)
(***************************************************************************)
LEMMA CreditedMessage ==
  ASSUME NEW f \in MessageFrames, NEW c \in MessageFrames, NEW now,
         FrameOK(f, now), Counted(f, 1), PartOf(f, c),
         f.at \in StagesOf(f.op) \cap {"parts", "handled"},
         FrameOK(c, now), Counted(c, 0), c.op \in {"log", "dump"}, c.at = "return"
  PROVE  LET g == Credited(f, c)
         IN  SameMessage(f, g) /\ FrameOK(g, now) /\ Counted(g, 0)
<1> DEFINE g == Credited(f, c)
           gain == Gain(c)
           most == IF c.op = "dump" THEN DumpLines ELSE 1
           n == Done(f, 1)
<1>1. /\ f.op \in Messages /\ f.output \in Nat /\ DumpLines \in Nat
      /\ Len(f.parts) \in Nat /\ f.seen \subseteq BOOLEAN
      /\ f.unfiltered \in BOOLEAN /\ f.refused \in BOOLEAN /\ c.refused \in BOOLEAN
  <2>1. f.parts \in PartsLeft
    BY DEF MessageFrames
  <2> QED BY <2>1, PartsAre, LoggerAssumption DEF MessageFrames
<1>2. CASE f.op = "log"
  <2>1. g = f
    BY <1>2 DEF Credited
  <2> QED BY <1>2, <2>1 DEF SameMessage, Counted
<1>3. CASE f.op \in {"dump", "macro"}
  <2>1. /\ g.op = f.op /\ g.tag = f.tag /\ g.level = f.level /\ g.seen = f.seen
        /\ g.verdict = f.verdict /\ g.parts = f.parts /\ g.at = f.at
        /\ g.output = f.output + gain
        /\ g.unfiltered = (f.unfiltered \/ c.verdict = "custom")
        /\ g.refused = (f.refused \/ c.refused)
    BY <1>3 DEF Credited, MessageFrames, Gain
  <2>2. /\ gain \in 0 .. most /\ c.seen # {}
        /\ c.seen \subseteq {TRUE} /\ ~c.refused => gain = most
        /\ c.seen \subseteq {FALSE} => gain = IF c.verdict = "custom" THEN 1 ELSE 0
        /\ c.op = "dump" => c.verdict # "custom"
    BY PartReturns
  <2>3. c.seen \subseteq f.seen /\ (c.op = IF f.op = "macro" /\ f.parts = <<>> THEN "dump" ELSE "log")
    BY <1>3 DEF PartOf
  <2>4. most \in Nat /\ (c.op = "log" => most = 1) /\ (c.op = "dump" => most = DumpLines)
    BY <1>1
  <2>5. Done(g, 0) = n + 1
    <3> DEFINE k == IF f.op = "dump" THEN DumpLines ELSE 2
    <3>1. Done(g, 0) = k - Len(g.parts) - 0 /\ n = k - Len(f.parts) - 1 /\ k \in Int
      BY <1>1, <2>1 DEF Done
    <3> HIDE DEF k, n
    <3> QED BY <1>1, <2>1, <3>1
  <2> HIDE DEF g, gain, most, n
  <2>6. SameMessage(f, g) /\ f.at = "parts"
    BY <1>3, <2>1 DEF SameMessage, StagesOf
  <2>7. FrameOK(g, now)
    BY <1>3, <2>1, <2>6 DEF FrameOK, Sees, Decided, VerdictFits
  <2>8. CASE f.op = "dump"
    <3>1. CountedDump(f, 1) /\ f.verdict = "visible"
      BY <2>6, <2>8 DEF Counted, FrameOK, VerdictFits
    <3>2. /\ f.parts \in Lines /\ f.output <= n
          /\ f.seen = {TRUE} /\ ~f.refused => f.output = n
      BY <3>1 DEF CountedDump, n
    <3>3. most = 1 /\ n \in Int
      <4>1. n = DumpLines - Len(f.parts) - 1
        BY <2>8 DEF Done, n
      <4> QED BY <1>1, <2>3, <2>4, <2>8, <4>1
    <3>4. g.output <= n + 1
      BY <1>1, <2>1, <2>2, <3>2, <3>3
    <3>5. ASSUME g.seen = {TRUE}, ~g.refused
          PROVE  g.output = n + 1
      <4>1. gain = 1 /\ f.output = n
        BY <1>1, <2>1, <2>2, <2>3, <3>2, <3>3, <3>5
      <4> QED BY <2>1, <3>3, <4>1
    <3>6. CountedDump(g, 0)
      BY <2>1, <2>5, <2>6, <3>1, <3>2, <3>4, <3>5 DEF CountedDump
    <3> QED BY <2>1, <2>6, <2>7, <2>8, <3>6 DEF Counted, g
  <2>9. CASE f.op = "macro"
    <3>1. CountedMacro(f, 1)
      BY <2>9 DEF Counted
    <3>2. f.parts \in {<<"log", "dump">>, <<"dump">>, <<>>} /\ n \in 0 .. 2 /\ f.output <= Due(f, n)
      BY <3>1 DEF CountedMacro, n
    <3>3. n = 2 - Len(f.parts) - 1
      BY <2>9 DEF Done, n
    <3>4. /\ Len(<<"log", "dump">>) = 2 /\ Len(<<"dump">>) = 1 /\ Len(<<>>) = 0
          /\ <<"dump">> # <<>> /\ <<"log", "dump">> # <<>>
      OBVIOUS
    <3>5. (f.parts = <<"dump">> /\ n = 0) \/ (f.parts = <<>> /\ n = 1)
      <4>1. CASE f.parts = <<"log", "dump">>
        <5>1. Len(f.parts) = 2
          BY <3>4, <4>1
        <5> QED BY <3>2, <3>3, <5>1
      <4>2. CASE f.parts = <<"dump">>
        <5>1. Len(f.parts) = 1
          BY <3>4, <4>2
        <5> QED BY <3>3, <4>2, <5>1
      <4>3. CASE f.parts = <<>>
        <5>1. Len(f.parts) = 0
          BY <3>4, <4>3
        <5> QED BY <3>3, <4>3, <5>1
      <4> QED BY <3>2, <4>1, <4>2, <4>3
    <3>6. CASE n = 0
      <4>1. c.op = "log" /\ most = 1 /\ ~f.unfiltered
        <5>1. f.parts = <<"dump">> /\ f.parts # <<>>
          <6>1. ~ (n = 1)
            BY <3>6
          <6>2. f.parts = <<"dump">>
            BY <3>5, <6>1
          <6> QED BY <3>4, <6>2
        <5>2. c.op = "log"
          BY <2>3, <5>1
        <5>3. ~f.unfiltered
          BY <3>1, <3>6 DEF CountedMacro, n
        <5> QED BY <2>4, <5>2, <5>3
      <4>2. f.output = 0 /\ g.output = gain /\ Due(g, n + 1) = 1
        BY <1>1, <2>1, <2>2, <3>2, <3>6, <4>1 DEF Due
      <4>3. g.unfiltered = (c.verdict = "custom")
        BY <1>1, <2>1, <4>1
      <4>4. g.seen = {TRUE} /\ ~g.refused => g.output = 1
        BY <1>1, <2>1, <2>2, <2>3, <4>1, <4>2
      <4>5. g.seen = {FALSE} => g.output = IF g.unfiltered THEN 1 ELSE 0
        BY <2>1, <2>2, <2>3, <4>2, <4>3
      <4>6. n + 1 = 1 /\ g.output <= 1
        BY <2>2, <3>6, <4>1, <4>2
      <4>7. CountedMacro(g, 0)
        <5>1. g.parts \in {<<"log", "dump">>, <<"dump">>, <<>>} /\ g.at = "parts"
          BY <2>1, <2>6, <3>2
        <5>2. Done(g, 0) = 1 /\ Due(g, Done(g, 0)) = 1
          BY <2>5, <4>2, <4>6
        <5>3. Done(g, 0) \in 0 .. 2 /\ Done(g, 0) # 0 /\ g.output <= Due(g, Done(g, 0))
          BY <4>6, <5>2
        <5>4. g.seen = {TRUE} /\ ~g.refused => g.output = Due(g, Done(g, 0))
          BY <4>4, <5>2
        <5>5. g.parts \in {<<"log", "dump">>, <<"dump">>, <<>>} /\ (g.at = "return" => g.parts = <<>>)
          BY <5>1
        <5> QED BY <4>5, <5>3, <5>4, <5>5 DEF CountedMacro
      <4> QED BY <2>1, <2>6, <2>7, <2>9, <4>7 DEF Counted, g
    <3>7. CASE n = 1
      <4>1. c.op = "dump" /\ most = DumpLines /\ c.verdict # "custom"
        <5>1. f.parts = <<>>
          BY <3>5, <3>7
        <5>2. c.op = "dump"
          BY <2>3, <2>9, <5>1
        <5> QED BY <2>2, <2>4, <5>2
      <4>2. /\ f.output <= 1 /\ (f.seen = {TRUE} /\ ~f.refused => f.output = 1)
            /\ f.seen = {FALSE} => f.output = IF f.unfiltered THEN 1 ELSE 0
        <5>1. Done(f, 1) = 1 /\ Due(f, Done(f, 1)) = 1
          BY <3>7 DEF Due, n
        <5> QED BY <3>1, <5>1 DEF CountedMacro
      <4>3. Due(g, n + 1) = DumpLines + 1
        BY <2>1, <2>9, <3>7 DEF Due
      <4>4. g.unfiltered = f.unfiltered
        BY <1>1, <2>1, <4>1
      <4>5. n + 1 = 2 /\ g.output <= DumpLines + 1
        BY <1>1, <2>1, <2>2, <3>7, <4>1, <4>2
      <4>6. g.seen = {TRUE} /\ ~g.refused => g.output = DumpLines + 1
        <5>1. g.seen = {TRUE} /\ ~g.refused => gain = DumpLines /\ f.output = 1
          BY <1>1, <2>1, <2>2, <2>3, <4>1, <4>2
        <5> QED BY <1>1, <2>1, <5>1
      <4>7. g.seen = {FALSE} => g.output = IF g.unfiltered THEN 1 ELSE 0
        <5>1. g.seen = {FALSE} => gain = 0
          BY <2>1, <2>2, <2>3, <4>1
        <5>2. gain = 0 => g.output = f.output
          BY <1>1, <2>1
        <5> QED BY <2>1, <4>2, <4>4, <5>1, <5>2
      <4>8. f.parts = <<>>
        BY <3>5, <3>7
      <4>9. CountedMacro(g, 0)
        <5>1. g.parts = <<>> /\ g.at = "parts"
          BY <2>1, <2>6, <4>8
        <5>2. Done(g, 0) = 2 /\ Due(g, Done(g, 0)) = DumpLines + 1
          BY <2>5, <4>3, <4>5
        <5>3. Done(g, 0) \in 0 .. 2 /\ Done(g, 0) # 0 /\ g.output <= Due(g, Done(g, 0))
          BY <4>5, <5>2
        <5>4. g.seen = {TRUE} /\ ~g.refused => g.output = Due(g, Done(g, 0))
          BY <4>6, <5>2
        <5>5. g.parts \in {<<"log", "dump">>, <<"dump">>, <<>>} /\ (g.at = "return" => g.parts = <<>>)
          BY <5>1
        <5> QED BY <4>7, <5>3, <5>4, <5>5 DEF CountedMacro
      <4> QED BY <2>1, <2>6, <2>7, <2>9, <4>9 DEF Counted, g
    <3> QED BY <3>5, <3>6, <3>7
  <2> QED BY <1>3, <2>8, <2>9
<1> QED BY <1>1, <1>2, <1>3 DEF Messages

(***************************************************************************)
(* Messages that see new levels.                                           *)
(***************************************************************************)
LEMMA ObservedMessage ==
  ASSUME NEW f \in MessageFrames, NEW old, FrameOK(f, old), NEW now \in [TagPointers -> Levels]
  PROVE  LET g == Observed(f, now)
         IN  /\ FrameOK(g, now)
             /\ \A pending \in {0, 1} : Counted(f, pending) => Counted(g, pending)
             /\ \A c \in MessageFrames : PartOf(f, c) => PartOf(g, Observed(c, now))
<1> DEFINE g == Observed(f, now)
           v == f.level <= now[f.tag]
<1>1. f.op \in Messages /\ f.seen # {}
  BY DEF MessageFrames, FrameOK, Sees
<1>2. /\ g.op = f.op /\ g.tag = f.tag /\ g.level = f.level /\ g.verdict = f.verdict
      /\ g.parts = f.parts /\ g.at = f.at /\ g.output = f.output
      /\ g.unfiltered = f.unfiltered /\ g.refused = f.refused
      /\ g.seen = f.seen \cup {v}
  BY <1>1 DEF Observed, MessageFrames
<1>3. ASSUME NEW c \in MessageFrames, PartOf(f, c)
      PROVE  PartOf(g, Observed(c, now))
  <2> DEFINE d == Observed(c, now)
  <2>1. /\ d.op = c.op /\ d.tag = c.tag /\ d.level = c.level
        /\ d.seen = c.seen \cup {c.level <= now[c.tag]}
    BY DEF Observed, MessageFrames
  <2> HIDE DEF d, g
  <2>2. PartOf(g, d)
    BY <1>2, <1>3, <2>1 DEF PartOf
  <2> QED BY <2>2 DEF d, g
<1> HIDE DEF g, v
<1>4. FrameOK(g, now)
  <2>1. Sees(g, now)
    BY <1>2 DEF Sees, v
  <2>2. Decided(g)
    BY <1>2 DEF FrameOK, Decided
  <2>3. VerdictFits(g)
    BY <1>2 DEF FrameOK, VerdictFits
  <2> QED BY <2>1, <2>2, <2>3 DEF FrameOK
<1>5. ASSUME NEW pending \in {0, 1}, Counted(f, pending)
      PROVE  Counted(g, pending)
  <2>1. /\ g.seen = {TRUE} => f.seen = {TRUE}
        /\ g.seen = {FALSE} => f.seen = {FALSE}
    BY <1>1, <1>2
  <2>2. Done(g, pending) = Done(f, pending)
    BY <1>2 DEF Done
  <2>3. Due(g, Done(g, pending)) = Due(f, Done(f, pending))
    BY <1>2, <2>2 DEF Due
  <2>4. f.op = "dump" => CountedDump(g, pending)
    <3>1. f.op = "dump" => CountedDump(f, pending)
      BY <1>5 DEF Counted
    <3> QED BY <1>2, <2>1, <2>2, <3>1 DEF CountedDump
  <2>5. f.op = "macro" => CountedMacro(g, pending)
    <3>1. f.op = "macro" => CountedMacro(f, pending)
      BY <1>5 DEF Counted
    <3> QED BY <1>2, <2>1, <2>2, <2>3, <3>1 DEF CountedMacro
  <2> QED BY <1>2, <1>5, <2>4, <2>5 DEF Counted
<1> QED BY <1>3, <1>4, <1>5 DEF g

(***************************************************************************)
(* Messages stay right when the top of a stack moves on.                   *)
(***************************************************************************)
LEMMA BecomesMessages ==
  ASSUME Typed, MessagesInv, LevelsNow' = LevelsNow,
         NEW t \in Tasks, NEW f, TopBecomes(t, f), Running(t), f.op = Top(t).op,
         f.op \in Messages =>
           SameMessage(Top(t), f) /\ FrameOK(f, LevelsNow) /\ Counted(f, 0)
  PROVE  MessagesInv'
<1> DEFINE n == Len(calls[t])
<1>1. n \in Nat \ {0} /\ Top(t) = calls[t][n] /\ Len(calls'[t]) = n /\ calls'[t][n] = f
  BY StackIs DEF TopBecomes, Typed
<1>2. \A i \in 1 .. n - 1 : calls'[t][i] = calls[t][i]
  BY DEF TopBecomes, StaysBelow
<1> SUFFICES ASSUME NEW u \in Tasks, NEW i \in 1 .. Len(calls'[u])
             PROVE  MessageOK(calls'[u], i, LevelsNow)
  BY DEF MessagesInv
<1>3. CASE u # t
  BY <1>3 DEF TopBecomes, OthersStay, MessagesInv
<1>4. CASE u = t /\ i = n
  BY <1>1, <1>4 DEF MessageOK
<1>5. CASE u = t /\ i < n - 1
  <2>1. calls'[t][i] = calls[t][i] /\ calls'[t][i + 1] = calls[t][i + 1] /\ i \in 1 .. n
    BY <1>1, <1>2, <1>5
  <2>2. MessageOK(calls[t], i, LevelsNow)
    BY <2>1 DEF MessagesInv, n
  <2> QED BY <1>1, <1>5, <2>1, <2>2 DEF MessageOK
<1>6. CASE u = t /\ i = n - 1
  <2>1. calls'[t][i] = calls[t][i] /\ calls'[t][i + 1] = f /\ i \in 1 .. n
        /\ calls[t][i + 1] = Top(t) /\ i < n
    BY <1>1, <1>2, <1>6
  <2>2. MessageOK(calls[t], i, LevelsNow)
    BY <2>1 DEF MessagesInv, n
  <2>3. PartOf(calls[t][i], Top(t)) => PartOf(calls[t][i], f)
    BY DEF PartOf, SameMessage, Messages
  <2> HIDE DEF n
  <2> QED BY <1>1, <1>6, <2>1, <2>2, <2>3 DEF MessageOK, n
<1> QED BY <1>1, <1>3, <1>4, <1>5, <1>6

(***************************************************************************)
(* They do when the top calls a message.                                   *)
(***************************************************************************)
LEMMA CallMessages ==
  ASSUME Typed, MessagesInv, LevelsNow' = LevelsNow,
         NEW t \in Tasks, NEW f, NEW g, TopCalls(t, f, g), Running(t), f.op = Top(t).op,
         SameMessage(Top(t), f), FrameOK(f, LevelsNow), Counted(f, 1), PartOf(f, g),
         FrameOK(g, LevelsNow), Counted(g, 0)
  PROVE  MessagesInv'
<1> DEFINE n == Len(calls[t])
<1>1. /\ n \in Nat \ {0} /\ Top(t) = calls[t][n] /\ Len(calls'[t]) = n + 1
      /\ calls'[t][n] = f /\ calls'[t][n + 1] = g
  BY StackIs DEF TopCalls, Typed
<1>2. \A i \in 1 .. n - 1 : calls'[t][i] = calls[t][i]
  BY DEF TopCalls, StaysBelow
<1> SUFFICES ASSUME NEW u \in Tasks, NEW i \in 1 .. Len(calls'[u])
             PROVE  MessageOK(calls'[u], i, LevelsNow)
  BY DEF MessagesInv
<1>3. CASE u # t
  BY <1>3 DEF TopCalls, OthersStay, MessagesInv
<1>4. CASE u = t /\ i = n + 1
  BY <1>1, <1>4 DEF MessageOK
<1>5. CASE u = t /\ i = n
  BY <1>1, <1>5 DEF MessageOK
<1>6. CASE u = t /\ i < n - 1
  <2> HIDE DEF n
  <2>4. i \in Nat \ {0} /\ i \in 1 .. n - 1 /\ i + 1 \in 1 .. n - 1
    <3>1. i \in 1 .. n + 1 /\ n \in Nat /\ i < n - 1
      BY <1>1, <1>6
    <3> QED BY <3>1
  <2>1. calls'[t][i] = calls[t][i] /\ calls'[t][i + 1] = calls[t][i + 1] /\ i \in 1 .. n
    BY <1>1, <1>2, <1>6, <2>4
  <2>2. MessageOK(calls[t], i, LevelsNow)
    BY <2>1 DEF MessagesInv, n
  <2>3. i < n /\ i < n + 1 /\ i # n + 1
    BY <1>1, <1>6
  <2> QED BY <1>1, <1>6, <2>1, <2>2, <2>3 DEF MessageOK, n
<1>7. CASE u = t /\ i = n - 1
  <2> HIDE DEF n
  <2>4. i \in 1 .. n - 1 /\ i + 1 = n
    BY <1>1, <1>7
  <2>1. calls'[t][i] = calls[t][i] /\ calls'[t][i + 1] = f /\ i \in 1 .. n
        /\ calls[t][i + 1] = Top(t) /\ i < n /\ i < n + 1 /\ i # n + 1
    BY <1>1, <1>2, <1>7, <2>4
  <2>2. MessageOK(calls[t], i, LevelsNow)
    BY <2>1 DEF MessagesInv, n
  <2>3. PartOf(calls[t][i], Top(t)) => PartOf(calls[t][i], f)
    BY DEF PartOf, SameMessage
  <2> QED BY <1>1, <1>7, <2>1, <2>2, <2>3 DEF MessageOK, n
<1> QED BY <1>1, <1>3, <1>4, <1>5, <1>6, <1>7

(***************************************************************************)
(* They do when a task begins a call.                                      *)
(***************************************************************************)
LEMMA StartMessages ==
  ASSUME MessagesInv, LevelsNow' = LevelsNow, NEW t \in Tasks, NEW g, Starts(t, g),
         g.op \in Messages => FrameOK(g, LevelsNow) /\ Counted(g, 0)
  PROVE  MessagesInv'
<1> SUFFICES ASSUME NEW u \in Tasks, NEW i \in 1 .. Len(calls'[u])
             PROVE  MessageOK(calls'[u], i, LevelsNow)
  BY DEF MessagesInv
<1>1. CASE u # t
  BY <1>1 DEF Starts, OthersStay, MessagesInv
<1>2. CASE u = t
  <2>1. Len(calls'[t]) = 1 /\ calls'[t][1] = g
    BY DEF Starts
  <2>2. i \in 1 .. 1
    BY <1>2, <2>1
  <2> QED BY <1>2, <2>1, <2>2 DEF MessageOK
<1> QED BY <1>1, <1>2

(***************************************************************************)
(* They do when a call returns: the frame below is credited.               *)
(***************************************************************************)
LEMMA ReturnMessages ==
  ASSUME Typed, StacksOK, MessagesInv, LevelsNow' = LevelsNow,
         NEW t \in Tasks, TopReturns(t), Running(t), Top(t).at = "return"
  PROVE  MessagesInv'
<1> DEFINE n == Len(calls[t])
<1>1. /\ n \in Nat \ {0} /\ Top(t) = calls[t][n] /\ Len(calls'[t]) = n - 1
      /\ \A i \in 1 .. n : calls[t][i] \in FrameType
  BY StackIs DEF TopReturns, Typed
<1>2. /\ \A i \in 1 .. n - 2 : calls'[t][i] = calls[t][i]
      /\ n > 1 => calls'[t][n - 1] = Credited(calls[t][n - 1], Top(t))
  BY DEF TopReturns, StaysBelow
<1> SUFFICES ASSUME NEW u \in Tasks, NEW i \in 1 .. Len(calls'[u])
             PROVE  MessageOK(calls'[u], i, LevelsNow)
  BY DEF MessagesInv
<1>3. CASE u # t
  BY <1>3 DEF TopReturns, OthersStay, MessagesInv
<1>4. CASE u = t
  <2> DEFINE f == calls[t][n - 1]
             c == calls[t][n]
             g == Credited(f, c)
  <2> HIDE DEF n
  <2>1. n > 1 /\ n - 1 \in 1 .. n /\ n \in 1 .. n /\ n - 1 + 1 = n /\ n - 1 < n /\ ~(n < n)
    BY <1>1, <1>4
  <2>2. /\ f.at \in StagesOf(f.op) \cap {"parts", "handled"}
        /\ c.op \in {"log", "dump"} /\ c.at = "return"
    BY <1>1, <2>1 DEF StacksOK, StackOK, n
  <2>3. f \in MessageFrames /\ c \in MessageFrames
    <3>1. f.op \in Messages
      <4>1. f.op \in Messages \cup {"set", "swap"}
        BY <1>1, <2>1, FrameKinds DEF Operations, Messages
      <4> QED BY <2>2, <4>1 DEF StagesOf
    <3>2. c.op \in Messages
      BY <2>2 DEF Messages
    <3> QED BY <1>1, <2>1, <3>1, <3>2, FrameKinds
  <2>4. MessageOK(calls[t], n - 1, LevelsNow) /\ MessageOK(calls[t], n, LevelsNow)
    BY <2>1 DEF MessagesInv, n
  <2>5. f.op \in Messages /\ c.op \in Messages
    BY <2>3 DEF MessageFrames
  <2>6. FrameOK(f, LevelsNow) /\ Counted(f, 1) /\ PartOf(f, c)
    BY <2>1, <2>4, <2>5 DEF MessageOK, n
  <2>7. FrameOK(c, LevelsNow) /\ Counted(c, 0)
    BY <2>4, <2>5 DEF MessageOK, n
  <2>8. SameMessage(f, g) /\ FrameOK(g, LevelsNow) /\ Counted(g, 0)
    BY <2>2, <2>3, <2>6, <2>7, CreditedMessage
  <2> HIDE DEF f, c, g
  <2>9. CASE i = n - 1
    <3>1. calls'[t][i] = g /\ i = Len(calls'[t]) /\ ~(i < Len(calls'[t]))
      BY <1>1, <1>2, <2>1, <2>9 DEF f, c, g
    <3> QED BY <1>4, <2>8, <3>1 DEF MessageOK
  <2>10. CASE i = n - 2
    <3>1. /\ calls'[t][i] = calls[t][i] /\ calls'[t][i + 1] = g /\ calls[t][i + 1] = f
          /\ i \in 1 .. n /\ i < n /\ i < Len(calls'[t]) /\ i # Len(calls'[t])
      <4>1. i \in 1 .. n - 2 /\ i + 1 = n - 1 /\ i < n - 1 /\ i # n - 1 /\ i \in 1 .. n /\ i < n
        BY <1>1, <1>4, <2>1, <2>10
      <4> QED BY <1>1, <1>2, <2>1, <4>1 DEF f, c, g
    <3>2. MessageOK(calls[t], i, LevelsNow)
      BY <3>1 DEF MessagesInv, n
    <3>3. PartOf(calls[t][i], f) => PartOf(calls[t][i], g)
      BY <2>8 DEF PartOf, SameMessage
    <3> QED BY <1>4, <3>1, <3>2, <3>3 DEF MessageOK, n
  <2>11. CASE i < n - 2
    <3>1. /\ calls'[t][i] = calls[t][i] /\ calls'[t][i + 1] = calls[t][i + 1]
          /\ i \in 1 .. n /\ i < n /\ i < Len(calls'[t]) /\ i # Len(calls'[t])
      BY <1>1, <1>2, <1>4, <2>1, <2>11
    <3>2. MessageOK(calls[t], i, LevelsNow)
      BY <3>1 DEF MessagesInv, n
    <3> QED BY <1>4, <3>1, <3>2 DEF MessageOK, n
  <2> QED BY <1>1, <1>4, <2>9, <2>10, <2>11
<1> QED BY <1>3, <1>4

(***************************************************************************)
(* They do when every message sees new levels.                             *)
(***************************************************************************)
LEMMA ObserveMessages ==
  ASSUME Typed, MessagesInv, NEW t \in Tasks, Len(calls[t]) = 1, Top(t).op = "set", Running(t),
         NEW now \in [TagPointers -> Levels], AllObserve(t, now), Typed',
         \A p \in TagPointers : now[p] = LevelsNow'[p]
  PROVE  MessagesInv'
<1> SUFFICES ASSUME NEW u \in Tasks, NEW i \in 1 .. Len(calls'[u])
             PROVE  MessageOK(calls'[u], i, LevelsNow')
  BY DEF MessagesInv
<1>1. /\ Len(calls'[u]) = Len(calls[u]) /\ Len(calls[u]) \in Nat /\ i \in 1 .. Len(calls[u])
      /\ \A j \in 1 .. Len(calls[u]) : calls[u][j] \in FrameType
  BY StackIs DEF AllObserve, Typed
<1>2. CASE u = t
  <2>1. calls[t][1] \in FrameType /\ i = 1 /\ calls[t][1].op = "set"
    BY <1>1, <1>2, StackIs DEF Typed
  <2>2. calls'[t][1] = [calls[t][1] EXCEPT !.at = "unlock"]
    BY <1>1, <1>2, <2>1 DEF AllObserve
  <2>3. calls'[t][1].op = "set"
    BY <2>1, <2>2, FrameMoves DEF Stages
  <2> QED BY <1>2, <2>1, <2>3 DEF MessageOK, Messages
<1>3. CASE u # t
  <2> DEFINE f == calls[u][i]
             g == Observed(f, now)
  <2>1. \A j \in 1 .. Len(calls[u]) : calls'[u][j] = Observed(calls[u][j], now)
    BY <1>3 DEF AllObserve
  <2>2. g.op = f.op
    BY <1>1, ObservedType
  <2>3. MessageOK(calls[u], i, LevelsNow)
    BY <1>1 DEF MessagesInv
  <2> SUFFICES ASSUME f.op \in Messages
               PROVE  /\ FrameOK(g, LevelsNow')
                      /\ i < Len(calls[u]) => Counted(g, 1) /\ PartOf(g, calls'[u][i + 1])
                      /\ i = Len(calls[u]) => Counted(g, 0)
    BY <1>1, <2>1, <2>2 DEF MessageOK
  <2>4. f \in MessageFrames /\ FrameOK(f, LevelsNow)
    BY <1>1, <2>3, FrameKinds DEF MessageOK
  <2>5. FrameOK(g, now) /\ (Counted(f, 0) => Counted(g, 0)) /\ (Counted(f, 1) => Counted(g, 1))
    BY <2>4, ObservedMessage
  <2>6. FrameOK(g, LevelsNow')
    <3>1. g.tag \in TagPointers
      BY <2>4 DEF MessageFrames, Observed
    <3>2. now[g.tag] = LevelsNow'[g.tag]
      BY <3>1
    <3> HIDE DEF g
    <3> QED BY <2>5, <3>2 DEF FrameOK, Sees
  <2>7. ASSUME i < Len(calls[u])
        PROVE  PartOf(g, calls'[u][i + 1])
    <3> DEFINE c == calls[u][i + 1]
    <3>1. i + 1 \in 1 .. Len(calls[u])
      BY <1>1, <2>7
    <3>2. c \in FrameType /\ calls'[u][i + 1] = Observed(c, now) /\ PartOf(f, c)
      BY <1>1, <2>1, <2>3, <2>7, <3>1 DEF MessageOK
    <3> HIDE DEF c, f
    <3>3. CASE c \in MessageFrames
      BY <2>4, <3>2, <3>3, ObservedMessage
    <3>4. CASE c \notin MessageFrames
      <4>1. c.op \notin Messages
        BY <3>2, <3>4, FrameKinds
      <4>2. f.op \notin {"dump", "macro"}
        BY <3>2, <4>1 DEF PartOf, Messages
      <4> QED BY <2>2, <4>2 DEF PartOf
    <3> QED BY <3>3, <3>4
  <2> QED BY <1>1, <2>3, <2>5, <2>6, <2>7 DEF MessageOK
<1> QED BY <1>2, <1>3

-----------------------------------------------------------------------------
(* The invariant of the messages *)

MessageInv == StackInv /\ MessagesInv

(***************************************************************************)
(* Every step of a call keeps every message right.                         *)
(***************************************************************************)
LEMMA StepMessages ==
  ASSUME MessageInv, NEW t \in Tasks, Step(t)
  PROVE  MessagesInv'
<1>1. StackInv /\ Typed /\ Stacks /\ StacksOK /\ MessagesInv
  BY DEF MessageInv, StackInv, Typed
<1> DEFINE f == Top(t)
           now == LevelsNow
           g(stage) == [f EXCEPT !.at = stage]
<1>2. Running(t) => f \in FrameType /\ f.at \in StagesOf(f.op)
  BY <1>1, StackIs DEF StacksOK, StackOK
<1>3. Running(t) /\ f.op \in Messages => f \in MessageFrames /\ FrameOK(f, now) /\ Counted(f, 0)
  <2>1. Running(t) => MessageOK(calls[t], Len(calls[t]), now) /\ f = calls[t][Len(calls[t])]
    BY <1>1, StackIs DEF MessagesInv
  <2> QED BY <1>2, <2>1, FrameKinds DEF MessageOK
<1>4. Running(t) => \A stage \in Stages : g(stage).op = f.op /\ g(stage).at = stage
  BY <1>2, FrameMoves
<1>5. UNCHANGED levelVars => LevelsNow' = now
  BY DEF levelVars, LevelsNow, Registry!Effective
<1> HIDE DEF f, now, g
<1>6. ASSUME Running(t), UNCHANGED levelVars, NEW e, TopBecomes(t, e), e.op = f.op,
             f.op \in Messages => SameMessage(f, e) /\ FrameOK(e, now) /\ Counted(e, 0)
      PROVE  MessagesInv'
  BY <1>1, <1>5, <1>6, BecomesMessages DEF f, now
<1>7. CASE log_write(t)
  <2>1. Running(t) /\ f.op = "log" /\ f.at = "entry" /\ UNCHANGED levelVars
    BY <1>7 DEF log_write, At, f
  <2>2. f \in MessageFrames /\ FrameOK(f, now) /\ Counted(f, 0)
    BY <1>3, <2>1 DEF Messages
  <2>3. CASE s_writev_func = log_writev
    <3>1. TopBecomes(t, g("lock")) /\ g("lock").op = f.op
      BY <1>1, <1>4, <1>7, <2>1, <2>3, Moves DEF f, g, Stages
    <3>2. SameMessage(f, g("lock")) /\ FrameOK(g("lock"), now) /\ Counted(g("lock"), 0)
      BY <2>1, <2>2, StageMessage DEF g, Stages, StagesOf
    <3> QED BY <1>6, <2>1, <3>1, <3>2
  <2>4. CASE s_writev_func # log_writev
    <3>1. TopBecomes(t, CustomFrame(f))
      BY <1>1, <1>7, <2>4, Moves DEF f
    <3>2. SameMessage(f, CustomFrame(f)) /\ FrameOK(CustomFrame(f), now) /\ Counted(CustomFrame(f), 0)
      BY <2>1, <2>2, CustomMessage
    <3> QED BY <1>6, <2>1, <3>1, <3>2 DEF SameMessage
  <2> QED BY <2>3, <2>4
<1>8. CASE TakeLock(t)
  <2>1. Running(t) /\ f.at = "lock" /\ UNCHANGED levelVars
    BY <1>8 DEF TakeLock, At, f
  <2>2. TopBecomes(t, g("locked")) /\ g("locked").op = f.op
    BY <1>1, <1>4, <1>8, <2>1, Moves DEF f, g, Stages
  <2>3. ASSUME f.op \in Messages
        PROVE  SameMessage(f, g("locked")) /\ FrameOK(g("locked"), now) /\ Counted(g("locked"), 0)
    <3>1. f.op \in {"log", "dump"}
      BY <1>2, <2>1, <2>3 DEF Messages, StagesOf
    <3> QED BY <1>2, <1>3, <2>1, <2>3, <3>1, StageMessage DEF g, Stages
  <2> QED BY <1>6, <2>1, <2>2, <2>3
<1>9. CASE LockTimesOut(t)
  <2>1. Running(t) /\ f.op \in {"log", "dump"} /\ f.at = "lock" /\ UNCHANGED levelVars
    BY <1>9 DEF LockTimesOut, At, f
  <2>2. TopBecomes(t, RefusedFrame(f))
    BY <1>1, <1>9, Moves DEF f
  <2>3. SameMessage(f, RefusedFrame(f)) /\ FrameOK(RefusedFrame(f), now) /\ Counted(RefusedFrame(f), 0)
    BY <1>3, <2>1, RefusedMessage DEF Messages
  <2> QED BY <1>6, <2>1, <2>2, <2>3 DEF SameMessage
<1>10. CASE LookUp(t)
  <2>1. Running(t) /\ f.op \in {"log", "dump"} /\ f.at = "locked" /\ UNCHANGED levelVars
    BY <1>10 DEF LookUp, At, f
  <2>2. TopBecomes(t, LookedUpFrame(f))
    BY <1>1, <1>10, Moves DEF f
  <2>3. SameMessage(f, LookedUpFrame(f)) /\ FrameOK(LookedUpFrame(f), now) /\ Counted(LookedUpFrame(f), 0)
    BY <1>1, <1>3, <2>1, LookedUpMessage DEF Messages, now
  <2> QED BY <1>6, <2>1, <2>2, <2>3 DEF SameMessage
<1>11. CASE Unlock(t)
  <2> DEFINE a == AfterUnlock(f)
  <2>1. Running(t) /\ f.at = "unlock" /\ UNCHANGED levelVars
    BY <1>11 DEF Unlock, At, f
  <2>2. a \in Stages
    BY DEF AfterUnlock, Stages
  <2>3. TopBecomes(t, g(a)) /\ g(a).op = f.op
    BY <1>1, <1>4, <1>11, <2>1, <2>2, Moves DEF f, g
  <2>4. f.op \in Messages => SameMessage(f, g(a)) /\ FrameOK(g(a), now) /\ Counted(g(a), 0)
    BY <1>2, <1>3, <2>1, <2>2, StageMessage DEF g
  <2> QED BY <1>6, <2>1, <2>3, <2>4
<1>12. CASE HandlerReturns(t)
  <2>1. Running(t) /\ f.op = "log" /\ f.at \in {"handler", "handled"} /\ UNCHANGED levelVars
    BY <1>12 DEF HandlerReturns, At, f
  <2>2. TopBecomes(t, g("return")) /\ g("return").op = f.op
    BY <1>1, <1>4, <1>12, <2>1, Moves DEF f, g, Stages
  <2>3. SameMessage(f, g("return")) /\ FrameOK(g("return"), now) /\ Counted(g("return"), 0)
    BY <1>2, <1>3, <2>1, StageMessage DEF g, Stages, Messages
  <2> QED BY <1>6, <2>1, <2>2, <2>3
<1>13. CASE HandlerLogs(t)
  <2>1. Running(t) /\ f.op = "log" /\ f.at = "handler" /\ UNCHANGED levelVars
    BY <1>13 DEF HandlerLogs, At, f
  <2> DEFINE e == g("handled")
  <2>2. e.op = "log" /\ SameMessage(f, e) /\ FrameOK(e, now) /\ Counted(e, 0)
    <3>1. SameMessage(f, e) /\ FrameOK(e, now) /\ Counted(e, 0)
      BY <1>2, <1>3, <2>1, StageMessage DEF g, Stages, Messages
    <3> QED BY <2>1, <3>1 DEF SameMessage
  <2>3. PICK p \in TagPointers, level \in MessageLevels : TopCalls(t, e, Message("log", p, level))
    BY <1>1, <1>13, Pushes DEF f, g
  <2>4. FrameOK(Message("log", p, level), now) /\ Counted(Message("log", p, level), 0)
    BY <1>1, NewMessage DEF Messages, now
  <2> HIDE DEF e
  <2>5. Counted(e, 1) /\ PartOf(e, Message("log", p, level))
    BY <2>2 DEF Counted, PartOf
  <2> QED BY <1>1, <1>5, <2>1, <2>2, <2>3, <2>4, <2>5, CallMessages DEF f, now
<1>14. CASE NextPart(t)
  <2>1. Running(t) /\ f.op \in {"dump", "macro"} /\ f.at = "parts" /\ UNCHANGED levelVars
    BY <1>14 DEF NextPart, At, f
  <2>2. f \in MessageFrames /\ FrameOK(f, now) /\ Counted(f, 0)
    BY <1>3, <2>1 DEF Messages
  <2>3. CASE f.parts = <<>>
    <3>1. TopBecomes(t, g("return")) /\ g("return").op = f.op
      BY <1>1, <1>4, <1>14, <2>1, <2>3, Moves DEF f, g, Stages
    <3>2. SameMessage(f, g("return")) /\ FrameOK(g("return"), now) /\ Counted(g("return"), 0)
      BY <1>2, <2>1, <2>2, <2>3, StageMessage DEF g, Stages
    <3> QED BY <1>6, <2>1, <3>1, <3>2
  <2>4. CASE f.parts # <<>>
    <3> DEFINE e == CallingFrame(f)
               c == Message(Head(f.parts), f.tag, f.level)
    <3>1. TopCalls(t, e, c)
      BY <1>1, <1>14, <2>4, Pushes DEF f
    <3>2. /\ SameMessage(f, e) /\ FrameOK(e, now) /\ Counted(e, 1) /\ PartOf(e, c)
          /\ FrameOK(c, now) /\ Counted(c, 0)
      BY <1>1, <2>1, <2>2, <2>4, CallingMessage DEF now
    <3> HIDE DEF e, c
    <3>3. e.op = f.op
      BY <3>2 DEF SameMessage
    <3> QED BY <1>1, <1>5, <2>1, <3>1, <3>2, <3>3, CallMessages DEF f, now
  <2> QED BY <2>3, <2>4
<1>15. CASE SetLevel(t)
  <2>1. At(t, {"set"}, "locked") /\ Running(t) /\ f.op = "set"
    BY <1>15 DEF SetLevel, At, f
  <2>2. PICK levels \in [TagPointers -> Levels] :
          /\ \A p \in TagPointers : levels[p] = Registry!Effective(Text[p])'
          /\ AllObserve(t, levels)
    BY <1>1, <1>15, SetLevelShape
  <2>3. \A p \in TagPointers : levels[p] = LevelsNow'[p]
    BY <2>2 DEF LevelsNow
  <2>4. Len(calls[t]) = 1
    BY <1>1, <2>1, <2>2, ObserveKeeps
  <2>5. Typed'
    BY <1>1, StepStacks DEF StackInv
  <2> QED BY <1>1, <2>1, <2>2, <2>3, <2>4, <2>5, ObserveMessages DEF f
<1>16. CASE ReadFunc(t)
  <2>1. Running(t) /\ f.op = "swap" /\ UNCHANGED levelVars /\ f \in SwapFrames
    BY <1>2, <1>16, FrameKinds DEF ReadFunc, At, f
  <2>2. TopBecomes(t, ReadFrame(f))
    BY <1>1, <1>16, Moves DEF f
  <2>3. ReadFrame(f).op = f.op
    BY <2>1 DEF ReadFrame, SwapFrames
  <2> QED BY <1>6, <2>1, <2>2, <2>3 DEF Messages
<1>17. CASE WriteFunc(t)
  <2>1. Running(t) /\ f.op = "swap" /\ UNCHANGED levelVars
    BY <1>17 DEF WriteFunc, At, f
  <2>2. TopBecomes(t, g("unlock")) /\ g("unlock").op = f.op
    BY <1>1, <1>4, <1>17, <2>1, Moves DEF f, g, Stages
  <2> QED BY <1>6, <2>1, <2>2 DEF Messages
<1>18. CASE Return(t)
  <2>1. Running(t) /\ Top(t).at = "return" /\ UNCHANGED levelVars
    BY <1>18 DEF Return, At
  <2>2. TopReturns(t)
    BY <1>1, <1>18, ReturnKeeps
  <2> QED BY <1>1, <1>5, <2>1, <2>2, ReturnMessages DEF now
<1> QED BY <1>7, <1>8, <1>9, <1>10, <1>11, <1>12, <1>13, <1>14, <1>15, <1>16, <1>17, <1>18
        DEF Step

(***************************************************************************)
(* So does the beginning of a call.                                        *)
(***************************************************************************)
LEMMA BeginMessages ==
  ASSUME MessageInv, NEW t \in Tasks, Begin(t)
  PROVE  MessagesInv'
<1>1. StackInv /\ Typed /\ MessagesInv
  BY DEF MessageInv, StackInv
<1>2. LevelsNow' = LevelsNow
  BY DEF Begin, levelVars, LevelsNow, Registry!Effective
<1>3. PICK g : Starts(t, g) /\ (g.op \in Messages => FrameOK(g, LevelsNow) /\ Counted(g, 0))
  <2>1. \A p \in TagPointers, level \in MessageLevels, op \in Messages :
          FrameOK(Message(op, p, level), LevelsNow) /\ Counted(Message(op, p, level), 0)
    BY <1>1, NewMessage
  <2>2. \A p \in TagPointers, level \in Levels : Setting(p, level).op \notin Messages
    BY DEF Setting, Messages
  <2>3. \A func : Swap(func).op \notin Messages
    BY DEF Swap, Messages
  <2> QED BY <1>1, <2>1, <2>2, <2>3, Pushes
<1> QED BY <1>1, <1>2, <1>3, StartMessages

(***************************************************************************)
(* The invariant is inductive.                                             *)
(***************************************************************************)
LEMMA InitMessages == Init => MessageInv
<1> SUFFICES ASSUME Init PROVE MessageInv
  OBVIOUS
<1>1. \A t \in Tasks : Len(calls[t]) = 0
  BY DEF Init
<1>2. MessagesInv
  BY <1>1 DEF MessagesInv
<1> QED BY <1>2, InitStacks DEF MessageInv

(***************************************************************************)
(* And it is kept by every step.                                           *)
(***************************************************************************)
LEMMA NextMessages == MessageInv /\ [Next]_vars => MessageInv'
<1> SUFFICES ASSUME MessageInv, [Next]_vars PROVE MessageInv'
  OBVIOUS
<1>1. StackInv'
  BY NextStacks DEF MessageInv
<1>2. CASE UNCHANGED vars
  <2>1. calls' = calls /\ LevelsNow' = LevelsNow
    BY <1>2 DEF vars, LevelsNow, Registry!Effective
  <2>2. MessagesInv'
    BY <2>1 DEF MessageInv, MessagesInv
  <2> QED BY <1>1, <2>2 DEF MessageInv
<1>3. CASE Next
  BY <1>1, <1>3, StepMessages, BeginMessages DEF Next, MessageInv
<1> QED BY <1>2, <1>3

(***************************************************************************)
(* The invariant covers every message on every stack.                      *)
(***************************************************************************)
LEMMA EveryMessage ==
  ASSUME MessageInv, NEW t \in Tasks, NEW i \in DOMAIN calls[t], calls[t][i].op \in Messages
  PROVE  /\ calls[t][i] \in MessageFrames /\ FrameOK(calls[t][i], LevelsNow)
         /\ Counted(calls[t][i], IF i = Len(calls[t]) THEN 0 ELSE 1)
<1>1. i \in 1 .. Len(calls[t]) /\ Len(calls[t]) \in Nat /\ calls[t][i] \in MessageFrames
  BY StackIs, FrameKinds DEF MessageInv, StackInv, Typed
<1>2. MessageOK(calls[t], i, LevelsNow)
  BY <1>1 DEF MessageInv, MessagesInv
<1>3. i # Len(calls[t]) => i < Len(calls[t])
  BY <1>1
<1> QED BY <1>1, <1>2, <1>3 DEF MessageOK

(***************************************************************************)
(* What is put out was visible at some moment of the call, and what is     *)
(* filtered was not, whatever other tasks set while it ran.                *)
(***************************************************************************)
THEOREM LevelsDecide == Spec => []LevelDecides
<1>1. MessageInv => LevelDecides
  BY EveryMessage DEF LevelDecides, FrameOK, Decided, Messages
<1> QED BY <1>1, InitMessages, NextMessages, PTL DEF Spec

(***************************************************************************)
(* For dumps of any length: a dump or a macro whose tag was visible        *)
(* throughout and that was refused no lock has every line, one whose tag   *)
(* was never visible has none.                                             *)
(***************************************************************************)
THEOREM DumpsAreWhole == Spec => []DumpWholeOrNothing
<1>1. MessageInv => DumpWholeOrNothing
  <2> SUFFICES ASSUME MessageInv, NEW t \in Tasks, At(t, {"dump", "macro"}, "return")
               PROVE  LET headers == IF Top(t).op = "macro" THEN 1 ELSE 0
                      IN  /\ Top(t).seen = {TRUE} /\ ~Top(t).refused =>
                               Top(t).output = headers + DumpLines
                          /\ Top(t).seen = {FALSE} =>
                               Top(t).output = IF Top(t).unfiltered THEN headers ELSE 0
    BY DEF DumpWholeOrNothing
  <2> DEFINE f == Top(t)
  <2>1. Running(t) /\ f.op \in {"dump", "macro"} /\ f.at = "return"
    BY DEF At
  <2>2. f \in MessageFrames /\ FrameOK(f, LevelsNow) /\ Counted(f, 0)
    <3> DEFINE n == Len(calls[t])
    <3>1. n \in DOMAIN calls[t] /\ f = calls[t][n]
      BY <2>1, StackIs DEF MessageInv, StackInv, Typed
    <3> QED BY <2>1, <3>1, EveryMessage DEF Messages
  <2> HIDE DEF f
  <2>3. Len(<<>>) = 0 /\ DumpLines \in Nat
    BY LoggerAssumption
  <2>4. CASE f.op = "dump"
    <3>1. /\ CountedDump(f, 0) /\ Decided(f)
          /\ f.verdict \in {"visible", "filtered", "refused"} /\ (f.verdict = "refused" => f.refused)
      BY <2>1, <2>2, <2>4 DEF Counted, FrameOK, VerdictFits
    <3>2. f.verdict = "visible" => f.parts = <<>> /\ Done(f, 0) = DumpLines
      BY <2>1, <2>3, <2>4, <3>1 DEF CountedDump, Done
    <3>3. ASSUME f.seen = {TRUE}, ~f.refused
          PROVE  f.output = DumpLines
      BY <3>1, <3>2, <3>3 DEF CountedDump, Decided
    <3>4. ASSUME f.seen = {FALSE}
          PROVE  f.output = 0
      BY <3>1, <3>4 DEF CountedDump, Decided
    <3>5. f.op # "macro" /\ 0 + DumpLines = DumpLines
      BY <2>3, <2>4
    <3>6. (IF f.unfiltered THEN 0 ELSE 0) = 0
      OBVIOUS
    <3> QED BY <3>3, <3>4, <3>5, <3>6 DEF f
  <2>5. CASE f.op = "macro"
    <3>1. CountedMacro(f, 0) /\ f.parts = <<>>
      BY <2>1, <2>2, <2>5 DEF Counted, CountedMacro
    <3>2. Done(f, 0) = 2 /\ Due(f, Done(f, 0)) = 1 + DumpLines
      BY <2>3, <2>5, <3>1 DEF Done, Due
    <3> QED BY <2>5, <3>1, <3>2 DEF CountedMacro, f
  <2> QED BY <2>1, <2>4, <2>5
<1> QED BY <1>1, InitMessages, NextMessages, PTL DEF Spec

(***************************************************************************)
(* Every variable has its type; no dump counts more lines than it has.     *)
(***************************************************************************)
THEOREM TypesAreKept == Spec => []TypeOK
<1>1. MessageInv => TypeOK
  <2> SUFFICES ASSUME MessageInv PROVE TypeOK
    OBVIOUS
  <2>1. Typed
    BY DEF MessageInv, StackInv
  <2>2. ASSUME NEW t \in Tasks
        PROVE  calls[t] \in Seq(Frames)
    <3>1. ASSUME NEW i \in 1 .. Len(calls[t])
          PROVE  calls[t][i] \in Frames
      <4> DEFINE f == calls[t][i]
      <4>1. f \in FrameType /\ i \in DOMAIN calls[t]
        BY <2>1, StackIs DEF Typed
      <4>2. CASE f.op \notin Messages
        BY <4>1, <4>2, FrameKinds DEF FrameType, SetFrames, SwapFrames, MessageFrames, Frames
      <4>3. CASE f.op \in Messages
        <5> DEFINE pending == IF i = Len(calls[t]) THEN 0 ELSE 1
        <5>1. f \in MessageFrames /\ Counted(f, pending) /\ pending \in {0, 1}
          BY <4>1, <4>3, EveryMessage
        <5> HIDE DEF f, pending
        <5>2. f.output \in Nat /\ DumpLines \in Nat /\ Len(f.parts) \in Nat /\ f.op \in Messages
          BY <5>1, PartsAre, LoggerAssumption DEF MessageFrames
        <5>3. f.output <= DumpLines + 1
          <6>1. CASE f.op = "log"
            BY <5>1, <5>2, <6>1 DEF Counted
          <6>2. CASE f.op = "dump"
            <7>1. CountedDump(f, pending) /\ Done(f, pending) = DumpLines - Len(f.parts) - pending
              BY <5>1, <6>2 DEF Counted, Done
            <7>2. f.output = 0 \/ f.output <= Done(f, pending)
              BY <7>1 DEF CountedDump
            <7> QED BY <5>1, <5>2, <7>1, <7>2
          <6>3. CASE f.op = "macro"
            <7>1. Done(f, pending) \in 0 .. 2 /\ f.output <= Due(f, Done(f, pending))
              BY <5>1, <6>3 DEF Counted, CountedMacro
            <7>2. Due(f, Done(f, pending)) \in {0, 1, DumpLines + 1}
              BY <6>3, <7>1 DEF Due
            <7> QED BY <5>2, <7>1, <7>2
          <6> QED BY <5>2, <6>1, <6>2, <6>3 DEF Messages
        <5>4. f.output \in 0 .. DumpLines + 1
          BY <5>2, <5>3
        <5> QED BY <5>1, <5>4 DEF MessageFrames, Frames, PartsLeft, f
      <4> QED BY <4>2, <4>3
    <3>2. calls[t] \in Seq(FrameType) /\ Len(calls[t]) \in Nat /\ DOMAIN calls[t] = 1 .. Len(calls[t])
      BY <2>1, StackIs DEF Typed
    <3>3. calls[t] \in [1 .. Len(calls[t]) -> FrameType]
      BY <3>2, LenProperties
    <3>4. calls[t] \in [1 .. Len(calls[t]) -> Frames]
      BY <3>1, <3>3
    <3> QED BY <3>2, <3>4, FunctionIsSeq
  <2>3. calls \in [Tasks -> Seq(Frames)]
    BY <2>1, <2>2 DEF Typed, Stacks
  <2> QED BY <2>1, <2>3 DEF TypeOK, Typed
<1> QED BY <1>1, InitMessages, NextMessages, PTL DEF Spec

-----------------------------------------------------------------------------
(* The functions *)

Installed(func) == func \in {s_log_print_func, s_writev_func}

\* A swap has its new function until it writes it, then the old one.
GoingFrame(f, func) == f.op = "swap" /\ f.at \in {"lock", "locked", "install"} /\ f.new = func
ComingFrame(f, func) == f.op = "swap" /\ f.at \in {"unlock", "return"} /\ f.orig = func
Going(t, func) == Running(t) /\ GoingFrame(Top(t), func)
Coming(t, func) == Running(t) /\ ComingFrame(Top(t), func)

\* The function a swap for func replaces.
Current(func) == IF func \in PrintFuncs THEN s_log_print_func ELSE s_writev_func

\* What was read under the lock is still installed when the swap writes.
OrigRead ==
  \A t \in Tasks : At(t, {"swap"}, "install") => Top(t).orig = Current(Top(t).new)

Existing == {vprintf, log_writev} \cup UNION {Owns[t] : t \in Tasks}
OnePlace == \A func \in Existing : \E x : Places(func) = {x}

FuncInv == StackInv /\ OrigRead /\ OnePlace

(***************************************************************************)
(* The places of a function.                                               *)
(***************************************************************************)
LEMMA PlacesAre ==
  ASSUME NEW func, NEW x
  PROVE  x \in Places(func) <=>
           \/ x = <<"installed">> /\ Installed(func)
           \/ \E t \in Tasks : x = <<"owned", t>> /\ func \in owned[t]
           \/ \E t \in Tasks : x = <<"going", t>> /\ Going(t, func)
           \/ \E t \in Tasks : x = <<"coming", t>> /\ Coming(t, func)
<1>1. \A t \in Tasks :
        Going(t, func) <=> \E stage \in {"lock", "locked", "install"} :
                              At(t, {"swap"}, stage) /\ Top(t).new = func
  BY DEF Going, GoingFrame, At
<1>2. \A t \in Tasks :
        Coming(t, func) <=> \E stage \in {"unlock", "return"} :
                              At(t, {"swap"}, stage) /\ Top(t).orig = func
  BY DEF Coming, ComingFrame, At
<1> DEFINE I == {<<"installed">> : y \in {func} \cap {s_log_print_func, s_writev_func}}
           O == {<<"owned", t>> : t \in {u \in Tasks : func \in owned[u]}}
           G == {<<"going", t>> : t \in {u \in Tasks : Going(u, func)}}
           C == {<<"coming", t>> : t \in {u \in Tasks : Coming(u, func)}}
<1>3. Places(func) = I \cup O \cup G \cup C
  BY <1>1, <1>2 DEF Places
<1>4. x \in I <=> x = <<"installed">> /\ Installed(func)
  BY DEF Installed
<1>5. x \in O <=> \E t \in Tasks : x = <<"owned", t>> /\ func \in owned[t]
  OBVIOUS
<1>6. x \in G <=> \E t \in Tasks : x = <<"going", t>> /\ Going(t, func)
  OBVIOUS
<1>7. x \in C <=> \E t \in Tasks : x = <<"coming", t>> /\ Coming(t, func)
  OBVIOUS
<1> QED BY <1>3, <1>4, <1>5, <1>6, <1>7

(***************************************************************************)
(* The places after a step.                                                *)
(***************************************************************************)
LEMMA PlacesAreNext ==
  ASSUME NEW func, NEW x
  PROVE  x \in Places(func)' <=>
           \/ x = <<"installed">> /\ Installed(func)'
           \/ \E t \in Tasks : x = <<"owned", t>> /\ func \in owned'[t]
           \/ \E t \in Tasks : x = <<"going", t>> /\ Going(t, func)'
           \/ \E t \in Tasks : x = <<"coming", t>> /\ Coming(t, func)'
<1>1. \A t \in Tasks :
        Going(t, func)' <=> (\E stage \in {"lock", "locked", "install"} :
                              At(t, {"swap"}, stage) /\ Top(t).new = func)'
  BY DEF Going, GoingFrame, At
<1>2. \A t \in Tasks :
        Coming(t, func)' <=> (\E stage \in {"unlock", "return"} :
                              At(t, {"swap"}, stage) /\ Top(t).orig = func)'
  BY DEF Coming, ComingFrame, At
<1> DEFINE I == {<<"installed">> : y \in {func} \cap {s_log_print_func', s_writev_func'}}
           O == {<<"owned", t>> : t \in {u \in Tasks : func \in owned'[u]}}
           G == {<<"going", t>> : t \in {u \in Tasks : Going(u, func)'}}
           C == {<<"coming", t>> : t \in {u \in Tasks : Coming(u, func)'}}
<1>3. Places(func)' = I \cup O \cup G \cup C
  BY <1>1, <1>2 DEF Places
<1>4. x \in I <=> x = <<"installed">> /\ Installed(func)'
  BY DEF Installed
<1>5. x \in O <=> \E t \in Tasks : x = <<"owned", t>> /\ func \in owned'[t]
  OBVIOUS
<1>6. x \in G <=> \E t \in Tasks : x = <<"going", t>> /\ Going(t, func)'
  OBVIOUS
<1>7. x \in C <=> \E t \in Tasks : x = <<"coming", t>> /\ Coming(t, func)'
  OBVIOUS
<1> QED BY <1>3, <1>4, <1>5, <1>6, <1>7

(***************************************************************************)
(* A step that moves no function.                                          *)
(***************************************************************************)
LEMMA SamePlaces ==
  ASSUME NEW func, Installed(func)' <=> Installed(func),
         \A u \in Tasks : func \in owned'[u] <=> func \in owned[u],
         \A u \in Tasks : Going(u, func)' <=> Going(u, func),
         \A u \in Tasks : Coming(u, func)' <=> Coming(u, func)
  PROVE  Places(func)' = Places(func)
<1>1. \A x : x \in Places(func)' <=> x \in Places(func)
  BY PlacesAre, PlacesAreNext
<1> QED BY <1>1

(***************************************************************************)
(* A function that is in one place is in no other.                         *)
(***************************************************************************)
LEMMA OnlyThere ==
  ASSUME NEW func, NEW a, Places(func) = {a}
  PROVE  /\ Installed(func) <=> a = <<"installed">>
         /\ \A t \in Tasks : func \in owned[t] <=> a = <<"owned", t>>
         /\ \A t \in Tasks : Going(t, func) <=> a = <<"going", t>>
         /\ \A t \in Tasks : Coming(t, func) <=> a = <<"coming", t>>
<1>1. \A x : x \in Places(func) <=> x = a
  OBVIOUS
<1>2. \A t, u :
        /\ <<"installed">> # <<"owned", t>> /\ <<"installed">> # <<"going", t>>
        /\ <<"installed">> # <<"coming", t>> /\ <<"owned", t>> # <<"going", u>>
        /\ <<"owned", t>> # <<"coming", u>> /\ <<"going", t>> # <<"coming", u>>
        /\ <<"owned", t>> = <<"owned", u>> => t = u
        /\ <<"going", t>> = <<"going", u>> => t = u
        /\ <<"coming", t>> = <<"coming", u>> => t = u
  OBVIOUS
<1>3. Installed(func) <=> a = <<"installed">>
  <2>1. Installed(func) <=> <<"installed">> \in Places(func)
    BY <1>2, PlacesAre
  <2> QED BY <1>1, <2>1
<1>4. ASSUME NEW t \in Tasks
      PROVE  /\ func \in owned[t] <=> a = <<"owned", t>>
             /\ Going(t, func) <=> a = <<"going", t>>
             /\ Coming(t, func) <=> a = <<"coming", t>>
  <2>1. func \in owned[t] <=> <<"owned", t>> \in Places(func)
    BY <1>2, PlacesAre, Zenon
  <2>2. Going(t, func) <=> <<"going", t>> \in Places(func)
    <3> DEFINE x == <<"going", t>>
    <3>1. /\ x # <<"installed">> /\ \A u \in Tasks : x # <<"owned", u>>
          /\ \A u \in Tasks : x # <<"coming", u>>
          /\ \A u \in Tasks : x = <<"going", u>> => t = u
      BY <1>2
    <3>2. x = <<"going", t>>
      OBVIOUS
    <3> HIDE DEF x
    <3>3. Going(t, func) <=> x \in Places(func)
      BY <3>1, <3>2, PlacesAre
    <3> QED BY <3>3 DEF x
  <2>3. Coming(t, func) <=> <<"coming", t>> \in Places(func)
    <3> DEFINE x == <<"coming", t>>
    <3>1. /\ x # <<"installed">> /\ \A u \in Tasks : x # <<"owned", u>>
          /\ \A u \in Tasks : x # <<"going", u>>
          /\ \A u \in Tasks : x = <<"coming", u>> => t = u
      BY <1>2
    <3>2. x = <<"coming", t>>
      OBVIOUS
    <3> HIDE DEF x
    <3>3. Coming(t, func) <=> x \in Places(func)
      BY <3>1, <3>2, PlacesAre
    <3> QED BY <3>3 DEF x
  <2> QED BY <1>1, <2>1, <2>2, <2>3
<1> QED BY <1>3, <1>4

(***************************************************************************)
(* A function that a step has put into one place.                          *)
(***************************************************************************)
LEMMA PutThere ==
  ASSUME NEW func, NEW b,
         b = <<"installed">> \/ \E t \in Tasks : b \in {<<"owned", t>>, <<"going", t>>, <<"coming", t>>},
         Installed(func)' <=> b = <<"installed">>,
         \A t \in Tasks : func \in owned'[t] <=> b = <<"owned", t>>,
         \A t \in Tasks : Going(t, func)' <=> b = <<"going", t>>,
         \A t \in Tasks : Coming(t, func)' <=> b = <<"coming", t>>
  PROVE  Places(func)' = {b}
<1>1. ASSUME NEW x \in Places(func)'
      PROVE  x = b
  BY PlacesAreNext
<1>2. b \in Places(func)'
  BY PlacesAreNext
<1> QED BY <1>1, <1>2

(***************************************************************************)
(* The top of a stack after the steps that keep or push a frame.           *)
(***************************************************************************)
LEMMA TopNext ==
  ASSUME NEW t \in Tasks, NEW f, NEW g, TopBecomes(t, f) \/ TopCalls(t, g, f) \/ Starts(t, f)
  PROVE  Running(t)' /\ Top(t)' = f
<1>1. Stacks'
  BY DEF TopBecomes, TopCalls, Starts
<1>2. /\ Len(calls'[t]) \in Nat /\ (Running(t)' <=> Len(calls'[t]) # 0)
      /\ Running(t)' => Top(t)' = calls'[t][Len(calls'[t])]
  BY <1>1, StackIsNext
<1>3. Len(calls'[t]) # 0 /\ calls'[t][Len(calls'[t])] = f
  BY <1>2 DEF TopBecomes, TopCalls, Starts
<1> QED BY <1>2, <1>3

(***************************************************************************)
(* The functions a task has in a call that moves none: a message, or a     *)
(* swap that only waits, reads or unlocks.                                 *)
(***************************************************************************)
LEMMA QuietStep ==
  ASSUME StackInv, NEW t \in Tasks, Step(t), ~WriteFunc(t), ~(Return(t) /\ Top(t).op = "swap")
  PROVE  /\ UNCHANGED funcVars
         /\ \A u \in Tasks : \A func : /\ Going(u, func)' <=> Going(u, func)
                                       /\ Coming(u, func)' <=> Coming(u, func)
         /\ At(t, {"swap"}, "install")' => ReadFunc(t)
         /\ \A u \in Tasks \ {t} :
              At(u, {"swap"}, "install")' => At(u, {"swap"}, "install") /\ Top(u)' = Top(u)
<1>1. Typed /\ Stacks /\ StacksOK
  BY DEF StackInv, Typed
<1>2. UNCHANGED funcVars
  BY DEF Step, log_write, TakeLock, LockTimesOut, LookUp, Unlock, HandlerLogs, HandlerReturns,
         NextPart, SetLevel, ReadFunc, Return, funcVars
<1>3. Running(t) /\ Top(t) \in FrameType /\ Top(t).at \in StagesOf(Top(t).op)
  <2>1. Running(t)
    BY DEF Step, log_write, TakeLock, LockTimesOut, LookUp, Unlock, HandlerLogs, HandlerReturns,
           NextPart, SetLevel, ReadFunc, Return, At
  <2> QED BY <1>1, <2>1, StackIs DEF StacksOK, StackOK
<1> DEFINE Quiet(u) ==
             /\ \A func : /\ Going(u, func)' <=> Going(u, func)
                          /\ Coming(u, func)' <=> Coming(u, func)
             /\ At(u, {"swap"}, "install")' =>
                  IF u = t THEN ReadFunc(t) ELSE At(u, {"swap"}, "install") /\ Top(u)' = Top(u)
<1>4. ASSUME Running(t)' => Top(t)'.op # "swap", Top(t).op # "swap"
      PROVE  Quiet(t)
  BY <1>4 DEF Going, Coming, GoingFrame, ComingFrame, At
<1>5. ASSUME OthersStay(t), NEW u \in Tasks \ {t}
      PROVE  Quiet(u)
  <2>1. Running(u)' = Running(u) /\ Top(u)' = Top(u)
    BY <1>5, OthersKeep
  <2> QED BY <2>1 DEF Going, Coming, At
<1> HIDE DEF Quiet
<1>6. CASE log_write(t)
  <2>1. Top(t).op = "log" /\ Top(t) \in MessageFrames
    BY <1>3, <1>6, FrameKinds DEF log_write, At, Messages
  <2> DEFINE g == IF s_writev_func = log_writev THEN [Top(t) EXCEPT !.at = "lock"]
                                                ELSE CustomFrame(Top(t))
  <2>2. TopBecomes(t, g)
    BY <1>6, Moves
  <2>3. g.op = "log"
    BY <2>1 DEF CustomFrame, MessageFrames
  <2> HIDE DEF g
  <2>4. \A u \in Tasks : Quiet(u)
    BY <1>4, <1>5, <2>1, <2>2, <2>3, TopNext DEF TopBecomes
  <2> QED BY <1>2, <2>4 DEF Quiet
<1>7. CASE TakeLock(t)
  <2> DEFINE g == [Top(t) EXCEPT !.at = "locked"]
  <2>1. TopBecomes(t, g) /\ Top(t).at = "lock"
    BY <1>7, Moves DEF TakeLock, At
  <2>2. /\ g.op = Top(t).op /\ g.at = "locked"
        /\ Top(t).op = "swap" => g.new = Top(t).new
    BY <1>3, FrameMoves, FrameKinds DEF Stages, SwapFrames
  <2> HIDE DEF g
  <2>3. Running(t)' /\ Top(t)' = g
    BY <2>1, TopNext
  <2>4. Quiet(t)
    BY <1>3, <2>1, <2>2, <2>3 DEF Quiet, Going, Coming, GoingFrame, ComingFrame, At
  <2>5. \A u \in Tasks : Quiet(u)
    BY <1>5, <2>1, <2>4 DEF TopBecomes
  <2> QED BY <1>2, <2>5 DEF Quiet
<1>8. CASE LockTimesOut(t)
  <2>1. Top(t).op \in {"log", "dump"} /\ Top(t) \in MessageFrames
    BY <1>3, <1>8, FrameKinds DEF LockTimesOut, At, Messages
  <2>2. TopBecomes(t, RefusedFrame(Top(t)))
    BY <1>8, Moves
  <2>3. RefusedFrame(Top(t)).op = Top(t).op
    BY <2>1 DEF RefusedFrame, MessageFrames
  <2>4. \A u \in Tasks : Quiet(u)
    BY <1>4, <1>5, <2>1, <2>2, <2>3, TopNext DEF TopBecomes
  <2> QED BY <1>2, <2>4 DEF Quiet
<1>9. CASE LookUp(t)
  <2>1. Top(t).op \in {"log", "dump"} /\ Top(t) \in MessageFrames
    BY <1>3, <1>9, FrameKinds DEF LookUp, At, Messages
  <2>2. TopBecomes(t, LookedUpFrame(Top(t)))
    BY <1>9, Moves
  <2>3. LookedUpFrame(Top(t)).op = Top(t).op
    BY <2>1 DEF LookedUpFrame, MessageFrames
  <2>4. \A u \in Tasks : Quiet(u)
    BY <1>4, <1>5, <2>1, <2>2, <2>3, TopNext DEF TopBecomes
  <2> QED BY <1>2, <2>4 DEF Quiet
<1>10. CASE Unlock(t)
  <2> DEFINE a == AfterUnlock(Top(t))
             g == [Top(t) EXCEPT !.at = a]
  <2>1. TopBecomes(t, g) /\ Top(t).at = "unlock"
    BY <1>10, Moves DEF Unlock, At
  <2>2. /\ a \in {"handler", "parts", "return"} /\ (Top(t).op = "swap" => a = "return")
        /\ g.op = Top(t).op /\ g.at = a
        /\ Top(t).op = "swap" => g.orig = Top(t).orig
    <3>1. a \in {"handler", "parts", "return"} /\ (Top(t).op = "swap" => a = "return")
      BY DEF AfterUnlock
    <3> HIDE DEF a
    <3> QED BY <1>3, <3>1, FrameMoves, FrameKinds DEF Stages, SwapFrames
  <2> HIDE DEF g, a
  <2>3. Running(t)' /\ Top(t)' = g
    BY <2>1, TopNext
  <2>4. Quiet(t)
    BY <1>3, <2>1, <2>2, <2>3 DEF Quiet, Going, Coming, GoingFrame, ComingFrame, At
  <2>5. \A u \in Tasks : Quiet(u)
    BY <1>5, <2>1, <2>4 DEF TopBecomes
  <2> QED BY <1>2, <2>5 DEF Quiet
<1>11. CASE HandlerLogs(t)
  <2>1. Top(t).op = "log"
    BY <1>11 DEF HandlerLogs, At
  <2>2. PICK p \in TagPointers, level \in MessageLevels :
          TopCalls(t, [Top(t) EXCEPT !.at = "handled"], Message("log", p, level))
    BY <1>11, Pushes
  <2>3. Message("log", p, level).op = "log"
    BY DEF Message
  <2>4. \A u \in Tasks : Quiet(u)
    BY <1>4, <1>5, <2>1, <2>2, <2>3, TopNext DEF TopCalls
  <2> QED BY <1>2, <2>4 DEF Quiet
<1>12. CASE HandlerReturns(t)
  <2> DEFINE g == [Top(t) EXCEPT !.at = "return"]
  <2>1. Top(t).op = "log" /\ TopBecomes(t, g)
    BY <1>12, Moves DEF HandlerReturns, At
  <2>2. g.op = "log"
    BY <1>3, <2>1, FrameMoves DEF Stages
  <2> HIDE DEF g
  <2>3. \A u \in Tasks : Quiet(u)
    BY <1>4, <1>5, <2>1, <2>2, TopNext DEF TopBecomes
  <2> QED BY <1>2, <2>3 DEF Quiet
<1>13. CASE NextPart(t)
  <2>1. Top(t).op \in {"dump", "macro"} /\ Top(t) \in MessageFrames
    BY <1>3, <1>13, FrameKinds DEF NextPart, At, Messages
  <2>2. CASE Top(t).parts = <<>>
    <3> DEFINE g == [Top(t) EXCEPT !.at = "return"]
    <3>1. TopBecomes(t, g) /\ g.op = Top(t).op
      BY <1>3, <1>13, <2>2, Moves, FrameMoves DEF Stages
    <3> HIDE DEF g
    <3>2. \A u \in Tasks : Quiet(u)
      BY <1>4, <1>5, <2>1, <3>1, TopNext DEF TopBecomes
    <3> QED BY <1>2, <3>2 DEF Quiet
  <2>3. CASE Top(t).parts # <<>>
    <3> DEFINE g == Message(Head(Top(t).parts), Top(t).tag, Top(t).level)
    <3>1. TopCalls(t, CallingFrame(Top(t)), g)
      BY <1>13, <2>3, Pushes
    <3>2. g.op \in {"log", "dump"}
      BY <2>1, <2>3, PartsAre DEF Message, MessageFrames
    <3> HIDE DEF g
    <3>3. \A u \in Tasks : Quiet(u)
      BY <1>4, <1>5, <2>1, <3>1, <3>2, TopNext DEF TopCalls
    <3> QED BY <1>2, <3>3 DEF Quiet
  <2> QED BY <2>2, <2>3
<1>14. CASE SetLevel(t)
  <2>1. At(t, {"set"}, "locked") /\ Top(t).op = "set"
    BY <1>14 DEF SetLevel, At
  <2>2. PICK now \in [TagPointers -> Levels] : AllObserve(t, now)
    BY <1>1, <1>14, SetLevelShape
  <2>3. /\ Top(t)'.op = "set"
        /\ \A u \in Tasks : Running(u)' <=> Running(u)
        /\ \A u \in Tasks \ {t} :
             Running(u) => /\ Top(u)'.at = Top(u).at /\ Top(u)'.op = Top(u).op
                           /\ Top(u).op \notin Messages => Top(u)' = Top(u)
    BY <1>1, <2>1, <2>2, ObserveKeeps
  <2>4. Quiet(t)
    BY <1>4, <2>1, <2>3
  <2>5. \A u \in Tasks \ {t} : Quiet(u)
    BY <2>3 DEF Quiet, Going, Coming, GoingFrame, ComingFrame, At, Messages
  <2> QED BY <1>2, <2>4, <2>5 DEF Quiet
<1>15. CASE ReadFunc(t)
  <2>1. Top(t).op = "swap" /\ Top(t).at = "locked" /\ Top(t) \in SwapFrames
    BY <1>3, <1>15, FrameKinds DEF ReadFunc, At
  <2> DEFINE g == ReadFrame(Top(t))
  <2>2. TopBecomes(t, g)
    BY <1>15, Moves
  <2>3. g.op = "swap" /\ g.at = "install" /\ g.new = Top(t).new
    BY <2>1 DEF ReadFrame, SwapFrames
  <2> HIDE DEF g
  <2>4. Running(t)' /\ Top(t)' = g
    BY <2>2, TopNext
  <2>5. Quiet(t)
    BY <1>3, <1>15, <2>1, <2>3, <2>4 DEF Quiet, Going, Coming, GoingFrame, ComingFrame, At
  <2>6. \A u \in Tasks : Quiet(u)
    BY <1>5, <2>2, <2>5 DEF TopBecomes
  <2> QED BY <1>2, <2>6 DEF Quiet
<1>16. CASE Return(t)
  <2>1. Top(t).op # "swap"
    BY <1>16
  <2>2. TopReturns(t) /\ StacksOK' /\ (Running(t)' => Top(t)'.at \in {"parts", "handled"})
    BY <1>1, <1>16, ReturnKeeps
  <2>3. Running(t)' => Top(t)'.op # "swap"
    <3>1. Running(t)' => Top(t)'.at \in StagesOf(Top(t)'.op)
      BY <2>2, StackIsNext DEF TopReturns, StacksOK, StackOK
    <3> QED BY <2>2, <3>1 DEF StagesOf
  <2>4. \A u \in Tasks : Quiet(u)
    BY <1>4, <1>5, <2>1, <2>2, <2>3 DEF TopReturns
  <2> QED BY <1>2, <2>4 DEF Quiet
<1> QED BY <1>6, <1>7, <1>8, <1>9, <1>10, <1>11, <1>12, <1>13, <1>14, <1>15, <1>16 DEF Step

(***************************************************************************)
(* What a swap writes goes from its frame into its variable, what it       *)
(* replaces from the variable into the frame.                              *)
(***************************************************************************)
LEMMA SwapWrites ==
  ASSUME FuncInv, NEW t \in Tasks, WriteFunc(t)
  PROVE  OnePlace' /\ OrigRead'
<1>1. StackInv /\ OrigRead /\ OnePlace /\ Typed /\ Stacks /\ HolderOK
  BY DEF FuncInv, StackInv, Typed
<1> DEFINE new == Top(t).new
           orig == Top(t).orig
           f == [Top(t) EXCEPT !.at = "unlock"]
<1>2. Running(t) /\ Top(t).op = "swap" /\ Top(t).at = "install" /\ Top(t) \in SwapFrames
  BY <1>1, StackIs, FrameKinds DEF WriteFunc, At
<1>3. TopBecomes(t, f) /\ f.op = "swap" /\ f.at = "unlock" /\ f.new = new /\ f.orig = orig
  BY <1>1, <1>2, Moves DEF SwapFrames
<1>4. orig = Current(new) /\ new \in Functions
  BY <1>1, <1>2 DEF OrigRead, At, SwapFrames
<1>5. /\ s_log_print_func' = IF new \in PrintFuncs THEN new ELSE s_log_print_func
      /\ s_writev_func' = IF new \in PrintFuncs THEN s_writev_func ELSE new
      /\ owned' = owned
  BY DEF WriteFunc
<1> HIDE DEF f, new, orig
<1>6. Running(t)' /\ Top(t)' = f /\ \A u \in Tasks \ {t} : Running(u)' = Running(u) /\ Top(u)' = Top(u)
  BY <1>3, TopNext, OthersKeep DEF TopBecomes
<1>7. \A func : /\ Going(t, func) <=> func = new
                /\ ~Coming(t, func) /\ ~Going(t, func)'
                /\ Coming(t, func)' <=> func = orig
  BY <1>2, <1>3, <1>6 DEF Going, Coming, GoingFrame, ComingFrame, new
<1>8. \A u \in Tasks \ {t} : \A func : /\ Going(u, func)' <=> Going(u, func)
                                       /\ Coming(u, func)' <=> Coming(u, func)
  BY <1>6 DEF Going, Coming
<1>9. OrigRead'
  <2>1. \A u \in Tasks : ~At(u, {"swap"}, "install")'
    <3>1. ~At(t, {"swap"}, "install")'
      BY <1>3, <1>6 DEF At
    <3>2. \A u \in Tasks \ {t} : ~At(u, {"swap"}, "install")
      BY <1>1, <1>2 DEF HolderOK, InSection, Holding, At
    <3> QED BY <1>6, <3>1, <3>2 DEF At
  <2> QED BY <2>1 DEF OrigRead
<1>10. ASSUME NEW func \in Existing
       PROVE  \E x : Places(func)' = {x}
  <2>1. PICK a : Places(func) = {a}
    BY <1>1 DEF OnePlace
  <2>2. /\ Installed(func) <=> a = <<"installed">>
        /\ \A u \in Tasks : func \in owned[u] <=> a = <<"owned", u>>
        /\ \A u \in Tasks : Going(u, func) <=> a = <<"going", u>>
        /\ \A u \in Tasks : Coming(u, func) <=> a = <<"coming", u>>
    BY <2>1, OnlyThere
  <2>3. \A u, v :
          /\ <<"installed">> # <<"owned", u>> /\ <<"installed">> # <<"going", u>>
          /\ <<"installed">> # <<"coming", u>> /\ <<"owned", u>> # <<"going", v>>
          /\ <<"owned", u>> # <<"coming", v>> /\ <<"going", u>> # <<"coming", v>>
          /\ <<"going", u>> = <<"going", v>> => u = v
          /\ <<"coming", u>> = <<"coming", v>> => u = v
    OBVIOUS
  <2>4. Installed(orig)
    BY <1>4 DEF Installed, Current
  <2>5. CASE func = new
    <3>1. a = <<"going", t>> /\ ~Installed(func) /\ func # orig
      BY <1>7, <2>2, <2>3, <2>4, <2>5
    <3>2. Installed(func)'
      BY <1>5, <2>5 DEF Installed
    <3>3. \A u \in Tasks : func \notin owned'[u] /\ ~Going(u, func)' /\ ~Coming(u, func)'
      BY <1>5, <1>7, <1>8, <2>2, <2>3, <3>1
    <3>4. Places(func)' = {<<"installed">>}
      BY <2>3, <3>2, <3>3, PutThere
    <3> QED BY <3>4
  <2>6. CASE func # new /\ func = orig
    <3>1. a = <<"installed">>
      BY <2>2, <2>4, <2>6
    <3>2. ~Installed(func)'
      BY <1>1, <1>4, <1>5, <2>6, LoggerAssumption DEF Installed, Current, Typed, Functions
    <3>3. \A u \in Tasks : /\ func \notin owned'[u] /\ ~Going(u, func)'
                           /\ Coming(u, func)' <=> u = t
      BY <1>5, <1>7, <1>8, <2>2, <2>3, <2>6, <3>1
    <3>4. Places(func)' = {<<"coming", t>>}
      BY <2>3, <3>2, <3>3, PutThere
    <3> QED BY <3>4
  <2>7. CASE func # new /\ func # orig
    <3>1. Installed(func)' <=> Installed(func)
      BY <1>4, <1>5, <2>7 DEF Installed, Current
    <3>2. Places(func)' = Places(func)
      BY <1>5, <1>7, <1>8, <2>7, <3>1, SamePlaces
    <3> QED BY <2>1, <3>2
  <2> QED BY <2>5, <2>6, <2>7
<1> QED BY <1>9, <1>10 DEF OnePlace, Existing

(***************************************************************************)
(* A swap that returns hands the old function to its task.                 *)
(***************************************************************************)
LEMMA SwapReturns ==
  ASSUME FuncInv, NEW t \in Tasks, Return(t), Top(t).op = "swap"
  PROVE  OnePlace' /\ OrigRead'
<1>1. StackInv /\ OrigRead /\ OnePlace /\ Typed /\ Stacks /\ StacksOK
  BY DEF FuncInv, StackInv, Typed
<1> DEFINE orig == Top(t).orig
<1>2. Running(t) /\ Top(t).at = "return"
  BY DEF Return, At
<1>3. Len(calls[t]) = 1
  <2>1. Len(calls[t]) \in Nat \ {0} /\ Top(t) = calls[t][Len(calls[t])]
    BY <1>1, <1>2, StackIs
  <2>2. Len(calls[t]) > 1 => Top(t).op \in {"log", "dump"}
    <3>1. Len(calls[t]) \in 1 .. Len(calls[t])
      BY <2>1
    <3> QED BY <1>1, <2>1, <3>1 DEF StacksOK, StackOK
  <2>3. Len(calls[t]) > 1 \/ Len(calls[t]) = 1
    <3> DEFINE n == Len(calls[t])
    <3>1. n \in Nat \ {0}
      BY <2>1
    <3> HIDE DEF n
    <3>2. n > 1 \/ n = 1
      BY <3>1
    <3> QED BY <3>2 DEF n
  <2> QED BY <2>2, <2>3
<1>4. TopReturns(t)
  BY <1>1, ReturnKeeps
<1>5. ~Running(t)' /\ \A u \in Tasks \ {t} : Running(u)' = Running(u) /\ Top(u)' = Top(u)
  <2>1. Len(calls'[t]) = 0
    BY <1>3, <1>4 DEF TopReturns
  <2> QED BY <1>4, <2>1, StackIsNext, OthersKeep DEF TopReturns
<1>6. /\ UNCHANGED <<s_log_print_func, s_writev_func>>
      /\ \A func : /\ func \in owned'[t] <=> func \in owned[t] \/ func = orig
                   /\ \A u \in Tasks \ {t} : owned'[u] = owned[u]
  BY <1>1 DEF Return, Typed
<1> HIDE DEF orig
<1>7. \A func : /\ ~Going(t, func) /\ ~Going(t, func)' /\ ~Coming(t, func)'
                /\ Coming(t, func) <=> func = orig
  BY <1>2, <1>5 DEF Going, Coming, GoingFrame, ComingFrame, orig
<1>8. \A u \in Tasks \ {t} : \A func : /\ Going(u, func)' <=> Going(u, func)
                                       /\ Coming(u, func)' <=> Coming(u, func)
  BY <1>5 DEF Going, Coming
<1>9. OrigRead'
  BY <1>1, <1>5, <1>6 DEF OrigRead, At, Current
<1>10. ASSUME NEW func \in Existing
       PROVE  \E x : Places(func)' = {x}
  <2>1. PICK a : Places(func) = {a}
    BY <1>1 DEF OnePlace
  <2>2. /\ Installed(func) <=> a = <<"installed">>
        /\ \A u \in Tasks : func \in owned[u] <=> a = <<"owned", u>>
        /\ \A u \in Tasks : Going(u, func) <=> a = <<"going", u>>
        /\ \A u \in Tasks : Coming(u, func) <=> a = <<"coming", u>>
    BY <2>1, OnlyThere
  <2>3. \A u, v :
          /\ <<"installed">> # <<"owned", u>> /\ <<"installed">> # <<"coming", u>>
          /\ <<"owned", u>> # <<"going", v>> /\ <<"owned", u>> # <<"coming", v>>
          /\ <<"going", u>> # <<"coming", v>>
          /\ <<"owned", u>> = <<"owned", v>> => u = v
          /\ <<"coming", u>> = <<"coming", v>> => u = v
    OBVIOUS
  <2>4. Installed(func)' <=> Installed(func)
    BY <1>6 DEF Installed
  <2>5. CASE func = orig
    <3>1. a = <<"coming", t>>
      BY <1>7, <2>2, <2>5
    <3>2. ~Installed(func)'
      BY <2>2, <2>3, <2>4, <3>1
    <3>3. \A u \in Tasks : /\ func \in owned'[u] <=> u = t
                           /\ ~Going(u, func)' /\ ~Coming(u, func)'
      BY <1>6, <1>7, <1>8, <2>2, <2>3, <2>5, <3>1
    <3>4. Places(func)' = {<<"owned", t>>}
      BY <2>3, <3>2, <3>3, PutThere
    <3> QED BY <3>4
  <2>6. CASE func # orig
    <3>1. \A u \in Tasks : func \in owned'[u] <=> func \in owned[u]
      BY <1>6, <2>6
    <3>2. Places(func)' = Places(func)
      BY <1>7, <1>8, <2>4, <2>6, <3>1, SamePlaces
    <3> QED BY <2>1, <3>2
  <2> QED BY <2>5, <2>6
<1> QED BY <1>9, <1>10 DEF OnePlace, Existing

(***************************************************************************)
(* A swap that begins takes its function from its task; other calls take   *)
(* none.                                                                   *)
(***************************************************************************)
LEMMA BeginFuncs ==
  ASSUME FuncInv, NEW t \in Tasks, Begin(t)
  PROVE  OnePlace' /\ OrigRead'
<1>1. StackInv /\ OrigRead /\ OnePlace /\ Typed /\ Stacks
  BY DEF FuncInv, StackInv, Typed
<1>2. PICK g : /\ Starts(t, g) /\ g.at # "install"
               /\ \/ g.op # "swap" /\ UNCHANGED owned
                  \/ \E func \in owned[t] :
                       /\ g = Swap(func) /\ owned' = [owned EXCEPT ![t] = @ \ {func}]
  <2>1. \A p \in TagPointers, level \in MessageLevels, op \in Messages :
          Message(op, p, level).op # "swap" /\ Message(op, p, level).at # "install"
    BY DEF Message, Messages
  <2>2. \A p \in TagPointers, level \in Levels :
          Setting(p, level).op # "swap" /\ Setting(p, level).at # "install"
    BY DEF Setting
  <2>3. \A func : Swap(func).at # "install"
    BY DEF Swap
  <2>4. CASE UNCHANGED owned /\ \E p \in TagPointers, level \in MessageLevels, op \in Messages :
                                 Starts(t, Message(op, p, level))
    BY <2>1, <2>4
  <2>5. CASE UNCHANGED owned /\ \E p \in TagPointers, level \in Levels : Starts(t, Setting(p, level))
    BY <2>2, <2>5
  <2>6. CASE \E func \in owned[t] : Starts(t, Swap(func)) /\ owned' = [owned EXCEPT ![t] = @ \ {func}]
    BY <2>3, <2>6
  <2> QED BY <1>1, <2>4, <2>5, <2>6, Pushes
<1>3. ~Running(t) /\ UNCHANGED <<s_log_print_func, s_writev_func>>
  BY DEF Begin
<1>4. Running(t)' /\ Top(t)' = g /\ \A u \in Tasks \ {t} : Running(u)' = Running(u) /\ Top(u)' = Top(u)
  BY <1>2, TopNext, OthersKeep DEF Starts
<1>5. \A u \in Tasks \ {t} : \A func : /\ Going(u, func)' <=> Going(u, func)
                                       /\ Coming(u, func)' <=> Coming(u, func)
  BY <1>4 DEF Going, Coming
<1>6. \A func : /\ ~Going(t, func) /\ ~Coming(t, func)
                /\ Going(t, func)' <=> GoingFrame(g, func)
                /\ Coming(t, func)' <=> ComingFrame(g, func)
                /\ Installed(func)' <=> Installed(func)
  BY <1>3, <1>4 DEF Going, Coming, Installed
<1>7. OrigRead'
  BY <1>1, <1>2, <1>3, <1>4 DEF OrigRead, At, Current
<1>8. ASSUME NEW func \in Existing
      PROVE  \E x : Places(func)' = {x}
  <2>1. PICK a : Places(func) = {a}
    BY <1>1 DEF OnePlace
  <2>2. CASE g.op # "swap" /\ UNCHANGED owned
    <3>1. ~GoingFrame(g, func) /\ ~ComingFrame(g, func)
      BY <2>2 DEF GoingFrame, ComingFrame
    <3>2. Places(func)' = Places(func)
      BY <1>5, <1>6, <2>2, <3>1, SamePlaces
    <3> QED BY <2>1, <3>2
  <2>3. ASSUME NEW new \in owned[t], g = Swap(new), owned' = [owned EXCEPT ![t] = @ \ {new}]
        PROVE  \E x : Places(func)' = {x}
    <3>1. ~ComingFrame(g, func) /\ (GoingFrame(g, func) <=> func = new)
      BY <2>3 DEF GoingFrame, ComingFrame, Swap
    <3>2. /\ func \in owned'[t] <=> func \in owned[t] /\ func # new
          /\ \A u \in Tasks \ {t} : owned'[u] = owned[u]
      BY <1>1, <2>3 DEF Typed
    <3>3. CASE func # new
      <4>1. \A u \in Tasks : func \in owned'[u] <=> func \in owned[u]
        BY <3>2, <3>3
      <4>2. Places(func)' = Places(func)
        BY <1>5, <1>6, <3>1, <3>3, <4>1, SamePlaces
      <4> QED BY <2>1, <4>2
    <3>4. CASE func = new
      <4>1. /\ Installed(func) <=> a = <<"installed">>
            /\ \A u \in Tasks : func \in owned[u] <=> a = <<"owned", u>>
            /\ \A u \in Tasks : Going(u, func) <=> a = <<"going", u>>
            /\ \A u \in Tasks : Coming(u, func) <=> a = <<"coming", u>>
        BY <2>1, OnlyThere
      <4>2. \A u, v :
              /\ <<"installed">> # <<"owned", u>> /\ <<"installed">> # <<"going", u>>
              /\ <<"owned", u>> # <<"going", v>> /\ <<"owned", u>> # <<"coming", v>>
              /\ <<"going", u>> # <<"coming", v>>
              /\ <<"owned", u>> = <<"owned", v>> => u = v
              /\ <<"going", u>> = <<"going", v>> => u = v
        OBVIOUS
      <4>3. a = <<"owned", t>>
        BY <2>3, <3>4, <4>1
      <4>4. ~Installed(func)'
        BY <1>6, <4>1, <4>2, <4>3
      <4>5. \A u \in Tasks : /\ func \notin owned'[u] /\ ~Coming(u, func)'
                             /\ Going(u, func)' <=> u = t
        BY <1>5, <1>6, <3>1, <3>2, <3>4, <4>1, <4>2, <4>3
      <4>6. Places(func)' = {<<"going", t>>}
        BY <4>2, <4>4, <4>5, PutThere
      <4> QED BY <4>6
    <3> QED BY <3>3, <3>4
  <2> QED BY <1>2, <2>2, <2>3
<1> QED BY <1>7, <1>8 DEF OnePlace, Existing

(***************************************************************************)
(* The invariant is inductive.                                             *)
(***************************************************************************)
LEMMA InitFuncs == Init => FuncInv
<1> SUFFICES ASSUME Init PROVE FuncInv
  OBVIOUS
<1>1. StackInv
  BY InitStacks
<1>2. \A t \in Tasks : ~Running(t)
  BY DEF Init, Running
<1>3. OrigRead
  BY <1>2 DEF OrigRead, At
<1>4. ASSUME NEW func \in Existing
      PROVE  \E x : Places(func) = {x}
  <2>1. \A t \in Tasks : ~Going(t, func) /\ ~Coming(t, func)
    BY <1>2 DEF Going, Coming
  <2>2. Installed(func) <=> func \in {vprintf, log_writev}
    BY DEF Init, Installed
  <2>3. CASE func \in {vprintf, log_writev}
    <3>1. \A t \in Tasks : func \notin owned[t]
      BY <2>3, LoggerAssumption DEF Init
    <3>2. \A x : x \in Places(func) <=> x = <<"installed">>
      BY <2>1, <2>2, <2>3, <3>1, PlacesAre
    <3>3. Places(func) = {<<"installed">>}
      BY <3>2
    <3> QED BY <3>3
  <2>4. CASE func \notin {vprintf, log_writev}
    <3>1. PICK t \in Tasks : func \in Owns[t]
      BY <2>4 DEF Existing
    <3>2. \A u \in Tasks : func \in owned[u] <=> u = t
      BY <3>1, LoggerAssumption DEF Init
    <3>3. \A x : x \in Places(func) <=> x = <<"owned", t>>
      BY <2>1, <2>2, <2>4, <3>2, PlacesAre
    <3>4. Places(func) = {<<"owned", t>>}
      BY <3>3
    <3> QED BY <3>4
  <2> QED BY <2>3, <2>4
<1> QED BY <1>1, <1>3, <1>4 DEF FuncInv, OnePlace

(***************************************************************************)
(* And it is kept by every step.                                           *)
(***************************************************************************)
LEMMA NextFuncs == FuncInv /\ [Next]_vars => FuncInv'
<1> SUFFICES ASSUME FuncInv, [Next]_vars PROVE FuncInv'
  OBVIOUS
<1>1. StackInv /\ OrigRead /\ OnePlace /\ StackInv'
  BY NextStacks DEF FuncInv
<1>2. CASE UNCHANGED vars
  <2>1. OrigRead'
    BY <1>1, <1>2 DEF vars, OrigRead, At, Running, Top, Current
  <2>2. \A func : Places(func)' = Places(func)
    BY <1>2 DEF vars, Places, At, Running, Top
  <2>3. OnePlace'
    BY <1>1, <2>2 DEF OnePlace, Existing
  <2> QED BY <1>1, <2>1, <2>3 DEF FuncInv
<1>3. ASSUME NEW t \in Tasks, Step(t), ~WriteFunc(t), ~(Return(t) /\ Top(t).op = "swap")
      PROVE  OnePlace' /\ OrigRead'
  <2>1. /\ UNCHANGED <<s_log_print_func, s_writev_func, owned>>
        /\ \A u \in Tasks : \A func : /\ Going(u, func)' <=> Going(u, func)
                                      /\ Coming(u, func)' <=> Coming(u, func)
        /\ At(t, {"swap"}, "install")' => ReadFunc(t)
        /\ \A u \in Tasks \ {t} :
             At(u, {"swap"}, "install")' => At(u, {"swap"}, "install") /\ Top(u)' = Top(u)
    BY <1>1, <1>3, QuietStep DEF funcVars
  <2>2. \A func : Places(func)' = Places(func)
    BY <2>1, SamePlaces DEF Installed
  <2>3. OnePlace'
    BY <1>1, <2>2 DEF OnePlace, Existing
  <2>4. ASSUME ReadFunc(t)
        PROVE  (Top(t).orig = Current(Top(t).new))'
    <3>1. Top(t) \in SwapFrames
      BY <1>1, <2>4, StackIs, FrameKinds DEF ReadFunc, At, StackInv, Typed
    <3>2. Top(t)' = ReadFrame(Top(t))
      BY <1>1, <2>4, Moves, TopNext
    <3>3. /\ ReadFrame(Top(t)).new = Top(t).new
          /\ ReadFrame(Top(t)).orig = Current(Top(t).new)
      BY <3>1 DEF ReadFrame, SwapFrames, Current
    <3> QED BY <2>1, <3>2, <3>3 DEF Current
  <2>5. OrigRead'
    BY <1>1, <2>1, <2>4 DEF OrigRead, Current
  <2> QED BY <2>3, <2>5
<1>4. CASE Next
  BY <1>1, <1>3, <1>4, SwapWrites, SwapReturns, BeginFuncs DEF Next, FuncInv
<1> QED BY <1>2, <1>4

(***************************************************************************)
(* For any number of tasks and functions: every print and write function   *)
(* is installed, or with one task, or on its way there: concurrent swaps   *)
(* lose none and hand none to two tasks.                                   *)
(***************************************************************************)
THEOREM FunctionsAreConserved == Spec => []FunctionsConserved
<1>1. FuncInv => FunctionsConserved
  <2> SUFFICES ASSUME FuncInv, NEW func \in Existing
               PROVE  Cardinality(Places(func)) = 1
    BY DEF FunctionsConserved, Existing
  <2>1. PICK x : Places(func) = {x}
    BY DEF FuncInv, OnePlace
  <2> QED BY <2>1, FS_Singleton
<1> QED BY <1>1, InitFuncs, NextFuncs, PTL DEF Spec
=============================================================================
