-------------------------- MODULE BufferDumpProofs --------------------------
(***************************************************************************)
(* Theorems about BufferDump, for buffers of any contents and length,      *)
(* lines of any number of words and lengths of any width.                  *)
(***************************************************************************)
EXTENDS BufferDump, SequenceTheorems, WellFoundedInduction, TLAPS

(***************************************************************************)
(* The numbers of the constants.                                           *)
(***************************************************************************)
LEMMA SizesAre ==
  /\ BYTES_PER_LINE \in Nat \ {0} /\ BYTES_PER_LINE % 4 = 0 /\ LengthModulus \in Nat \ {0}
  /\ SizeofPtr \in Nat /\ PtrChars \in Nat
  /\ \E w \in Nat : BYTES_PER_LINE = 4 * w
<1>1. /\ BYTES_PER_LINE \in Nat \ {0} /\ BYTES_PER_LINE % 4 = 0 /\ LengthModulus \in Nat \ {0}
      /\ SizeofPtr \in Nat /\ PtrChars \in Nat
  BY DumpAssumption
<1>2. BYTES_PER_LINE \div 4 \in Nat /\ BYTES_PER_LINE = 4 * (BYTES_PER_LINE \div 4)
  <2>1. ASSUME NEW x \in Nat, x % 4 = 0
        PROVE  x \div 4 \in Nat /\ x = 4 * (x \div 4)
    BY <2>1
  <2> QED BY <1>1, <2>1
<1>3. \E w \in Nat : BYTES_PER_LINE = 4 * w
  <2> DEFINE w == BYTES_PER_LINE \div 4
  <2>1. w \in Nat /\ BYTES_PER_LINE = 4 * w
    BY <1>2
  <2> HIDE DEF w
  <2> QED BY <2>1
<1> QED BY <1>1, <1>3

(***************************************************************************)
(* Whole words: no less than the bytes, no more than a line.               *)
(***************************************************************************)
LEMMA WordsAre ==
  ASSUME NEW n \in 0 .. BYTES_PER_LINE
  PROVE  WordsOf(n) \in n .. BYTES_PER_LINE /\ WordsOf(n) <= n + 3
<1>1. PICK w \in Nat : BYTES_PER_LINE = 4 * w
  BY SizesAre
<1> DEFINE c == (n + 3) \div 4
<1>2. c \in Nat /\ 4 * c <= n + 3 /\ n <= 4 * c
  BY <1>1
<1> HIDE DEF c
<1>3. c <= w
  BY <1>1, <1>2
<1> QED BY <1>1, <1>2, <1>3 DEF WordsOf, c

(***************************************************************************)
(* How much of the buffer is shown: all of it when its length fits.        *)
(***************************************************************************)
LEMMA ShownIs ==
  ASSUME data \in Contents
  PROVE  /\ data \in Seq(Kinds) /\ Len(data) \in Nat
         /\ Shown \in 0 .. LengthModulus - 1 /\ Shown <= Len(data)
         /\ Len(data) < LengthModulus => Shown = Len(data)
<1>1. data \in Seq(Kinds) /\ Len(data) \in Nat /\ LengthModulus \in Nat \ {0}
  BY DumpAssumption
<1> DEFINE l == Len(data)
           m == LengthModulus
<1> HIDE DEF l, m
<1>2. \A a \in Nat, b \in Nat \ {0} : a % b \in 0 .. b - 1
  OBVIOUS
<1>3. \A a \in Nat, b \in Nat \ {0} : a % b <= a
  OBVIOUS
<1>4. \A a \in Nat, b \in Nat \ {0} : a < b => a % b = a
  OBVIOUS
<1> QED BY <1>1, <1>2, <1>3, <1>4 DEF Shown

(***************************************************************************)
(* The number of lines.                                                    *)
(***************************************************************************)
LEMMA LineCountIs ==
  ASSUME data \in Contents, NEW k \in Nat
  PROVE  /\ Shown = 0 => LineCount = 0
         /\ k * BYTES_PER_LINE < Shown /\ Shown <= k * BYTES_PER_LINE + BYTES_PER_LINE =>
              LineCount = k + 1
         /\ k * BYTES_PER_LINE + BYTES_PER_LINE < Shown => LineCount > k + 1
<1> DEFINE b == BYTES_PER_LINE
           s == Shown
           q == LineCount
<1>1. b \in Nat \ {0} /\ s \in Nat
  BY SizesAre, ShownIs
<1>2. q = (s + b - 1) \div b
  BY DEF LineCount
<1> HIDE DEF b, s, q
<1>3. q \in Nat /\ q * b <= s + b - 1 /\ s + b - 1 < q * b + b
  <2>1. \A x \in Nat, y \in Nat \ {0} : x \div y \in Nat /\ (x \div y) * y <= x /\ x < (x \div y) * y + y
    OBVIOUS
  <2>2. s + b - 1 \in Nat
    BY <1>1
  <2> QED BY <1>1, <1>2, <2>1, <2>2
<1>4. \A i, j \in Nat : i < j => i * b + b <= j * b
  <2> SUFFICES ASSUME NEW i \in Nat, NEW j \in Nat, i < j PROVE i * b + b <= j * b
    OBVIOUS
  <2>1. PICK d \in Nat : j = i + 1 + d
    <3>1. j - i - 1 \in Nat /\ j = i + 1 + (j - i - 1)
      OBVIOUS
    <3> QED BY <3>1
  <2>2. j * b = i * b + b + d * b /\ d * b \in Nat /\ i * b \in Nat
    BY <1>1, <2>1
  <2> QED BY <1>1, <2>2
<1>5. k * b \in Nat /\ q * b \in Nat /\ (k + 1) * b = k * b + b /\ 0 * b = 0
  BY <1>1, <1>3
<1>6. s = 0 => q = 0
  <2>1. s = 0 /\ q > 0 => 0 * b + b <= q * b
    BY <1>3, <1>4
  <2> QED BY <1>1, <1>3, <1>5, <2>1
<1>7. ASSUME k * b < s, s <= k * b + b
      PROVE  q = k + 1
  <2>1. ~(q < k + 1)
    <3>1. q < k + 1 => q * b + b <= (k + 1) * b
      BY <1>3, <1>4
    <3> QED BY <1>1, <1>3, <1>5, <1>7, <3>1
  <2>2. ~(k + 1 < q)
    <3>1. k + 1 < q => (k + 1) * b + b <= q * b
      BY <1>3, <1>4
    <3> QED BY <1>1, <1>3, <1>5, <1>7, <3>1
  <2> QED BY <1>3, <2>1, <2>2
<1>8. ASSUME k * b + b < s
      PROVE  q > k + 1
  <2>1. ~(q < k + 1)
    <3>1. q < k + 1 => q * b + b <= (k + 1) * b
      BY <1>3, <1>4
    <3> QED BY <1>1, <1>3, <1>5, <1>8, <3>1
  <2>2. q # k + 1
    BY <1>1, <1>3, <1>5, <1>8
  <2> QED BY <1>3, <2>1, <2>2
<1> QED BY <1>6, <1>7, <1>8 DEF b, s, q

-----------------------------------------------------------------------------
(* One round of the loop *)

\* Where the loop is in the buffer.
Position ==
  /\ buffer_ptr + buff_len = Shown
  /\ buff_len > 0 => buffer_ptr = Len(lines) * BYTES_PER_LINE
  /\ buff_len = 0 => Len(lines) = LineCount

\* n bytes of the buffer, and what a line shows of them.
Bytes(first, n) == [i \in 1 .. n |-> Byte(first + i - 1)]
LineOf(s, first) ==
  CASE format = "hex"  -> s
    [] format = "char" -> UpToNul(s)
    [] format = "hexdump" ->
         [offset |-> first, bytes |-> s, chars |-> [i \in 1 .. Len(s) |-> Graphic(s[i])]]

LineType == IF format = "hexdump" THEN HexdumpLines ELSE Seq(Cells)

(***************************************************************************)
(* The bytes of the caller are cells, and none is the end of a string the  *)
(* code wrote.                                                             *)
(***************************************************************************)
LEMMA BytesAre ==
  ASSUME data \in Contents, NEW i \in Nat
  PROVE  /\ Byte(i) \in Cells
         /\ i < Len(data) => Byte(i) # EndOfString
<1>1. data \in Seq(Kinds)
  BY ShownIs
<1>2. i < Len(data) => data[i + 1] \in Kinds
  BY <1>1
<1> QED BY <1>2 DEF Byte, Cells, EndOfString

(***************************************************************************)
(* A round takes the bytes of one line, not past the end of the buffer.    *)
(***************************************************************************)
LEMMA RoundTakes ==
  ASSUME TypeOK, Position, Round
  PROVE  /\ BytesCurLine \in 1 .. BYTES_PER_LINE /\ BytesCurLine <= buff_len
         /\ buff_len > BYTES_PER_LINE => BytesCurLine = BYTES_PER_LINE
         /\ buff_len <= BYTES_PER_LINE => BytesCurLine = buff_len
         /\ buffer_ptr + BytesCurLine <= Len(data) /\ WordsOf(BytesCurLine) \in Nat
         /\ temp_buffer' \in [0 .. BYTES_PER_LINE + 2 -> Cells]
         /\ \A i \in 0 .. BytesCurLine - 1 : temp_buffer'[i] = Byte(buffer_ptr + i)
<1> DEFINE n == BytesCurLine
<1>1. /\ n \in 1 .. BYTES_PER_LINE /\ n <= buff_len
      /\ buff_len > BYTES_PER_LINE => n = BYTES_PER_LINE
      /\ buff_len <= BYTES_PER_LINE => n = buff_len
  BY SizesAre DEF TypeOK, Round, BytesCurLine
<1> HIDE DEF n
<1>2. buffer_ptr + n <= Len(data)
  BY <1>1, ShownIs DEF TypeOK, Position
<1>3. WordsOf(n) \in n .. BYTES_PER_LINE /\ WordsOf(n) \in Nat
  BY <1>1, SizesAre, WordsAre
<1>4. temp_buffer' = [i \in 0 .. BYTES_PER_LINE + 2 |->
                        IF i < WordsOf(n) THEN Byte(buffer_ptr + i) ELSE temp_buffer[i]]
  BY DEF TypeOK, Round, Copy, n
<1>5. \A i \in 0 .. BYTES_PER_LINE + 2 : Byte(buffer_ptr + i) \in Cells /\ temp_buffer[i] \in Cells
  BY SizesAre, BytesAre DEF TypeOK
<1>6. temp_buffer' \in [0 .. BYTES_PER_LINE + 2 -> Cells]
  BY <1>4, <1>5
<1>7. \A i \in 0 .. n - 1 : temp_buffer'[i] = Byte(buffer_ptr + i)
  BY <1>1, <1>3, <1>4, SizesAre
<1> QED BY <1>1, <1>2, <1>3, <1>6, <1>7 DEF n

(***************************************************************************)
(* The string a line is formatted into.                                    *)
(***************************************************************************)
LEMMA TerminatedIs ==
  ASSUME TypeOK, NEW cells \in [0 .. BYTES_PER_LINE + 2 -> Cells], NEW n \in 1 .. BYTES_PER_LINE
  PROVE  /\ Terminated(cells, n) \in [0 .. BYTES_PER_LINE -> Cells]
         /\ \A i \in 0 .. n - 1 : Terminated(cells, n)[i] = cells[i]
         /\ Terminated(cells, n)[n] = EndOfString
<1>1. DOMAIN text = 0 .. BYTES_PER_LINE /\ \A i \in 0 .. BYTES_PER_LINE : text[i] \in Cells
  BY DEF TypeOK
<1>2. EndOfString \in Cells /\ \A i \in 0 .. BYTES_PER_LINE : cells[i] \in Cells
  BY SizesAre DEF Cells
<1>3. Terminated(cells, n) =
        [i \in 0 .. BYTES_PER_LINE |->
           CASE i < n -> cells[i] [] i = n -> EndOfString [] i > n -> text[i]]
  BY <1>1 DEF Terminated
<1>4. \A i \in 0 .. BYTES_PER_LINE : i < n \/ i = n \/ i > n
  BY SizesAre
<1> QED BY <1>1, <1>2, <1>3, <1>4, SizesAre

(***************************************************************************)
(* "%s" prints up to the first cell that ends the string.                  *)
(***************************************************************************)
LEMMA PrintedIs ==
  ASSUME NEW cells, NEW ends \in SUBSET Nat, NEW stop \in ends, \A j \in ends : stop <= j
  PROVE  Printed(cells, ends) = [i \in 1 .. stop |-> cells[i - 1]]
<1> DEFINE first == CHOOSE i \in ends : \A j \in ends : i <= j
<1>1. first \in ends /\ \A j \in ends : first <= j
  OBVIOUS
<1> HIDE DEF first
<1>2. stop <= first /\ first <= stop /\ first \in Nat /\ stop \in Nat
  BY <1>1
<1>3. first = stop
  BY <1>2
<1> QED BY <1>3 DEF Printed, first

(***************************************************************************)
(* The first cell that ends the string.                                    *)
(***************************************************************************)
LEMMA FirstEnd ==
  ASSUME NEW ends, ends \subseteq Nat, ends # {}
  PROVE  \E stop \in ends : \A j \in ends : stop <= j
<1>1. PICK stop \in ends : \A j \in ends : ~(<<j, stop>> \in OpToRel(<, Nat))
  BY NatLessThanWellFounded, WFMin
<1>2. \A j \in ends : ~(j < stop)
  BY <1>1 DEF OpToRel
<1>3. \A j \in ends : stop <= j
  BY <1>2
<1> QED BY <1>3

(***************************************************************************)
(* The round writes one line, and it shows the bytes at buffer_ptr.        *)
(***************************************************************************)
LEMMA LineIs ==
  ASSUME TypeOK, Position, Round
  PROVE  /\ lines' = Append(lines, LineOf(Bytes(buffer_ptr, BytesCurLine), buffer_ptr))
         /\ LineOf(Bytes(buffer_ptr, BytesCurLine), buffer_ptr) \in LineType
         /\ text' \in [0 .. BYTES_PER_LINE -> Cells]
         /\ printed' \in Nat
         /\ format # "hexdump" => printed' <= SizeOf
<1> DEFINE n == BytesCurLine
           s == Bytes(buffer_ptr, n)
<1>1. /\ n \in 1 .. BYTES_PER_LINE /\ buffer_ptr + n <= Len(data) /\ buffer_ptr \in Nat
      /\ temp_buffer' \in [0 .. BYTES_PER_LINE + 2 -> Cells]
      /\ \A i \in 0 .. n - 1 : temp_buffer'[i] = Byte(buffer_ptr + i)
  BY RoundTakes DEF TypeOK
<1>2. Line(n) /\ format \in Formats /\ data \in Contents /\ Len(data) \in Nat
  BY ShownIs DEF Round, TypeOK
<1> HIDE DEF n
<1>3. BYTES_PER_LINE \in Nat /\ n \in Nat
  BY <1>1, SizesAre
<1>4. /\ s \in [1 .. n -> Cells] /\ Len(s) = n /\ s \in Seq(Cells)
      /\ \A i \in 1 .. n : /\ s[i] = temp_buffer'[i - 1] /\ s[i] \in Cells
                           /\ s[i] # EndOfString
  <2>1. ASSUME NEW i \in 1 .. n
        PROVE  /\ s[i] = temp_buffer'[i - 1] /\ s[i] \in Cells /\ s[i] # EndOfString
    <3>1. /\ s[i] = Byte(buffer_ptr + i - 1) /\ i - 1 \in 0 .. n - 1
          /\ buffer_ptr + (i - 1) = buffer_ptr + i - 1
          /\ buffer_ptr + i - 1 \in Nat /\ buffer_ptr + i - 1 < Len(data)
      BY <1>1, <1>2, <1>3 DEF Bytes
    <3>2. temp_buffer'[i - 1] = Byte(buffer_ptr + i - 1)
      BY <1>1, <3>1
    <3> QED BY <1>2, <3>1, <3>2, BytesAre
  <2>2. s = [i \in 1 .. n |-> s[i]]
    BY DEF Bytes
  <2> HIDE DEF s
  <2>3. s \in [1 .. n -> Cells]
    BY <2>1, <2>2
  <2>4. s \in Seq(Cells) /\ Len(s) = n
    BY <1>3, <2>3
  <2> QED BY <2>1, <2>3, <2>4
<1> HIDE DEF s
<1> DEFINE t == Terminated(temp_buffer', n)
<1>5. /\ t \in [0 .. BYTES_PER_LINE -> Cells] /\ t[n] = EndOfString
      /\ \A i \in 0 .. n - 1 : t[i] = temp_buffer'[i]
  BY <1>1, TerminatedIs
<1> HIDE DEF t
<1>6. \A i \in 1 .. n : t[i - 1] = s[i]
  <2>1. \A i \in 1 .. n : i - 1 \in 0 .. n - 1
    BY <1>3
  <2> QED BY <1>4, <1>5, <2>1
<1>7. \A i \in 0 .. n - 1 : t[i] = s[i + 1]
  <2>1. \A i \in 0 .. n - 1 : i + 1 \in 1 .. n /\ (i + 1) - 1 = i
    BY <1>3
  <2> QED BY <1>6, <2>1
<1>8. DOMAIN text = 0 .. BYTES_PER_LINE
  BY DEF TypeOK
<1>9. CASE format = "hex"
  <2>1. HexLine(n)
    BY <1>2, <1>9 DEF Line
  <2> DEFINE ends == {i \in 0 .. BYTES_PER_LINE : t[i] = EndOfString}
  <2>2. text' = t /\ printed' = 3 * n + 1 /\ lines' = Append(lines, Printed(t, ends))
    BY <1>8, <2>1 DEF HexLine, t
  <2>3. n \in ends /\ ends \in SUBSET Nat /\ \A j \in ends : n <= j
    <3>1. n \in 0 .. BYTES_PER_LINE /\ ends \subseteq Nat
      BY <1>1, <1>3
    <3>2. ASSUME NEW j \in ends, j < n
          PROVE  FALSE
      <4>1. j \in 0 .. n - 1 /\ j + 1 \in 1 .. n /\ t[j] = EndOfString
        BY <1>3, <3>2
      <4> QED BY <1>4, <1>7, <4>1
    <3> HIDE DEF ends
    <3>3. \A j \in ends : n <= j
      BY <1>3, <3>1, <3>2
    <3> QED BY <1>5, <3>1, <3>3 DEF ends
  <2> HIDE DEF ends
  <2>4. Printed(t, ends) = s
    <3>1. Printed(t, ends) = [i \in 1 .. n |-> t[i - 1]]
      BY <2>3, PrintedIs
    <3> QED BY <1>4, <1>6, <3>1
  <2>5. LineOf(s, buffer_ptr) = s /\ LineType = Seq(Cells)
    BY <1>9 DEF LineOf, LineType
  <2>6. printed' \in Nat /\ printed' <= SizeOf
    <3>1. SizeOf = 3 * BYTES_PER_LINE + 1
      BY <1>9 DEF SizeOf
    <3> QED BY <1>1, <1>3, <2>2, <3>1
  <2> QED BY <1>4, <1>5, <1>9, <2>2, <2>4, <2>5, <2>6 DEF n, s
<1>10. CASE format = "char"
  <2>1. CharLine(n)
    BY <1>2, <1>10 DEF Line
  <2> DEFINE ends == {i \in 0 .. BYTES_PER_LINE : t[i].kind = "nul"}
  <2>2. text' = t /\ printed' = n + 1 /\ lines' = Append(lines, Printed(t, ends))
    BY <1>8, <2>1 DEF CharLine, t
  <2>3. n \in ends /\ ends \subseteq Nat
    BY <1>1, <1>3, <1>5 DEF EndOfString
  <2>4. PICK stop \in ends : \A j \in ends : stop <= j
    BY <2>3, FirstEnd
  <2>5. stop \in 0 .. n
    BY <1>3, <2>3, <2>4
  <2>6. \A k \in 1 .. n : s[k].kind = "nul" <=> k - 1 \in ends
    BY <1>1, <1>3, <1>6
  <2>7. t[stop].kind = "nul"
    OBVIOUS
  <2> HIDE DEF ends
  <2>8. ASSUME NEW j \in 1 .. n
        PROVE  (\A k \in 1 .. j : s[k].kind # "nul") <=> j <= stop
    <3>1. ASSUME j <= stop, NEW k \in 1 .. j
          PROVE  s[k].kind # "nul"
      <4>1. k \in 1 .. n /\ k - 1 < stop
        BY <1>3, <2>5, <3>1
      <4>2. k - 1 \notin ends
        <5>1. k - 1 \in ends => stop <= k - 1
          BY <2>4
        <5> QED BY <2>5, <4>1, <5>1
      <4> QED BY <2>6, <4>1, <4>2
    <3>2. ASSUME ~(j <= stop)
          PROVE  \E k \in 1 .. j : s[k].kind = "nul"
      <4>1. stop + 1 \in 1 .. j /\ stop + 1 \in 1 .. n /\ (stop + 1) - 1 = stop
        BY <1>3, <2>5, <3>2
      <4> QED BY <2>4, <2>6, <4>1
    <3> QED BY <3>1, <3>2
  <2>9. Printed(t, ends) = UpToNul(s)
    <3>1. Printed(t, ends) = [i \in 1 .. stop |-> t[i - 1]]
      BY <2>3, <2>4, PrintedIs
    <3>2. {j \in 1 .. Len(s) : \A k \in 1 .. j : s[k].kind # "nul"} = 1 .. stop
      <4>1. \A j \in 1 .. n : j \in 1 .. stop <=> j <= stop
        BY <2>5
      <4>2. \A j \in 1 .. stop : j \in 1 .. n
        BY <1>3, <2>5
      <4> QED BY <1>4, <2>8, <4>1, <4>2
    <3>3. \A i \in 1 .. stop : t[i - 1] = s[i]
      BY <1>3, <1>6, <2>5
    <3> QED BY <3>1, <3>2, <3>3 DEF UpToNul
  <2>10. UpToNul(s) \in Seq(Cells)
    <3>1. stop \in Nat /\ \A i \in 1 .. stop : t[i - 1] \in Cells
      <4>1. stop \in Nat
        BY <1>3, <2>5
      <4>2. ASSUME NEW i \in 1 .. stop
            PROVE  t[i - 1] \in Cells
        <5>1. i \in 1 .. n
          BY <1>3, <2>5
        <5> QED BY <1>4, <1>6, <5>1
      <4> QED BY <4>1, <4>2
    <3>2. Printed(t, ends) = [i \in 1 .. stop |-> t[i - 1]]
      BY <2>3, <2>4, PrintedIs
    <3>3. Printed(t, ends) \in [1 .. stop -> Cells]
      BY <3>1, <3>2
    <3> QED BY <2>9, <3>1, <3>3
  <2>11. LineOf(s, buffer_ptr) = UpToNul(s) /\ LineType = Seq(Cells)
    BY <1>10 DEF LineOf, LineType
  <2>12. printed' \in Nat /\ printed' <= SizeOf
    <3>1. SizeOf = BYTES_PER_LINE + 1
      BY <1>10 DEF SizeOf
    <3> QED BY <1>1, <1>3, <2>2, <3>1
  <2> QED BY <1>5, <1>10, <2>2, <2>9, <2>10, <2>11, <2>12 DEF n, s
<1>11. CASE format = "hexdump"
  <2>1. HexdumpLine(n)
    BY <1>2, <1>11 DEF Line
  <2> DEFINE line == [offset |-> buffer_ptr,
                      bytes  |-> [i \in 1 .. n |-> temp_buffer'[i - 1]],
                      chars  |-> [i \in 1 .. n |-> Graphic(temp_buffer'[i - 1])]]
  <2>2. text' = text /\ printed' = HexdumpWidth(n) /\ lines' = Append(lines, line)
    BY <2>1 DEF HexdumpLine
  <2>3. /\ [i \in 1 .. n |-> temp_buffer'[i - 1]] = s
        /\ [i \in 1 .. n |-> Graphic(temp_buffer'[i - 1])] = [i \in 1 .. Len(s) |-> Graphic(s[i])]
    BY <1>4
  <2>4. line = LineOf(s, buffer_ptr)
    BY <1>11, <2>3 DEF LineOf
  <2>5. line \in HexdumpLines
    <3> DEFINE c == [i \in 1 .. n |-> Graphic(s[i])]
    <3>1. \A i \in 1 .. n : Graphic(s[i]) \in Cells
      BY <1>4 DEF Graphic, Dot, Cells
    <3>2. c \in [1 .. n -> Cells]
      BY <3>1
    <3>3. c \in Seq(Cells)
      BY <1>3, <3>2
    <3> HIDE DEF c
    <3>4. line = [offset |-> buffer_ptr, bytes |-> s, chars |-> c]
      BY <1>4, <2>3 DEF c
    <3> QED BY <1>1, <1>4, <3>3, <3>4 DEF HexdumpLines
  <2> HIDE DEF line
  <2>6. LineType = HexdumpLines
    BY <1>11 DEF LineType
  <2>7. printed' \in Nat
    <3> DEFINE w == (BYTES_PER_LINE + 7) \div 8
    <3>1. printed' = PtrChars + 11 + w + 3 * BYTES_PER_LINE + n + 5
      BY <2>2 DEF HexdumpWidth
    <3>2. w \in Nat
      BY SizesAre
    <3> HIDE DEF w
    <3> QED BY <1>1, <3>1, <3>2, SizesAre
  <2>8. text' \in [0 .. BYTES_PER_LINE -> Cells]
    BY <2>2 DEF TypeOK
  <2> QED BY <1>11, <2>2, <2>4, <2>5, <2>6, <2>7, <2>8 DEF n, s
<1> QED BY <1>2, <1>9, <1>10, <1>11 DEF Formats

-----------------------------------------------------------------------------
(* The invariant *)

\* The lines that were written show the buffer, each its own piece.
Pieces ==
  \A k \in 1 .. Len(lines) : lines[k] = LineOf(Piece(k), (k - 1) * BYTES_PER_LINE)

DumpInv == TypeOK /\ Position /\ Pieces /\ WritesFit /\ ReadsStayInLastWord

(***************************************************************************)
(* The bytes a round takes are the next piece of the buffer, and after it  *)
(* the loop is at the piece behind or at the end.                          *)
(***************************************************************************)
LEMMA PieceIsTaken ==
  ASSUME TypeOK, Position, Round
  PROVE  /\ Bytes(buffer_ptr, BytesCurLine) = Piece(Len(lines) + 1)
         /\ buffer_ptr = Len(lines) * BYTES_PER_LINE
         /\ buffer_ptr' = buffer_ptr + BytesCurLine
         /\ buff_len' = buff_len - BytesCurLine
         /\ buff_len' > 0 => buffer_ptr' = (Len(lines) + 1) * BYTES_PER_LINE
         /\ buff_len' = 0 => Len(lines) + 1 = LineCount
<1> DEFINE l == Len(lines)
           b == BYTES_PER_LINE
           n == BytesCurLine
           s == Shown
<1>1. /\ n \in 1 .. b /\ n <= buff_len
      /\ buff_len > b => n = b
      /\ buff_len <= b => n = buff_len
  BY RoundTakes
<1>2. l \in Nat
  BY LenProperties DEF TypeOK
<1>3. /\ buffer_ptr \in Nat /\ buff_len \in Nat /\ b \in Nat \ {0} /\ s \in Nat
      /\ buffer_ptr = l * b /\ buffer_ptr + buff_len = s /\ buff_len > 0
  BY SizesAre, ShownIs DEF TypeOK, Position, Round
<1>4. buffer_ptr' = buffer_ptr + n /\ buff_len' = buff_len - n
  BY DEF Round, Advance
<1>5. /\ l * b < s /\ s <= l * b + b => LineCount = l + 1
      /\ l * b + b < s => LineCount > l + 1
  BY <1>2, LineCountIs DEF TypeOK
<1>6. /\ Piece(l + 1) =
           [i \in 1 .. (IF l + 1 = LineCount THEN s ELSE (l + 1) * b) - ((l + 1) - 1) * b |->
              Byte(((l + 1) - 1) * b + i - 1)]
      /\ Bytes(buffer_ptr, n) = [i \in 1 .. n |-> Byte(buffer_ptr + i - 1)]
  BY DEF Piece, Bytes
<1> HIDE DEF l, b, n, s
<1>7. (l + 1) * b = l * b + b /\ ((l + 1) - 1) * b = l * b /\ l * b \in Nat
  BY <1>2, <1>3
<1>8. CASE buff_len > b
  <2>1. n = b /\ l + 1 # LineCount
    BY <1>1, <1>2, <1>3, <1>5, <1>7, <1>8
  <2>2. Piece(l + 1) = [i \in 1 .. b |-> Byte(buffer_ptr + i - 1)]
    BY <1>3, <1>6, <1>7, <2>1
  <2>3. buff_len' > 0 /\ buffer_ptr' = (l + 1) * b
    BY <1>3, <1>4, <1>7, <1>8, <2>1
  <2> QED BY <1>3, <1>4, <1>6, <2>1, <2>2, <2>3 DEF b, l, n
<1>9. CASE buff_len <= b
  <2>1. n = buff_len /\ LineCount = l + 1
    BY <1>1, <1>3, <1>5, <1>7, <1>9
  <2>2. s - l * b = n
    BY <1>3, <1>7, <2>1
  <2>3. Piece(l + 1) = [i \in 1 .. n |-> Byte(buffer_ptr + i - 1)]
    BY <1>3, <1>6, <1>7, <2>1, <2>2
  <2>4. buff_len' = 0
    BY <1>3, <1>4, <2>1
  <2> QED BY <1>3, <1>4, <1>6, <2>1, <2>3, <2>4 DEF b, l, n
<1> QED BY <1>3, <1>8, <1>9

(***************************************************************************)
(* The copy stops in the word that holds the last byte of the line: this   *)
(* needs every line to be whole words.                                     *)
(***************************************************************************)
LEMMA CopyStops ==
  ASSUME TypeOK, Position, Round
  PROVE  /\ copied' \in Nat /\ copied' <= BYTES_PER_LINE + 3
         /\ readTo' \in Nat /\ (readTo' - 1) \div 4 <= (Len(data) - 1) \div 4
<1> DEFINE l == Len(lines)
           n == BytesCurLine
           d == Len(data)
           c == (n + 3) \div 4
<1>1. PICK w \in Nat : BYTES_PER_LINE = 4 * w
  BY SizesAre
<1>2. /\ n \in 1 .. BYTES_PER_LINE /\ buffer_ptr + n <= d
      /\ buffer_ptr = l * BYTES_PER_LINE
  BY RoundTakes, PieceIsTaken
<1>3. l \in Nat /\ d \in Nat
  BY LenProperties, ShownIs DEF TypeOK
<1>4. copied' = 4 * c /\ readTo' = buffer_ptr + 4 * c
  BY DEF Round, Copy, WordsOf
<1>5. WordsOf(n) = 4 * c
  BY DEF WordsOf
<1> HIDE DEF n, l, d
<1>6. n \in Nat /\ c \in Nat /\ 4 * c <= n + 3 /\ n <= 4 * c
  BY <1>1, <1>2
<1> HIDE DEF c
<1> DEFINE p == w * l
<1>7. p \in Nat /\ buffer_ptr = 4 * p
  BY <1>1, <1>2, <1>3
<1> HIDE DEF p
<1>8. c >= 1
  BY <1>2, <1>6
<1>9. readTo' - 1 = 4 * (p + c - 1) + 3 /\ p + c - 1 \in Nat
  BY <1>4, <1>6, <1>7, <1>8
<1>10. (readTo' - 1) \div 4 = p + c - 1
  <2>1. \A x \in Nat : (4 * x + 3) \div 4 = x
    OBVIOUS
  <2> QED BY <1>9, <2>1
<1>11. d - 1 \in Nat /\ 4 * (p + c - 1) <= d - 1
  BY <1>2, <1>3, <1>6, <1>7, <1>8
<1>12. p + c - 1 <= (d - 1) \div 4
  <2>1. \A x, y \in Nat : 4 * x <= y => x <= y \div 4
    OBVIOUS
  <2> QED BY <1>9, <1>11, <2>1
<1>13. copied' <= BYTES_PER_LINE + 3 /\ copied' \in Nat /\ readTo' \in Nat
  BY <1>1, <1>2, <1>4, <1>6, <1>7
<1> QED BY <1>10, <1>12, <1>13 DEF d

(***************************************************************************)
(* The invariant holds before the first round.                             *)
(***************************************************************************)
LEMMA DumpInvInit == Init => DumpInv
<1> SUFFICES ASSUME Init PROVE DumpInv
  OBVIOUS
<1>1. /\ Shown \in 0 .. LengthModulus - 1 /\ BYTES_PER_LINE \in Nat
      /\ Shown = 0 => LineCount = 0
  BY SizesAre, ShownIs, LineCountIs DEF Init
<1>2. TypeOK
  BY <1>1 DEF Init, TypeOK, Cells
<1>3. Position
  BY <1>1 DEF Init, Position
<1>4. WritesFit
  <2>1. CASE format = "hex"
    BY <1>1, <2>1 DEF Init, WritesFit, SizeOf
  <2>2. CASE format = "char"
    BY <1>1, <2>2 DEF Init, WritesFit, SizeOf
  <2>3. CASE format = "hexdump"
    BY <1>1, <2>3 DEF Init, WritesFit
  <2> QED BY <2>1, <2>2, <2>3 DEF Init, Formats
<1> QED BY <1>2, <1>3, <1>4 DEF Init, Pieces, ReadsStayInLastWord, DumpInv

(***************************************************************************)
(* Every round keeps the invariant.                                        *)
(***************************************************************************)
LEMMA DumpInvRound == ASSUME DumpInv, Round PROVE DumpInv'
<1> DEFINE n == BytesCurLine
           s == Bytes(buffer_ptr, n)
           line == LineOf(s, buffer_ptr)
<1>1. TypeOK /\ Position /\ Pieces
  BY DEF DumpInv
<1>2. format' = format /\ data' = data
  BY DEF Round
<1>3. /\ Shown' = Shown /\ LineCount' = LineCount /\ SizeOf' = SizeOf
      /\ \A k : Piece(k)' = Piece(k)
  BY <1>2 DEF Shown, LineCount, SizeOf, Piece, Byte
<1>4. /\ lines' = Append(lines, line) /\ line \in LineType
      /\ text' \in [0 .. BYTES_PER_LINE -> Cells]
      /\ printed' \in Nat
      /\ format # "hexdump" => printed' <= SizeOf
  BY <1>1, LineIs
<1>5. lines \in Seq(LineType)
  BY <1>1 DEF TypeOK, LineType
<1>6. /\ lines' \in Seq(LineType) /\ Len(lines') = Len(lines) + 1 /\ Len(lines) \in Nat
      /\ \A k \in 1 .. Len(lines) : lines'[k] = lines[k]
      /\ lines'[Len(lines) + 1] = line
  <2> HIDE DEF line
  <2> QED BY <1>4, <1>5, LenProperties, AppendProperties
<1>7. /\ n \in 1 .. BYTES_PER_LINE /\ n <= buff_len
      /\ temp_buffer' \in [0 .. BYTES_PER_LINE + 2 -> Cells]
  BY <1>1, RoundTakes
<1>8. /\ s = Piece(Len(lines) + 1) /\ buffer_ptr = Len(lines) * BYTES_PER_LINE
      /\ buffer_ptr' = buffer_ptr + n /\ buff_len' = buff_len - n
      /\ buff_len' > 0 => buffer_ptr' = (Len(lines) + 1) * BYTES_PER_LINE
      /\ buff_len' = 0 => Len(lines) + 1 = LineCount
  BY <1>1, PieceIsTaken
<1>9. /\ copied' \in Nat /\ copied' <= BYTES_PER_LINE + 3
      /\ readTo' \in Nat /\ (readTo' - 1) \div 4 <= (Len(data) - 1) \div 4
  BY <1>1, CopyStops
<1>10. /\ format \in Formats /\ data \in Contents
       /\ buffer_ptr \in Nat /\ buff_len \in 0 .. LengthModulus - 1 /\ LengthModulus \in Nat
       /\ buffer_ptr + buff_len = Shown /\ Shown \in Nat
  BY <1>1, SizesAre, ShownIs DEF TypeOK, Position
<1> HIDE DEF n, line
<1>11. TypeOK'
  <2>1. buffer_ptr' \in Nat /\ buff_len' \in 0 .. LengthModulus - 1
    BY <1>7, <1>8, <1>10, SizesAre
  <2>2. lines' \in Seq(IF format' = "hexdump" THEN HexdumpLines ELSE Seq(Cells))
    BY <1>2, <1>6 DEF LineType
  <2> QED BY <1>2, <1>4, <1>7, <1>9, <1>10, <2>1, <2>2 DEF TypeOK
<1>12. Position'
  <2>1. buffer_ptr' + buff_len' = Shown
    BY <1>7, <1>8, <1>10, SizesAre
  <2> QED BY <1>3, <1>6, <1>8, <2>1 DEF Position
<1>13. Pieces'
  <2> SUFFICES ASSUME NEW k \in 1 .. Len(lines')
               PROVE  lines'[k] = LineOf(Piece(k), (k - 1) * BYTES_PER_LINE)
    BY <1>2, <1>3 DEF Pieces, LineOf
  <2>1. CASE k \in 1 .. Len(lines)
    BY <1>1, <1>6, <2>1 DEF Pieces
  <2>2. CASE k = Len(lines) + 1
    <3>1. (k - 1) = Len(lines)
      BY <1>6, <2>2
    <3> QED BY <1>6, <1>8, <2>2, <3>1 DEF line
  <2> QED BY <1>6, <2>1, <2>2
<1>14. WritesFit'
  BY <1>2, <1>3, <1>4, <1>9 DEF WritesFit
<1>15. ReadsStayInLastWord'
  BY <1>2, <1>9 DEF ReadsStayInLastWord
<1> QED BY <1>11, <1>12, <1>13, <1>14, <1>15 DEF DumpInv

(***************************************************************************)
(* The invariant holds at all times.                                       *)
(***************************************************************************)
LEMMA DumpInvHolds == Spec => []DumpInv
<1>1. ASSUME DumpInv, [Next]_vars
      PROVE  DumpInv'
  <2>1. CASE Round
    BY <1>1, <2>1, DumpInvRound
  <2>2. CASE UNCHANGED vars
    <3>1. /\ format' = format /\ data' = data /\ lines' = lines
          /\ buffer_ptr' = buffer_ptr /\ buff_len' = buff_len
      BY <2>2 DEF vars
    <3>2. /\ Shown' = Shown /\ LineCount' = LineCount /\ SizeOf' = SizeOf
          /\ \A k : Piece(k)' = Piece(k)
      BY <3>1 DEF Shown, LineCount, SizeOf, Piece, Byte, LineOf
    <3>3. TypeOK' /\ Position'
      BY <1>1, <2>2, <3>2 DEF vars, DumpInv, TypeOK, Position
    <3>4. Pieces'
      <4> SUFFICES ASSUME NEW k \in 1 .. Len(lines)
                   PROVE  lines[k] = LineOf(Piece(k), (k - 1) * BYTES_PER_LINE)
        BY <3>1, <3>2 DEF Pieces, LineOf
      <4> QED BY <1>1 DEF DumpInv, Pieces
    <3>5. WritesFit' /\ ReadsStayInLastWord'
      BY <1>1, <2>2, <3>2 DEF vars, DumpInv, WritesFit, ReadsStayInLastWord
    <3> QED BY <3>3, <3>4, <3>5 DEF DumpInv
  <2> QED BY <1>1, <2>1, <2>2 DEF Next
<1> QED BY DumpInvInit, <1>1, PTL DEF Spec

-----------------------------------------------------------------------------
(* What a dump shows and where it writes *)

(***************************************************************************)
(* The types of the variables.                                             *)
(***************************************************************************)
THEOREM DumpTypes == Spec => []TypeOK
<1>1. DumpInv => TypeOK
  BY DEF DumpInv
<1> QED BY DumpInvHolds, <1>1, PTL

(***************************************************************************)
(* log_buffer_hex, log_buffer_char and log_buffer_hexdump show the buffer: *)
(* every byte once, in order and under its offset, and nothing else, for   *)
(* every buffer and every length of the line.                              *)
(***************************************************************************)
THEOREM DumpShowsBuffer == Spec => []LinesShowBuffer
<1>1. DumpInv => LinesShowBuffer
  <2> SUFFICES ASSUME DumpInv PROVE LinesShowBuffer
    OBVIOUS
  <2>1. /\ format \in Formats
        /\ \A k \in 1 .. Len(lines) : lines[k] = LineOf(Piece(k), (k - 1) * BYTES_PER_LINE)
    BY DEF DumpInv, TypeOK, Pieces
  <2>2. buff_len = 0 => /\ Len(lines) = LineCount
                        /\ Len(data) < LengthModulus => buffer_ptr = Len(data)
    <3>1. buff_len = 0 => Len(lines) = LineCount /\ buffer_ptr = Shown
      BY ShownIs DEF DumpInv, TypeOK, Position
    <3> QED BY <3>1, ShownIs DEF DumpInv, TypeOK
  <2> QED BY <2>1, <2>2 DEF LinesShowBuffer, LineOf, Formats
<1> QED BY DumpInvHolds, <1>1, PTL

(***************************************************************************)
(* The memcpy of every dump stays inside temp_buffer, and the sprintfs of  *)
(* log_buffer_hex and log_buffer_char inside hex_buffer and char_buffer,   *)
(* for lines of any number of words.                                       *)
(***************************************************************************)
THEOREM DumpWritesFit == Spec => []WritesFit
<1>1. DumpInv => WritesFit
  BY DEF DumpInv
<1> QED BY DumpInvHolds, <1>1, PTL

(***************************************************************************)
(* The copy in whole words reads no word behind the caller's buffer.       *)
(***************************************************************************)
THEOREM DumpReadsStay == Spec => []ReadsStayInLastWord
<1>1. DumpInv => ReadsStayInLastWord
  BY DEF DumpInv
<1> QED BY DumpInvHolds, <1>1, PTL
=============================================================================
