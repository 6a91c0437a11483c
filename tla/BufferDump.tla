------------------------------ MODULE BufferDump ------------------------------
(***************************************************************************)
(* log_buffer_hex_internal, log_buffer_char_internal and                   *)
(* log_buffer_hexdump_internal of log.c: one call that cuts a buffer into  *)
(* lines.  Every step is one round of the do-while loop: copy up to        *)
(* BYTES_PER_LINE bytes, whole words at a time, format them in a buffer on *)
(* the stack, hand the line to log_write, advance.  A cell of memory holds *)
(* the position and the kind of a byte, or is Unset where nothing of the   *)
(* caller's was ever stored.                                               *)
(***************************************************************************)
EXTENDS Integers, Sequences

CONSTANTS
  BYTES_PER_LINE,
  LengthModulus,  \* 2^16 in the code: buff_len is a uint16_t
  SizeofPtr,      \* sizeof(void *)
  PtrChars,       \* how many characters "%p" prints: the C library decides
  Contents        \* the caller's buffers: sequences over Kinds

\* "other" is a byte isprint says no to.  A byte above 127 reaches isprint as a
\* negative int, where C promises nothing: the library's answer, either one,
\* makes it "graphic" or "other".
Kinds == {"graphic", "other", "nul"}

ASSUME DumpAssumption ==
  /\ BYTES_PER_LINE \in Nat \ {0} /\ BYTES_PER_LINE % 4 = 0
  /\ Contents \subseteq Seq(Kinds) /\ LengthModulus \in Nat \ {0}
  /\ SizeofPtr \in Nat /\ PtrChars \in Nat

VARIABLES
  format,         \* which of the three functions is running
  data,           \* the caller's buffer
  buffer_ptr,     \* as an offset from its first byte
  buff_len,       \* the bytes that are left
  temp_buffer,
  text,           \* hex_buffer or char_buffer, a cell for each byte shown
  copied,         \* how many bytes the last memcpy took
  readTo,         \* the offset it read up to
  printed,        \* how many characters the last line took, its NUL included
  lines           \* what log_write was given so far

vars == <<format, data, buffer_ptr, buff_len, temp_buffer, text,
          copied, readTo, printed, lines>>

Formats == {"hex", "char", "hexdump"}
Unset == [at |-> -1, kind |-> "unset"]
EndOfString == [at |-> -1, kind |-> "nul"]
Dot == [at |-> -1, kind |-> "graphic"]

Cells == [at : Nat, kind : Kinds] \cup {Unset, EndOfString, Dot}
HexdumpLines == [offset : Nat, bytes : Seq(Cells), chars : Seq(Cells)]

TypeOK ==
  /\ format \in Formats
  /\ data \in Contents
  /\ buffer_ptr \in Nat /\ buff_len \in 0 .. LengthModulus - 1
  /\ temp_buffer \in [0 .. BYTES_PER_LINE + 2 -> Cells]
  /\ text \in [0 .. BYTES_PER_LINE -> Cells]
  /\ copied \in Nat /\ readTo \in Nat /\ printed \in Nat
  /\ lines \in Seq(IF format = "hexdump" THEN HexdumpLines ELSE Seq(Cells))

\* What the call makes of the caller's size_t or int.
Shown == Len(data) % LengthModulus

Init ==
  /\ format \in Formats
  /\ data \in Contents
  /\ buffer_ptr = 0
  /\ buff_len = Shown
  /\ temp_buffer = [i \in 0 .. BYTES_PER_LINE + 2 |-> Unset]
  /\ text = [i \in 0 .. BYTES_PER_LINE |-> Unset]
  /\ copied = 0 /\ readTo = 0 /\ printed = 0
  /\ lines = <<>>

-----------------------------------------------------------------------------
(* The copy *)

\* Mutant of BytesCurLine: the last line is not shortened.
FullLine == BYTES_PER_LINE

\* bytes_cur_line
BytesCurLine == IF buff_len > BYTES_PER_LINE THEN BYTES_PER_LINE ELSE buff_len

\* Mutant of WordsOf: rounded down to whole words.
WholeWordsOf(n) == 4 * (n \div 4)

\* Mutant of WordsOf: one word more when n is a multiple of four.
WordPast(n) == 4 * ((n + 4) \div 4)

WordsOf(n) == 4 * ((n + 3) \div 4)

\* The byte at an offset; past the end there is whatever lies there.
Byte(i) == IF i < Len(data) THEN [at |-> i, kind |-> data[i + 1]] ELSE Unset

\* memcpy into temp_buffer: what lies behind the copied bytes stays.
Copy(n) ==
  /\ temp_buffer' = [i \in DOMAIN temp_buffer |->
                       IF i < WordsOf(n) THEN Byte(buffer_ptr + i) ELSE temp_buffer[i]]
  /\ copied' = WordsOf(n)
  /\ readTo' = buffer_ptr + WordsOf(n)

-----------------------------------------------------------------------------
(* The line *)

\* Mutant of Terminated: the string ends where a full line does.
TerminatedAtFullLine(cells, n) ==
  [i \in DOMAIN text |->
     CASE i < n -> cells[i] [] i = BYTES_PER_LINE -> EndOfString [] OTHER -> text[i]]

\* The sprintf of a byte also ends the string behind it; the cells behind that
\* keep what an earlier, longer line left there.
Terminated(cells, n) ==
  [i \in DOMAIN text |->
     CASE i < n -> cells[i] [] i = n -> EndOfString [] i > n -> text[i]]

\* What "%s" prints of a buffer in which some cells end the string.
Printed(cells, ends) ==
  LET stop == CHOOSE i \in ends : \A j \in ends : i <= j
  IN  [i \in 1 .. stop |-> cells[i - 1]]

\* "%02x " of every byte: no digit is NUL, only the terminator ends the string.
HexLine(n) ==
  /\ text' = Terminated(temp_buffer', n)
  /\ printed' = 3 * n + 1
  /\ lines' = Append(lines,
                Printed(text', {i \in DOMAIN text : text'[i] = EndOfString}))

\* "%c" of every byte: a NUL of the caller's ends the string early.
CharLine(n) ==
  /\ text' = Terminated(temp_buffer', n)
  /\ printed' = n + 1
  /\ lines' = Append(lines,
                Printed(text', {i \in DOMAIN text : text'[i].kind = "nul"}))

\* "%p (%08X)", a blank before each group of eight, three characters for every
\* byte or its padding, "  |", the characters, "|" and the terminator.
HexdumpWidth(n) ==
  PtrChars + 11 + (BYTES_PER_LINE + 7) \div 8 + 3 * BYTES_PER_LINE + n + 5

Graphic(cell) == IF cell.kind = "graphic" THEN cell ELSE Dot

\* hd_buffer is filled from its start each time: nothing of an earlier line is
\* in it.
HexdumpLine(n) ==
  /\ printed' = HexdumpWidth(n)
  /\ lines' = Append(lines,
                [offset |-> buffer_ptr,
                 bytes  |-> [i \in 1 .. n |-> temp_buffer'[i - 1]],
                 chars  |-> [i \in 1 .. n |-> Graphic(temp_buffer'[i - 1])]])
  /\ UNCHANGED text

Line(n) ==
  \/ format = "hex" /\ HexLine(n)
  \/ format = "char" /\ CharLine(n)
  \/ format = "hexdump" /\ HexdumpLine(n)

-----------------------------------------------------------------------------
(* The loop *)

\* Mutant of Advance: the length is not reduced.
AdvancePointer(n) ==
  /\ buffer_ptr' = buffer_ptr + n
  /\ UNCHANGED buff_len

Advance(n) ==
  /\ buffer_ptr' = buffer_ptr + n
  /\ buff_len' = buff_len - n

\* Mutant of Round: the loop ends when at most one byte is left.
RoundForTwo ==
  /\ buff_len > 1
  /\ Copy(BytesCurLine)
  /\ Line(BytesCurLine)
  /\ Advance(BytesCurLine)
  /\ UNCHANGED <<format, data>>

Round ==
  /\ buff_len > 0
  /\ Copy(BytesCurLine)
  /\ Line(BytesCurLine)
  /\ Advance(BytesCurLine)
  /\ UNCHANGED <<format, data>>

Next == Round

\* The loop is the caller's own: it runs on unless the program stops.
Spec == Init /\ [][Next]_vars /\ WF_vars(Next)

-----------------------------------------------------------------------------
(* Properties *)

LineCount == (Shown + BYTES_PER_LINE - 1) \div BYTES_PER_LINE

\* The bytes of line k: the k-th piece of the buffer.
Piece(k) ==
  LET first == (k - 1) * BYTES_PER_LINE
      last  == IF k = LineCount THEN Shown ELSE k * BYTES_PER_LINE
  IN  [i \in 1 .. last - first |-> Byte(first + i - 1)]

\* What stands before the first NUL.
UpToNul(s) ==
  [i \in {j \in 1 .. Len(s) : \A k \in 1 .. j : s[k].kind # "nul"} |-> s[i]]

(***************************************************************************)
(* The lines are the buffer: each byte once, in order, under its offset,   *)
(* and nothing that is not in the buffer, neither what an earlier line     *)
(* left in the buffers nor what the rounded-up copy fetched.  Only the     *)
(* character dump may show less: a line ends at its first NUL byte.  When  *)
(* the loop ends every piece has its line: all of the buffer if its length *)
(* fits 16 bits, else only the first bytes, as many as are left of the     *)
(* length.                                                                 *)
(***************************************************************************)
LinesShowBuffer ==
  /\ \A k \in 1 .. Len(lines) :
       lines[k] = CASE format = "hex"  -> Piece(k)
                    [] format = "char" -> UpToNul(Piece(k))
                    [] format = "hexdump" ->
                         [offset |-> (k - 1) * BYTES_PER_LINE,
                          bytes  |-> Piece(k),
                          chars  |-> [i \in 1 .. Len(Piece(k)) |-> Graphic(Piece(k)[i])]]
  /\ buff_len = 0 => /\ Len(lines) = LineCount
                     /\ Len(data) < LengthModulus => buffer_ptr = Len(data)

SizeOf ==
  CASE format = "hex"  -> 3 * BYTES_PER_LINE + 1
    [] format = "char" -> BYTES_PER_LINE + 1
    [] format = "hexdump" ->
         SizeofPtr + 3 + 10 + 3 + BYTES_PER_LINE * 3 + 3 + 1 + BYTES_PER_LINE + 1 + 3

(***************************************************************************)
(* memcpy stays inside temp_buffer, although it takes whole words, and the *)
(* bytes of a line with the NUL inside hex_buffer and char_buffer.         *)
(***************************************************************************)
WritesFit ==
  /\ copied <= BYTES_PER_LINE + 3
  /\ format # "hexdump" => printed <= SizeOf

(***************************************************************************)
(* A line of the hexdump stays inside hd_buffer, whose size is the sum of  *)
(* the fields that the comment at log.c:466-467 lists.                     *)
(***************************************************************************)
HexdumpFits == format = "hexdump" => printed <= SizeOf

(***************************************************************************)
(* If the caller's buffer starts on a word, the copy reads no word that    *)
(* holds none of its bytes, although it always reads whole words.          *)
(***************************************************************************)
ReadsStayInLastWord ==
  readTo > 0 => (readTo - 1) \div 4 <= (Len(data) - 1) \div 4

(***************************************************************************)
(* Every dump returns, for every length, a multiple of the line included.  *)
(***************************************************************************)
DumpReturns == <>(buff_len = 0)
=============================================================================
