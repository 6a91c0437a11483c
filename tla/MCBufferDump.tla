---------------------------- MODULE MCBufferDump ----------------------------
(* BufferDump with the sizes of the code, but for the width of the length:   *)
(* buffers of up to three lines, and some whose length does not fit.         *)
EXTENDS BufferDump

CONSTANT MaxLength

\* All lengths, with one byte of another kind at any position or at none.
OneOddByte ==
  {[i \in 1 .. n |-> IF i = odd THEN kind ELSE "graphic"] :
     n \in 0 .. MaxLength, odd \in 0 .. MaxLength, kind \in {"other", "nul"}}

\* Two NUL bytes, in one line or in two.
TwoNuls ==
  {[i \in 1 .. n |-> IF i \in {first, n - 1} THEN "nul" ELSE "graphic"] :
     n \in 2 .. MaxLength, first \in 1 .. MaxLength}

MCContents == OneOddByte \cup TwoNuls
=============================================================================
