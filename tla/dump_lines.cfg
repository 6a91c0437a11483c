CONSTANTS
  BYTES_PER_LINE = 16
  LengthModulus = 48
  SizeofPtr = 8
  PtrChars = 14
  MaxLength = 51
  Contents <- MCContents
SPECIFICATION Spec
\* A dump ends.
CHECK_DEADLOCK FALSE
INVARIANTS TypeOK LinesShowBuffer WritesFit ReadsStayInLastWord
PROPERTY DumpReturns
