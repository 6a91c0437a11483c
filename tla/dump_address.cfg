CONSTANTS
  BYTES_PER_LINE = 16
  LengthModulus = 48
  SizeofPtr = 8
  PtrChars = 16
  MaxLength = 20
  Contents <- MCContents
SPECIFICATION Spec
INVARIANTS HexdumpFits
\* A dump ends.
CHECK_DEADLOCK FALSE
