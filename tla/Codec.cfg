SPECIFICATION Spec
CONSTANTS
  Thrown = Thrown
  Eof = Eof
  WordBits = 8
  HalfBits = 4
  MaxAlloc = 8
  Handles = {h1, h2}
  Keys = {"a", "b"}
  Values <- MCValues
  Samples <- MCSamples
  Depths <- MCDepths
  Depth = 9
  MaxEntries = 2
INVARIANTS TextRoundTrip PackedRoundTrip
CHECK_DEADLOCK FALSE
