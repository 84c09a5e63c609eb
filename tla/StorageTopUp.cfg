CONSTANTS
  Breakpoint <- Breakpoints
  FALLBACK_DEPTH = 5
  MAX_DEPTH = 5
  CHUNK = 1
  BLOCK_TIME = 2
  Client = {c1, c2}
  Batch = {1}
  NoBatch = 0
  Size = {1, 7, 20}
  Ticks = {1, 7}
  TICKS = 2
  Target = {5}
  Price = {2, 3}
  MaxCalls = 3
  MaxMoves = 1
  BZZ_DIGITS = 2
  DAI_DIGITS = 3
  EXACT = 100000000
  Amount <- Amounts
  Decimal <- Decimals
  Second <- Durations
  Untyped = Untyped
  ByteString <- ByteStrings
  REFERENCE_LENGTH = 2
  WORD = 3
  Radix = 4
  CurveOrder = 11
  FileName <- FileNames
  Uncoded = Uncoded
  Refused = Refused
CHECK_DEADLOCK FALSE
SPECIFICATION MCSpec
INVARIANT TopUpIsNeeded
