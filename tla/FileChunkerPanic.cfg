CONSTANTS
  CHUNK_SIZE = 2
  MAX_BRANCHES = 2
  MaxBytes = 6
  MaxWrite = 2
  MaxFails = 1
SPECIFICATION Spec
INVARIANT FinalizeReturns
