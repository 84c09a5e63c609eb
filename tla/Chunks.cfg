\* Every split of every input of up to 17 bytes (9 leaves, 5 levels), with at
\* most one refusal of the callback anywhere.  Two handles and two buckets of two
\* slots; at depth 3 the shift wraps.
CONSTANTS
  CHUNK_SIZE = 2
  MAX_BRANCHES = 2
  MaxBytes = 17
  MaxWrite = 3
  MaxFails = 1
  Handle = {h1, h2}
  Bucket = {b1, b2}
  MIN_DEPTH = 1
  Width = 2
  MaxCounter = 3
  MaxDepth = 3
SPECIFICATION MCSpec
INVARIANTS
  RootIsCanonical
  UploadSeesTheTree
  SealedInOrder
  TypeOK
  NoSlotTwice
  SlotsAccounted
PROPERTY CallsReturn
