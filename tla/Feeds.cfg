SPECIFICATION MCSpec
CONSTANTS
  Writers = {w1, w2}
  MaxCalls = 3
  MaxIndex = 1
  PrivateKey = {1, 2}
  Identifier = {i1, i2}
  Byte = {0, 1}
  LEVELS = 1
  Body <- Bodies
  MaxMade = 2
INVARIANTS
  FoundIndexExtends
  ReplacesOnlyUnseen
  AckedInOrder
  RetrievableMeansStored
  DownloadIsTheOwners
CHECK_DEADLOCK FALSE
