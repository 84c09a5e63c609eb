\* Up to two files of 0, 1 or 3 leaves (0, 1 or 6 chunks), a window of two.
CONSTANTS
  CHUNK_SIZE = 2
  MAX_BRANCHES = 2
  STREAM_CONCURRENCY = 2
  Lengths = {0, 1, 5}
  MaxEntries = 2
SPECIFICATION FairSpec
INVARIANTS
  ManifestNeverDangles
  ProgressIsExact
  OrphansWithinWindow
PROPERTY UploadEnds
