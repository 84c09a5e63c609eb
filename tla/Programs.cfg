CONSTANTS
  Program = {"vault", "fs", "deploy", "blog", "share", "relay", "keyring", "rss", "pinner"}
  Proc = {p1, p2}
  Absent = Absent
  Torn = Torn
  MaxCommands = 4
  Name = {n1, n2}
  Data = {d1, d2}
  Site = {d1, d2}
  File = {d1}
  Grantee = {g1, g2}
  To <- Recipients
  Second = {1, 2}
  Relayable <- Files
  Bucket = {1, 2}
  MAX_SLOT = 2
  KeyName = {n1, n2}
  Key = {k1, k2}
  Passphrase = {s1, s2}
  Clear = Clear
  Path = {1, 2}
  Content = {d1, d2}
  NoFile = NoFile
  MaxErrors = 1
  BATCH_TRIES = 3
  Gates <- Started
CHECK_DEADLOCK FALSE
SPECIFICATION MCSpec
INVARIANTS
  PublishedIsHeld
  OkCommandsStay
  HistoryWasLive
  CachesAreTrue
  SuccessMeansChecked
PROPERTIES
  AllGetPinned
