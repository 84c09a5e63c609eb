CONSTANTS
  Path <- Paths
  r1 = r1
  m1 = m1
  Ref = {r1}
  Meta = {m1}
  Value <- Values
  None = None
  MAX_PREFIX_LENGTH = 3
  PATH_SEPARATOR = 0
  MaxOps = 5
\* The bound on operations stops a run.
CHECK_DEADLOCK FALSE
SPECIFICATION WireSpec
INVARIANTS
  LookupsAgree
  KnownAddressesTrue
  ReadBackExact
  CopyKeepsTheRest
PROPERTIES
  ActsAsAMap
