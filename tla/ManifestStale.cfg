\* Three levels below the root; no path has a separator.
CONSTANTS
  r1 = r1
  m1 = m1
  Path <- Nested
  Ref = {r1}
  Meta = {m1}
  Value <- Values
  None = None
  MAX_PREFIX_LENGTH = 3
  PATH_SEPARATOR = 0
  MaxOps = 6
CHECK_DEADLOCK FALSE
SPECIFICATION WireSpec
INVARIANTS
  AddressIsTrue
