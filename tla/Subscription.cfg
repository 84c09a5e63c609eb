\* A channel of two, so that it fills with messages still to come; a window of two
\* keys among sixteen addresses, and three messages to one address.
CONSTANTS
  CAP = 2
  MaxMsgs = 6
  NET = 3
  GSOC_MINE_START = 3
  TRIES = 2
  ADDRESS_BYTES = 2
  BYTE_BITS = 2
  MESSAGES = 3
\* A dropped subscription whose task has ended does nothing more.
CHECK_DEADLOCK FALSE
SPECIFICATION MCSpec
INVARIANTS
  EndMeansAll
  MinedIsNear
  AllWereHeard
PROPERTIES
  Promised
  HandlesAreServed
