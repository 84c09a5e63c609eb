SPECIFICATION WireSpec
CONSTANTS
  MaxChunks = 4
  NET = 2
  Root = {r1, r2, r3}
  MAX_JSON_RESPONSE_BYTES = 6
  RESPONSE_BODY_CAP = 1
  PAGE = 2
  CHANGES = 2
  CLOSE = CLOSE
  NEWLINE = NEWLINE
  None = None
  Forbidden = {bad}
  FilePath = {1, 2, 3}
  Unpackable = {3}
  Content = {c1, c2}
  LINK = LINK
  Transfer <- Transfers
  WRITES = 1
  c1 = c1
  c2 = c2
  bad = bad
  r1 = r1
INVARIANTS
  OksCovered
  AnswersTrue
  SentIsMeant
PROPERTY SendReturns
\* A session, a call and a transfer come to their end.
CHECK_DEADLOCK FALSE
