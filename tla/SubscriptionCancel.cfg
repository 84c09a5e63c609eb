\* The owner cancels and keeps the handle, without receiving.
CONSTANTS
  CAP = 1
  MaxMsgs = 2
  NET = 1
\* A dropped subscription whose task has ended does nothing more.
CHECK_DEADLOCK FALSE
SPECIFICATION Spec
PROPERTIES
  CancelCloses
