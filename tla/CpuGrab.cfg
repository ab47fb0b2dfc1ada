CONSTANTS
  a = a
  b = b
  c = c
  None = None
  Files <- ThreeFiles
  Grabbers = {a, b, c}
  Interrupted = {c}
  Careless = {}
  OwnersFlush = {"other"}
  MaxWriters = 3
SPECIFICATION LiveSpec
INVARIANTS OwnerKeepsGpuOut ClosedOwnNothing
PROPERTY FlushReturns
CHECK_DEADLOCK FALSE
