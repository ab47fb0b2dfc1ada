CONSTANTS
  one = one
  two = two
  Backends = {one, two}
  Updaters = {t1, t2}
  MaxEntries = 3
  NumPages <- Sizes
  Invalid = Invalid
  Junk = Junk
  MayOverlap = FALSE
  None = None
SPECIFICATION Spec
INVARIANTS BoundIsMapped NoStalePage ProtectedAtRest
CHECK_DEADLOCK FALSE
