CONSTANTS
  Objects = {o1, o2, o3}
  Procs = {p, q}
  Room <- Rooms
  Creations <- Created
  Pins <- Pinned
  Domains <- Moved
  None = None
SPECIFICATION Spec
SYMMETRY Symmetry
INVARIANT PinnedStays
PROPERTY UnpinMovesNothing
