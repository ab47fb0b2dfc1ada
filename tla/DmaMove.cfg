CONSTANTS
  m1 = m1
  m2 = m2
  m3 = m3
  None = None
  Movers <- AllMovers
  Locked <- AllMovers
  ToSystem = {m2, m3}
  Evictions = {m2, m3}
  Late = {m3}
  Width = 8
SPECIFICATION LiveSpec
INVARIANTS SignaledIsOver ChainsStayMapped EvictedIsOver
PROPERTY ChainsAreReleased
CHECK_DEADLOCK FALSE
