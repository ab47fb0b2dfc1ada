CONSTANTS
  p = p
  q = q
  w = w
  b1 = b1
  b2 = b2
  c = c
  None = None
  Dma = Dma
  Files = {p, q}
  Waiters = {w}
  Buffers = {b1}
  CmdBuffers = {c}
  Interrupted = {q}
  Confused = {q}
  Careless = {}
  MaxFlushes = 3
SPECIFICATION LiveSpec
INVARIANTS FenceKept NothingMovesBusy ReservationsReturned CommandsUntouched
PROPERTY FlushReturns
CHECK_DEADLOCK FALSE
