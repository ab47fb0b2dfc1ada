CONSTANTS
  VIA_NUM_BLIT_SLOTS = 2
  HandleMod = 4
  HandleHalf = 1
  Procs = {p1}
  Syncers = {p1}
  Workers = {w1}
  MaxBlits = 5
SPECIFICATION FairSpec
PROPERTIES EveryBlitFreed SyncReturns ImplementsFifo
INVARIANTS SyncMeansOver
