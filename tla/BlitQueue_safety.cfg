CONSTANTS
  VIA_NUM_BLIT_SLOTS = 3
  HandleMod = 8
  HandleHalf = 2
  Procs = {p1, p2}
  Syncers = {}
  Workers = {w1, w2}
  MaxBlits = 4
SPECIFICATION Spec
SYMMETRY Symmetry
INVARIANTS
  NoOverwrite EngineOnLiveBlit NothingLeftBehind FreedOnce
