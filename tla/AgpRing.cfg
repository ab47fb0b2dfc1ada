CONSTANTS
  Size = 60
  Align = 4
  Cell = 2
  Header = 2
  Threshold = 4
  PauseAlign = 12
  NullCommands = 2
  PadSize = 6
  Reserve = 24
  Requests <- Fitting
  UnreliableWaits <- Confirmed
SPECIFICATION FairSpec
INVARIANT NoOverwrite
PROPERTIES FlushReturns ImplementsFifo
