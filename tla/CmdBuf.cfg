CONSTANTS
  High = 16
  U = 4
  Margin = 24
  Bitblts = 2
  Sizes <- Streams
  Ignored <- Harmless
  StalePause = FALSE
  ShowsStart = FALSE
SPECIFICATION FairSpec
INVARIANTS LagAndSpaceTrue NeverStalls
PROPERTIES NoOverwrite CallsReturn
