CONSTANTS
  Streams <- OneOrTwo
  Chips <- AllChips
  StippleWords = 3
  MaxFires = 2
  U32 = 64
  Maps <- Diagonal
SPECIFICATION VerifierSpec
INVARIANT SameSections
INVARIANT EngineAsVerified
VIEW WhatMatters
