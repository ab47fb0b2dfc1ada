CONSTANTS
  U32 = 64
  PAGE_SIZE = 8
  DescPerPage = 2
  MemAlign = 2
  FbAlign = 2
  MaxLines = 3
  MaxBytes = 40
  Requests <- SmallRequests
SPECIFICATION BuildSpec
CHECK_DEADLOCK FALSE
INVARIANTS PiecesInLockedPages DescriptorsMatchTransfer NoPageLeft
