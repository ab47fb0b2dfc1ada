CONSTANTS
  PageSize = 4096
  DescPerPage = 3
  Buffers <- SmallBuffers
SPECIFICATION ChainSpec
INVARIANTS DescriptorsInPages FenceComesLast WalkMeetsAll
CHECK_DEADLOCK FALSE
