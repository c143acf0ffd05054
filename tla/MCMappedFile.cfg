CONSTANTS
  FileSize  = 11
  BlockSize = 2
  MaxBlocks = 4
  MaxLen    = 3
  MaxErrors = 2
  Reactions <- MCReactions
SPECIFICATION FairSpec
INVARIANTS TypeOK ListIntact HeldBlockIsCurrent MemoryBounded AnswerReachesReader ReadDelivers
PROPERTIES CancelIsFinal IsStream RequestReturns CloseReturns
