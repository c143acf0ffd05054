CONSTANTS
  FileSize  = 7
  BlockSize = 2
  MaxBlocks = 2
  MaxLen    = 3
  MaxErrors = 2
  Reactions <- MCReactions
SPECIFICATION Spec
INVARIANTS EveryReadDelivers
