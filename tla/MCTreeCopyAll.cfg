CONSTANTS
  Kind      <- MCKind
  Size      <- MCSize
  OldFiles  <- MCOldFiles
  MaxFaults = 3
SPECIFICATION Spec
INVARIANT CopyComplete
