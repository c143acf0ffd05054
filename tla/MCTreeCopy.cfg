CONSTANTS
  Kind      <- MCKind
  Size      <- MCSize
  OldFiles  <- MCOldFiles
  MaxFaults = 3
SPECIFICATION Spec
INVARIANTS CopiedIsSource FailureIsLocal BarFits
