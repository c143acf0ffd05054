CONSTANTS
  Stems     <- MCStems
  Exts      <- MCExts
  Subs      = {"", "x"}
  DirOf     <- MCDirOf
  Libraries <- MCLibraries
  Win98     <- MCWin98
  MaxRuns   = 2
  NULL      = NULL
SPECIFICATION Spec
CHECK_DEADLOCK FALSE
INVARIANTS PackedInfIsOwn
