CONSTANTS
  Names     <- MCNames
  Accounts  <- MCAccounts
  Inis      <- MCInis
  Systems   <- MCSystems
  NameMax   = 2
  PwlMax    = 1
  MaxRuns   = 2
  MaxFaults = 1
SPECIFICATION Spec
INVARIANTS IniNotLost IniRewritten ClientLeft RunComplete
