CONSTANTS
  sda = sda
  sdb = sdb
  one = one
  two = two
  DiskList  <- MCDiskList
  Indexes   <- MCIndexes
  Source    <- MCSource
  Layouts   <- MCLayouts
  Choices   <- MCChoices
  MaxMounts = 1
  Arrays    <- MCArrays
  NULL = NULL
SPECIFICATION FairSpec
PROPERTIES SourceDiskKept
