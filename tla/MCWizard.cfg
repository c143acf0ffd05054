CONSTANTS
  sda = sda
  sdb = sdb
  one = one
  two = two
  DiskList  <- MCDiskList
  Indexes   <- MCIndexes
  Source    <- MCSource
  Layouts   <- MCLayouts
  Choices   <- MCChoices
  MaxMounts = 1
  Arrays    <- MCArrays
  NULL = NULL
SPECIFICATION Spec
INVARIANTS TypeOK NoDangling DestinationUsable StepsReady MenusClean EndMeansInstalled ProgressFits
PROPERTIES InstallWrites
SYMMETRY MCSymmetry
