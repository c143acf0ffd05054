CONSTANTS
  root = root
  sub1 = sub1
  ROOT = root
  Dirs = {sub1}
  JUNK = JUNK
  Names  <- MCNames
  Bytes  = {1, 2, 3}
  DirOf  <- MCDirOf
  Inputs <- MCInputs
  MaxFilesPerKnownData = 2
  MaxIdentical = 3
  Sizes = {0, 1, 4}
SPECIFICATION Spec
INVARIANTS SuccessMeansUnpacked SoundArchiveUnpacks NoLeak WritesToOwnFiles
