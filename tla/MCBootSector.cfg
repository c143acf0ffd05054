CONSTANTS
  Last    = 6
  Backup  = 3
  Indexes <- MCIndexes
  Actives <- MCActives
  NULL    = NULL
SPECIFICATION Spec
INVARIANTS TableKept VolumeKept OneCopyWhole BootSectorWritten BootRecordWritten
