---------------------------- MODULE MCBootSector ----------------------------
(* A volume of seven sectors: the boot sectors at 0, the backup of a FAT32  *)
(* volume at 3, and one sector of the file system.                         *)
EXTENDS BootSector

MCIndexes == {2, 5}
MCActives == {{}, {1}, {1, 2}}
=============================================================================
