----------------------------- MODULE BootSector -----------------------------
(***************************************************************************)
(* How util_disk.c makes a partition bootable: writing the code of the     *)
(* master boot record, setting one partition active, patching the boot     *)
(* sector with a list of util_BootSectorModifier and copying the patched   *)
(* sectors to the backup of a FAT32 volume.                                *)
(*                                                                         *)
(* A sector is divided into regions that the code changes or must leave    *)
(* alone; what a region holds is a piece of an image: "old" is what the    *)
(* volume's boot sectors held before, "win98" the data of mbr_boot_win98.h *)
(* and "fat" the file system behind them.  Every sector is read and        *)
(* written through the kernel's cache.  Each call may fail, fsync may fail *)
(* without being noticed, and the power may go at any moment, which leaves *)
(* what is on the medium.                                                  *)
(* Operators under a FAULT comment are plausible slips in the definition   *)
(* that follows them; only the mutation runs use them.                     *)
(***************************************************************************)
EXTENDS Integers, Sequences

CONSTANTS Last,     \* bound: last sector of the partition that is modelled
          Backup,   \* where mkfs puts the backup of a FAT32 boot sector
          Indexes,  \* numbers the destination may have in its table
          Actives,  \* bound: the sets of partitions flagged active at first
          NULL      \* a pointer to nothing

Sectors == 0..Last

ASSUME BackupAssumption  == Backup \in 3..(Last - 3)
ASSUME LastAssumption    == Last \in Nat
ASSUME IndexesAssumption == Indexes \subseteq Nat
ASSUME ActivesAssumption == Actives \subseteq SUBSET (1..4)

SectorSize == 512

\* The regions of a boot sector, as the bytes from..to-1.  bpb32 belongs to
\* the parameters of a FAT32 volume and to the code of a FAT16 volume; mark
\* is the signature.
Span == [jump  |-> [from |->   0, to |->   3],
         oem   |-> [from |->   3, to |->  11],
         bpb   |-> [from |->  11, to |->  62],
         bpb32 |-> [from |->  62, to |->  90],
         code  |-> [from |->  90, to |-> 510],
         mark  |-> [from |-> 510, to |-> 512]]

Regions == DOMAIN Span

Images == {"old", "win98", "fat", "mixed"}

\* What a sector may hold.
Contents == [Regions -> [img : Images, at : Int]]

ASSUME NullAssumption == NULL \notin Contents

VARIABLES
  mbr,       \* first sector of the disk: code, active entries, the rest of
             \* the partition table
  mbrMedium, \* the same as it is on the medium
  vol,       \* the partition's sectors
  volMedium, \* the same as they are on the medium
  kind,      \* the file system on the partition: "fat16", "fat32", "none"
  bk,        \* what its boot sector says is the backup's sector
  fs,        \* part->fileSystem
  index,     \* part->indexOnParent
  pc,        \* where the program is
  buf,       \* the sector in memory, or NULL
  at,        \* oldSectorIndex
  next,      \* position in the list of modifiers
  i,         \* position in the copy to the backup
  result,    \* no sector of that copy failed
  done,      \* the operations that have returned success last time
  syncLost   \* some fsync has failed

mediumVars == <<mbr, mbrMedium, vol, volMedium, kind, bk, syncLost>>
callVars   == <<buf, at, next, i, result>>
vars == <<mediumVars, fs, index, pc, callVars, done>>

(***************************************************************************)
(* Volumes.                                                                *)
(***************************************************************************)
Piece(image, position) == [img |-> image, at |-> position]

\* The regions of sector s of an image of several sectors.
SectorOf(image, s) ==
  [r \in Regions |-> Piece(image, SectorSize * s + Span[r].from)]

\* The sector of which s is the original or the backup, if it is one.
CopyOf(k, b, s) ==
  CASE k = "fat32" /\ s \in 0..2                 -> s
    [] k = "fat32" /\ b > 0 /\ s \in b..(b + 2)  -> s - b
    [] k = "fat16" /\ s = 0                      -> 0
    [] OTHER                                     -> -1

\* A volume as the one who formatted it left it.
Formatted(k, b) ==
  [s \in Sectors |-> IF CopyOf(k, b, s) >= 0 THEN SectorOf("old", CopyOf(k, b, s))
                                             ELSE SectorOf("fat", s)]

\* Where a volume keeps code; all else is its parameters and its data.
IsCode(k, s, r) ==
  \/ k = "fat16" /\ s = 0 /\ r # "bpb"
  \/ k = "fat32" /\ s = 0 /\ r \notin {"bpb", "bpb32"}
  \/ k = "fat32" /\ s = 1 /\ r = "mark"
  \/ k = "fat32" /\ s = 2

(***************************************************************************)
(* The lists of modifiers: length bytes of the image from data on go to    *)
(* the byte offset of a sector.                                            *)
(***************************************************************************)
Modifier(s, offset, length, data) ==
  [sector |-> s, offset |-> offset, length |-> length, data |-> data]

\* FAULT the FAT32 code starts where the FAT16 code does.
ModifiersSameOffset(f) ==
  <<Modifier(0, 0, 3, 0), Modifier(0, 3, 8, 3), Modifier(0, 62, 450, 62)>>
  \o (IF f = "fat32" THEN <<Modifier(1, 510, 2, 1022), Modifier(2, 0, 512, 1024)>>
                     ELSE <<>>)

Modifiers(f) ==
  IF f = "fat16"
    THEN <<Modifier(0, 0, 3, 0), Modifier(0, 3, 8, 3), Modifier(0, 62, 450, 62)>>
    ELSE <<Modifier(0, 0, 3, 0), Modifier(0, 3, 8, 3), Modifier(0, 90, 422, 90),
           Modifier(1, 510, 2, 1022), Modifier(2, 0, 512, 1024)>>

\* What memcpy makes of a region: it is replaced, untouched, or cut.
Patched(sector, mod) ==
  [r \in Regions |->
     CASE Span[r].from >= mod.offset /\ Span[r].to <= mod.offset + mod.length ->
            Piece("win98", mod.data + Span[r].from - mod.offset)
       [] Span[r].to <= mod.offset \/ Span[r].from >= mod.offset + mod.length ->
            sector[r]
       [] OTHER -> Piece("mixed", 0)]

(***************************************************************************)
(* Sector I/O.  A read that succeeds is complete.  A write that returns    *)
(* success may not have reached the medium: the result of fsync is not     *)
(* looked at.                                                              *)
(***************************************************************************)
ReadSector(s) == vol[s]

WriteSector(s, content) ==
  /\ vol' = [vol EXCEPT ![s] = content]
  /\ \/ volMedium' = [volMedium EXCEPT ![s] = content] /\ UNCHANGED syncLost
     \/ volMedium' = volMedium /\ syncLost' = TRUE
  /\ UNCHANGED <<mbr, mbrMedium, kind, bk>>

WriteFirstSector(content) ==
  /\ mbr' = content
  /\ \/ mbrMedium' = content /\ UNCHANGED syncLost
     \/ mbrMedium' = mbrMedium /\ syncLost' = TRUE
  /\ UNCHANGED <<vol, volMedium, kind, bk>>

(***************************************************************************)
(* Control.                                                                *)
(***************************************************************************)
Reset == buf' = NULL /\ at' = 0 /\ next' = 1 /\ i' = 0 /\ result' = TRUE

Call(op, first) == /\ pc = "idle"
                   /\ pc' = first
                   /\ done' = done \ {op}
                   /\ Reset
                   /\ UNCHANGED <<mediumVars, fs, index>>

Return(op, success) == /\ pc' = "idle"
                       /\ done' = IF success THEN done \union {op} ELSE done
                       /\ Reset
                       /\ UNCHANGED <<fs, index>>

Goto(label) == pc' = label /\ UNCHANGED <<fs, index, done>>

\* assert, QI_ASSERT and QI_FATAL.
Abort == Goto("aborted") /\ Reset /\ UNCHANGED mediumVars

(***************************************************************************)
(* Master boot record.                                                     *)
(***************************************************************************)
\* FAULT the whole sector is overwritten.
WholeSector == 512

DISK_MBR_CODE_LENGTH == 446

WithNewCode(sector) ==
  [sector EXCEPT !.code = "win98",
                 !.table = IF DISK_MBR_CODE_LENGTH > 446 THEN "mixed" ELSE @]

\* FAULT the flags of the others stay.
FlagAdded(sector) == [sector EXCEPT !.active = @ \union {index}]

\* Clears every flag and sets one.
WithOnlyFlag(sector) == [sector EXCEPT !.active = {index}]

CallMbr == Call("mbr", "writeMBRToDrive")

\* util_writeMBRToDrive: read, replace the code, write.
WriteMBRToDrive ==
  /\ pc = "writeMBRToDrive"
  /\ \/ WriteFirstSector(WithNewCode(mbr)) /\ Goto("setPartitionActive")
        /\ UNCHANGED callVars
     \/ Return("mbr", FALSE) /\ UNCHANGED mediumVars

SetPartitionActive ==
  /\ pc = "setPartitionActive"
  /\ IF index \in 1..4
       THEN \/ WriteFirstSector(WithOnlyFlag(mbr)) /\ Return("mbr", TRUE)
            \/ Return("mbr", FALSE) /\ UNCHANGED mediumVars
       ELSE Abort

(***************************************************************************)
(* Boot sector.                                                            *)
(***************************************************************************)
CallBoot == Call("boot", "modify")

Mod == Modifiers(fs)[next]

\* Reads the modifier's sector unless it is in memory, and patches it there.
ModifySector ==
  /\ pc = "modify"
  /\ next <= Len(Modifiers(fs))
  /\ buf = NULL \/ at = Mod.sector
  /\ \/ /\ buf' = Patched(IF buf = NULL THEN ReadSector(Mod.sector) ELSE buf, Mod)
        /\ at' = Mod.sector
        /\ next' = next + 1
        /\ Goto("modify")
        /\ UNCHANGED <<mediumVars, i, result>>
     \/ buf = NULL /\ Abort

\* The next modifier is about another sector.
FlushSector ==
  /\ pc = "modify"
  /\ next <= Len(Modifiers(fs))
  /\ buf # NULL /\ at # Mod.sector
  /\ \/ WriteSector(at, buf) /\ buf' = NULL /\ Goto("modify")
        /\ UNCHANGED <<at, next, i, result>>
     \/ Abort

\* FAULT the backup is brought up to date whatever the result.
CopyRegardless(success) == fs = "fat32"

\* After the last sector the backup is only copied if all went well.
CopiesBackup(success) == success /\ fs = "fat32"

\* After the last modifier: the write that is still pending.
FlushLast ==
  /\ pc = "modify"
  /\ next = Len(Modifiers(fs)) + 1
  /\ \E success \in BOOLEAN :
       /\ IF success THEN WriteSector(at, buf) ELSE UNCHANGED mediumVars
       /\ IF CopiesBackup(success)
            THEN /\ Goto("copyRead")
                 /\ buf' = NULL /\ at' = 0
                 /\ UNCHANGED <<next, i, result>>
            ELSE Return("boot", success)

BackupSectorCount == 3

\* at is now backupSectorIndex, taken from sector 0.
CopyRead ==
  /\ pc = "copyRead"
  /\ i < BackupSectorCount
  /\ \/ /\ buf' = ReadSector(i)
        /\ at' = IF i = 0 THEN bk ELSE at
        /\ Goto("copyWrite")
        /\ UNCHANGED <<mediumVars, next, i, result>>
     \/ Abort

\* FAULT only the last write counts.
ResultOfLast(success) == success

ResultOf(success) == result /\ success

CopyWrite ==
  /\ pc = "copyWrite"
  /\ \/ WriteSector(i + at, buf) /\ result' = ResultOf(TRUE)
     \/ UNCHANGED mediumVars /\ result' = ResultOf(FALSE)
  /\ buf' = NULL
  /\ i' = i + 1
  /\ Goto("copyRead")
  /\ UNCHANGED <<at, next>>

CopyEnd ==
  /\ pc = "copyRead"
  /\ i = BackupSectorCount
  /\ Return("boot", result)
  /\ UNCHANGED mediumVars

(***************************************************************************)
(* mkfs, restart and power loss.                                           *)
(***************************************************************************)
\* A failed mkfs leaves nothing that is a file system.
Format ==
  /\ pc = "idle"
  /\ kind' \in {fs, "none"}
  /\ bk' = IF kind' = "fat32" THEN Backup ELSE 0
  /\ vol' = Formatted(kind', bk')
  /\ volMedium' = vol'
  /\ done' = done \ {"boot"}
  /\ UNCHANGED <<mbr, mbrMedium, syncLost, fs, index, pc, callVars>>

Restart == /\ pc = "aborted"
           /\ Goto("idle")
           /\ UNCHANGED <<mediumVars, callVars>>

\* Operations whose result is in the cache alone.
Unsynced == (IF mbr = mbrMedium THEN {} ELSE {"mbr"})
            \union (IF vol = volMedium THEN {} ELSE {"boot"})

PowerCycle ==
  /\ mbr' = mbrMedium
  /\ vol' = volMedium
  /\ pc' = "idle"
  /\ Reset
  /\ done' = done \ Unsynced
  /\ UNCHANGED <<mbrMedium, volMedium, kind, bk, syncLost, fs, index>>

Init ==
  /\ \E a \in Actives : mbr = [code |-> "old", active |-> a, table |-> "old"]
  /\ mbrMedium = mbr
  /\ kind \in {"fat16", "fat32"}
  /\ bk \in {0, Backup}
  /\ vol = Formatted(kind, bk)
  /\ volMedium = vol
  /\ fs \in {"fat16", "fat32"}
  /\ index \in Indexes
  /\ pc = "idle"
  /\ buf = NULL /\ at = 0 /\ next = 1 /\ i = 0 /\ result = TRUE
  /\ done = {}
  /\ syncLost = FALSE

Next ==
  \/ CallMbr \/ WriteMBRToDrive \/ SetPartitionActive
  \/ CallBoot \/ ModifySector \/ FlushSector \/ FlushLast
  \/ CopyRead \/ CopyWrite \/ CopyEnd
  \/ Format \/ Restart \/ PowerCycle

Spec == Init /\ [][Next]_vars

(***************************************************************************)
(* Properties.                                                             *)
(***************************************************************************)
\* The partition table keeps its entries, and no step makes a second
\* partition active: the flags are the first ones or the destination's alone.
TableKept ==
  \A sector \in {mbr, mbrMedium} :
    sector.table = "old" /\ sector.active \in Actives \union {{index}}

\* As long as the volume is what part->fileSystem says, whatever fails and
\* whenever the power goes, the only thing that ever changes on it is code,
\* in the boot sectors or their backup, and it changes to the same place of
\* the new image: parameters, FSInfo and file system are as mkfs left them.
VolumeKept ==
  fs = kind =>
    \A v \in {vol, volMedium}, s \in Sectors, r \in Regions :
      LET c == CopyOf(kind, bk, s) IN
      v[s][r] # Formatted(kind, bk)[s][r] =>
        IsCode(kind, c, r) /\ v[s][r] = SectorOf("win98", c)[r]

\* All code in the sectors from first on comes from one image.
AllFrom(v, image, first) ==
  \A s \in 0..2, r \in Regions :
    IsCode(kind, s, r) => v[first + s][r] = SectorOf(image, s)[r]

Whole(v, first) == AllFrom(v, "old", first) \/ AllFrom(v, "win98", first)

\* At every moment the boot sectors or their backup are complete, old or new,
\* so that a power loss in between leaves something to boot or to repair
\* from; unless the medium has refused a write behind the program's back.
OneCopyWhole ==
  fs = "fat32" /\ kind = "fat32" /\ bk > 0 /\ ~syncLost =>
    \A v \in {vol, volMedium} : Whole(v, 0) \/ Whole(v, bk)

\* Success of the boot sector step means that all of the new code is there,
\* and that the backup of a FAT32 volume is the same, after any number of
\* failed or interrupted attempts.
BootSectorWritten ==
  "boot" \in done /\ fs = kind =>
    /\ AllFrom(vol, "win98", 0)
    /\ kind = "fat32" => \A s \in 0..2 : vol[bk + s] = vol[s]

\* Success of the boot record step means new code and one active partition,
\* the destination.
BootRecordWritten ==
  "mbr" \in done => mbr.code = "win98" /\ mbr.active = {index}
=============================================================================
