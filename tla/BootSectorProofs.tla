--------------------------- MODULE BootSectorProofs ---------------------------
(***************************************************************************)
(* Theorems about BootSector: about the first sector of the disk, for      *)
(* every partition, every volume and every state the flags were in before, *)
(* and then about the sectors of the partition.                            *)
(***************************************************************************)
EXTENDS BootSector, TLAPS

\* What a first sector may be.
FirstSectors == [code : {"old", "win98"}, active : SUBSET Nat, table : {"old", "mixed"}]

(***************************************************************************)
(* BootRecordWritten is about the sector the kernel holds.  It survives a  *)
(* loss of power only together with what is known of the sector on the     *)
(* medium, and setPartitionActive relies on the code written before it.    *)
(***************************************************************************)
MbrInv ==
  /\ mbr \in FirstSectors
  /\ mbrMedium \in FirstSectors
  /\ TableKept
  /\ pc = "setPartitionActive" => mbr.code = "win98"
  /\ BootRecordWritten

\* The operations that write the first sector.
MbrStep == WriteMBRToDrive \/ SetPartitionActive \/ PowerCycle

\* Every other step leaves the first sector alone, does not lead into the
\* middle of the boot record's operation and does not report it as done.
LEMMA OtherSteps ==
  ASSUME Next, ~MbrStep
  PROVE  /\ UNCHANGED <<mbr, mbrMedium, index>>
         /\ pc' # "setPartitionActive"
         /\ "mbr" \in done' => "mbr" \in done
  <1>. USE DEF mediumVars, callVars, Goto, Return, Abort, Reset, WriteSector
  <1>1. CASE CallMbr
    BY <1>1 DEF CallMbr, Call
  <1>2. CASE CallBoot
    BY <1>2 DEF CallBoot, Call
  <1>3. CASE ModifySector
    BY <1>3 DEF ModifySector
  <1>4. CASE FlushSector
    BY <1>4 DEF FlushSector
  <1>5. CASE FlushLast
    BY <1>5 DEF FlushLast
  <1>6. CASE CopyRead \/ CopyWrite \/ CopyEnd
    BY <1>6 DEF CopyRead, CopyWrite, CopyEnd
  <1>7. CASE Format
    BY <1>7 DEF Format
  <1>8. CASE Restart
    BY <1>8 DEF Restart
  <1>. QED
    BY <1>1, <1>2, <1>3, <1>4, <1>5, <1>6, <1>7, <1>8 DEF Next, MbrStep

LEMMA MbrInit ==
  ASSUME Init
  PROVE  MbrInv
  <1>1. PICK a \in Actives : mbr = [code |-> "old", active |-> a, table |-> "old"]
    BY DEF Init
  <1>2. a \subseteq Nat
    BY <1>1, ActivesAssumption
  <1>3. mbr \in FirstSectors /\ mbrMedium = mbr
    BY <1>1, <1>2 DEF Init, FirstSectors
  <1>. QED
    BY <1>1, <1>3 DEF Init, MbrInv, TableKept, BootRecordWritten

LEMMA MbrNext ==
  ASSUME MbrInv, index \in Nat, [Next]_vars
  PROVE  MbrInv'
  <1>. USE DEF MbrInv, TableKept, BootRecordWritten, FirstSectors
  <1>1. CASE WriteMBRToDrive
    <2>1. CASE WriteFirstSector(WithNewCode(mbr)) /\ Goto("setPartitionActive")
      <3>1. WithNewCode(mbr) \in FirstSectors
        BY DEF WithNewCode, DISK_MBR_CODE_LENGTH
      <3>2. /\ WithNewCode(mbr).code = "win98"
            /\ WithNewCode(mbr).table = mbr.table
            /\ WithNewCode(mbr).active = mbr.active
        BY DEF WithNewCode, DISK_MBR_CODE_LENGTH
      <3>3. mbr' = WithNewCode(mbr) /\ mbrMedium' \in {mbr', mbrMedium}
        BY <2>1 DEF WriteFirstSector
      <3>4. index' = index /\ done' = done
        BY <2>1 DEF Goto
      <3>. QED
        BY <3>1, <3>2, <3>3, <3>4
    <2>2. CASE Return("mbr", FALSE) /\ UNCHANGED mediumVars
      BY <2>2 DEF Return, mediumVars
    <2>. QED
      BY <1>1, <2>1, <2>2 DEF WriteMBRToDrive
  <1>2. CASE SetPartitionActive
    <2>1. mbr.code = "win98"
      BY <1>2 DEF SetPartitionActive
    <2>2. CASE WriteFirstSector(WithOnlyFlag(mbr)) /\ Return("mbr", TRUE)
      <3>1. {index} \in SUBSET Nat
        OBVIOUS
      <3>2. WithOnlyFlag(mbr) \in FirstSectors
        BY <3>1 DEF WithOnlyFlag
      <3>3. /\ WithOnlyFlag(mbr).code = "win98"
            /\ WithOnlyFlag(mbr).table = mbr.table
            /\ WithOnlyFlag(mbr).active = {index}
        BY <2>1 DEF WithOnlyFlag
      <3>4. mbr' = WithOnlyFlag(mbr) /\ mbrMedium' \in {mbr', mbrMedium}
        BY <2>2 DEF WriteFirstSector
      <3>5. index' = index /\ pc' = "idle"
        BY <2>2 DEF Return
      <3>. QED
        BY <3>2, <3>3, <3>4, <3>5
    <2>3. CASE Return("mbr", FALSE) /\ UNCHANGED mediumVars
      BY <2>3 DEF Return, mediumVars
    <2>4. CASE Abort
      BY <2>4 DEF Abort, Goto, mediumVars
    <2>. QED
      BY <1>2, <2>2, <2>3, <2>4 DEF SetPartitionActive
  <1>3. CASE PowerCycle
    <2>1. mbr' = mbrMedium /\ mbrMedium' = mbrMedium /\ index' = index /\ pc' = "idle"
      BY <1>3 DEF PowerCycle
    <2>2. "mbr" \in done' => "mbr" \in done /\ mbr = mbrMedium
      BY <1>3 DEF PowerCycle, Unsynced
    <2>. QED
      BY <2>1, <2>2
  <1>4. CASE Next /\ ~MbrStep
    BY <1>4, OtherSteps
  <1>5. CASE UNCHANGED vars
    BY <1>5 DEF vars, mediumVars
  <1>. QED
    BY <1>1, <1>2, <1>3, <1>4, <1>5 DEF MbrStep

LEMMA IndexIsNatural == Spec => [](index \in Nat)
  <1>1. Init => index \in Nat
    BY IndexesAssumption DEF Init
  <1>2. index \in Nat /\ [Next]_vars => (index \in Nat)'
    <2>1. ASSUME Next, MbrStep PROVE index' = index
      BY <2>1 DEF MbrStep, WriteMBRToDrive, SetPartitionActive, PowerCycle,
                  Goto, Return, Abort
    <2>. QED
      BY <2>1, OtherSteps DEF vars
  <1>. QED
    BY <1>1, <1>2, PTL DEF Spec

THEOREM MbrSafe == Spec => []MbrInv
  <1>1. Init => MbrInv
    BY MbrInit
  <1>2. MbrInv /\ index \in Nat /\ [Next]_vars => MbrInv'
    BY MbrNext
  <1>. QED
    BY <1>1, <1>2, IndexIsNatural, PTL DEF Spec

\* Boot code never gets into the partition table, and at no time, on the
\* medium or in the cache, are two partitions active that were not before.
THEOREM TableSafe == Spec => []TableKept
  <1>1. MbrInv => TableKept
    BY DEF MbrInv
  <1>. QED
    BY <1>1, MbrSafe, PTL

\* What qi_installWriteMbrSetActive reports as done is done, and stays so
\* through later failures, boot sectors, formatting and power losses.
THEOREM BootRecordSafe == Spec => []BootRecordWritten
  <1>1. MbrInv => BootRecordWritten
    BY DEF MbrInv
  <1>. QED
    BY <1>1, MbrSafe, PTL

-----------------------------------------------------------------------------
(***************************************************************************)
(* The partition's sectors, for every size of the partition and every      *)
(* place of the backup.                                                    *)
(***************************************************************************)
LEMMA RegionNames == Regions = {"jump", "oem", "bpb", "bpb32", "code", "mark"}
  BY DEF Regions, Span

\* The piece of a boot sector's image that belongs in region r of sector s.
Old(s, r) == SectorOf("old", s)[r]
New(s, r) == SectorOf("win98", s)[r]

LEMMA SectorType ==
  ASSUME NEW image \in Images, NEW s \in Int
  PROVE  SectorOf(image, s) \in Contents
  <1>1. \A r \in Regions : Span[r].from \in Int
    BY RegionNames DEF Span
  <1>2. \A r \in Regions : SectorSize * s + Span[r].from \in Int
    BY <1>1 DEF SectorSize
  <1>3. QED
    BY <1>2 DEF SectorOf, Contents, Piece

LEMMA NewPiece ==
  ASSUME NEW s \in Int, NEW r \in Regions
  PROVE  New(s, r) = Piece("win98", SectorSize * s + Span[r].from)
  BY DEF New, SectorOf

-----------------------------------------------------------------------------
(***************************************************************************)
(* The lists of modifiers.                                                 *)
(***************************************************************************)
Systems == {"fat16", "fat32"}

Count(f) == IF f = "fat16" THEN 3 ELSE 5

\* The sector of the nth modifier.
SectorAt(n) == IF n <= 3 THEN 0 ELSE n - 3

\* The modifier that writes region r of sector s.
By(s, r) ==
  IF s = 0 THEN (IF r = "jump" THEN 1 ELSE IF r = "oem" THEN 2 ELSE 3) ELSE s + 3

LEMMA ModifierFields ==
  ASSUME NEW s, NEW offset, NEW length, NEW data
  PROVE  /\ Modifier(s, offset, length, data).sector = s
         /\ Modifier(s, offset, length, data).offset = offset
         /\ Modifier(s, offset, length, data).length = length
         /\ Modifier(s, offset, length, data).data = data
  BY DEF Modifier

LEMMA Lists ==
  ASSUME NEW f \in Systems
  PROVE  /\ Len(Modifiers(f)) = Count(f)
         /\ Modifiers(f)[1] = Modifier(0, 0, 3, 0)
         /\ Modifiers(f)[2] = Modifier(0, 3, 8, 3)
         /\ f = "fat16" => Modifiers(f)[3] = Modifier(0, 62, 450, 62)
         /\ f = "fat32" => /\ Modifiers(f)[3] = Modifier(0, 90, 422, 90)
                           /\ Modifiers(f)[4] = Modifier(1, 510, 2, 1022)
                           /\ Modifiers(f)[5] = Modifier(2, 0, 512, 1024)
  <1>1. CASE f = "fat16"
    BY <1>1 DEF Modifiers, Count
  <1>2. CASE f = "fat32"
    BY <1>2 DEF Modifiers, Count
  <1>3. QED
    BY <1>1, <1>2 DEF Systems

\* A modifier that begins and ends with regions puts each of them where it
\* belongs and leaves the others.
LEMMA PatchedRegion ==
  ASSUME NEW s \in Int, NEW offset \in Int, NEW length \in Int, NEW sector \in Contents, NEW r \in Regions,
         \/ Span[r].from >= offset /\ Span[r].to <= offset + length
         \/ Span[r].to <= offset \/ Span[r].from >= offset + length
  PROVE  LET p == Patched(sector, Modifier(s, offset, length, SectorSize * s + offset))
             in == Span[r].from >= offset /\ Span[r].to <= offset + length
         IN  p[r] = IF in THEN New(s, r) ELSE sector[r]
  <1> DEFINE m == Modifier(s, offset, length, SectorSize * s + offset)
  <1>1. m.offset = offset /\ m.length = length /\ m.data = SectorSize * s + offset
    BY ModifierFields
  <1>2. Span[r].from \in Int /\ Span[r].to \in Int /\ Span[r].from < Span[r].to /\ SectorSize * s \in Int
    BY RegionNames DEF Span, SectorSize
  <1> HIDE DEF m
  <1>3. m.data + Span[r].from - m.offset = SectorSize * s + Span[r].from
    BY <1>1, <1>2
  <1> DEFINE in == Span[r].from >= offset /\ Span[r].to <= offset + length
  <1>4. Patched(sector, m)[r] = IF in THEN New(s, r) ELSE sector[r]
    <2>1. CASE in
      <3>1. ~(Span[r].to <= offset \/ Span[r].from >= offset + length)
        BY <1>2, <2>1
      <3>2. QED
        BY <1>1, <1>3, <2>1, <3>1, NewPiece DEF Patched
    <2>2. CASE ~in
      BY <1>1, <2>2 DEF Patched
    <2>3. QED
      BY <2>1, <2>2
  <1>5. QED
    BY <1>4 DEF m

\* Region r lies in the l bytes from o on, or outside of them.
In(r, o, l)  == Span[r].from >= o /\ Span[r].to <= o + l
Out(r, o, l) == Span[r].to <= o \/ Span[r].from >= o + l

\* What the nth modifier does to its sector: code becomes the new code, the
\* regions that are its own do, and nothing else changes.
Applied(f, n, sector) ==
  LET s == SectorAt(n)
      p == Patched(sector, Modifiers(f)[n])
  IN  /\ s \in 0..2 /\ Modifiers(f)[n].sector = s
      /\ f = "fat16" => s = 0
      /\ p \in Contents
      /\ \A r \in Regions : p[r] = sector[r] \/ (IsCode(f, s, r) /\ p[r] = New(s, r))
      /\ \A r \in Regions : IsCode(f, s, r) /\ By(s, r) = n => p[r] = New(s, r)

LEMMA AppliedByRegions ==
  ASSUME NEW f \in Systems, NEW n \in 1..Count(f), NEW sector \in Contents,
         NEW s \in 0..2, NEW o \in Int, NEW l \in Int,
         s = SectorAt(n), f = "fat16" => s = 0,
         Modifiers(f)[n] = Modifier(s, o, l, SectorSize * s + o),
         \A r \in Regions : /\ In(r, o, l) => IsCode(f, s, r)
                            /\ In(r, o, l) \/ Out(r, o, l)
                            /\ IsCode(f, s, r) /\ By(s, r) = n => In(r, o, l)
  PROVE  Applied(f, n, sector)
  <1> DEFINE p == Patched(sector, Modifiers(f)[n])
  <1>1. ASSUME NEW r \in Regions
        PROVE  p[r] = IF In(r, o, l) THEN New(s, r) ELSE sector[r]
    BY PatchedRegion DEF In, Out
  <1>2. p = [r \in Regions |-> p[r]]
    BY DEF Patched
  <1>3. ASSUME NEW r \in Regions
        PROVE  New(s, r) \in [img : Images, at : Int] /\ sector[r] \in [img : Images, at : Int]
    <2>1. SectorOf("win98", s) \in Contents
      BY SectorType DEF Images
    <2>2. QED
      BY <2>1 DEF New, Contents
  <1> HIDE DEF p
  <1>4. p \in Contents
    BY <1>1, <1>2, <1>3 DEF Contents
  <1>5. Modifiers(f)[n].sector = s
    BY ModifierFields
  <1>6. QED
    BY <1>1, <1>4, <1>5 DEF Applied, p

LEMMA PatchedSector ==
  ASSUME NEW f \in Systems, NEW n \in 1..Count(f), NEW sector \in Contents
  PROVE  Applied(f, n, sector)
  <1> USE RegionNames DEF SectorAt, By, IsCode, Span, SectorSize, In, Out
  <1>1. CASE n = 1
    <2>1. \A r \in Regions : /\ In(r, 0, 3) => IsCode(f, 0, r)
                             /\ In(r, 0, 3) \/ Out(r, 0, 3)
                             /\ IsCode(f, 0, r) /\ By(0, r) = n => In(r, 0, 3)
      BY <1>1 DEF Systems
    <2>2. QED
      BY <1>1, <2>1, Lists, AppliedByRegions
  <1>2. CASE n = 2
    <2>1. \A r \in Regions : /\ In(r, 3, 8) => IsCode(f, 0, r)
                             /\ In(r, 3, 8) \/ Out(r, 3, 8)
                             /\ IsCode(f, 0, r) /\ By(0, r) = n => In(r, 3, 8)
      BY <1>2 DEF Systems
    <2>2. QED
      BY <1>2, <2>1, Lists, AppliedByRegions
  <1>3. CASE n = 3 /\ f = "fat16"
    <2>1. \A r \in Regions : /\ In(r, 62, 450) => IsCode(f, 0, r)
                             /\ In(r, 62, 450) \/ Out(r, 62, 450)
                             /\ IsCode(f, 0, r) /\ By(0, r) = n => In(r, 62, 450)
      BY <1>3
    <2>2. Modifiers(f)[n] = Modifier(0, 62, 450, SectorSize * 0 + 62) /\ SectorAt(n) = 0
      BY <1>3, Lists
    <2>3. QED
      <3> HIDE DEF SectorAt, By, IsCode, SectorSize, In, Out
      <3>1. QED
        BY <1>3, <2>1, <2>2, AppliedByRegions
  <1>4. CASE n = 3 /\ f = "fat32"
    <2>1. \A r \in Regions : /\ In(r, 90, 422) => IsCode(f, 0, r)
                             /\ In(r, 90, 422) \/ Out(r, 90, 422)
                             /\ IsCode(f, 0, r) /\ By(0, r) = n => In(r, 90, 422)
      BY <1>4
    <2>2. Modifiers(f)[n] = Modifier(0, 90, 422, SectorSize * 0 + 90) /\ SectorAt(n) = 0
      BY <1>4, Lists
    <2>3. QED
      <3> HIDE DEF SectorAt, By, IsCode, SectorSize, In, Out
      <3>1. QED
        BY <1>4, <2>1, <2>2, AppliedByRegions
  <1>5. CASE n = 4 /\ f = "fat32"
    <2>1. \A r \in Regions : /\ In(r, 510, 2) => IsCode(f, 1, r)
                             /\ In(r, 510, 2) \/ Out(r, 510, 2)
                             /\ IsCode(f, 1, r) /\ By(1, r) = n => In(r, 510, 2)
      BY <1>5
    <2>2. Modifiers(f)[n] = Modifier(1, 510, 2, SectorSize * 1 + 510) /\ SectorAt(n) = 1
      BY <1>5, Lists
    <2>3. QED
      <3> HIDE DEF SectorAt, By, IsCode, SectorSize, In, Out
      <3>1. QED
        BY <1>5, <2>1, <2>2, AppliedByRegions
  <1>6. CASE n = 5 /\ f = "fat32"
    <2>1. \A r \in Regions : /\ In(r, 0, 512) => IsCode(f, 2, r)
                             /\ In(r, 0, 512) \/ Out(r, 0, 512)
                             /\ IsCode(f, 2, r) /\ By(2, r) = n => In(r, 0, 512)
      BY <1>6
    <2>2. Modifiers(f)[n] = Modifier(2, 0, 512, SectorSize * 2 + 0) /\ SectorAt(n) = 2
      BY <1>6, Lists
    <2>3. QED
      <3> HIDE DEF SectorAt, By, IsCode, SectorSize, In, Out
      <3>1. QED
        BY <1>6, <2>1, <2>2, AppliedByRegions
  <1>7. QED
    BY <1>1, <1>2, <1>3, <1>4, <1>5, <1>6 DEF Count, Systems

-----------------------------------------------------------------------------
(***************************************************************************)
(* The invariant.  VolControl: what the program knows between two calls.   *)
(* VolKept: a piece is only ever replaced by the new code that belongs     *)
(* there.  VolProgress: the modifiers that were applied are in the sector  *)
(* in memory or on the volume; before the backup is touched the boot       *)
(* sectors are new.                                                        *)
(***************************************************************************)
Copying == {"copyRead", "copyWrite"}
Writing == {"modify"} \union Copying

VolControl ==
  /\ vol \in [Sectors -> Contents] /\ volMedium \in [Sectors -> Contents]
  /\ kind \in Systems \union {"none"} /\ bk \in {0, Backup} /\ fs \in Systems
  /\ buf = NULL \/ buf \in Contents
  /\ result \in BOOLEAN
  /\ pc = "modify" =>
       /\ i = 0
       /\ next \in 1..(Count(fs) + 1)
       /\ buf # NULL => next > 1 /\ at = SectorAt(next - 1)
       /\ next = Count(fs) + 1 => buf # NULL
  /\ pc \in Copying =>
       /\ fs = "fat32" /\ i \in 0..3
       /\ i > 0 \/ pc = "copyWrite" => at = bk
  /\ pc = "copyWrite" => i < 3 /\ buf # NULL
  /\ pc \in Writing => "boot" \notin done

MayBe(s, r, x) ==
  LET c == CopyOf(kind, bk, s)
  IN  x = Formatted(kind, bk)[s][r] \/ (IsCode(kind, c, r) /\ x = New(c, r))

Kept(v) == \A s \in Sectors, r \in Regions : MayBe(s, r, v[s][r])

VolKept ==
  fs = kind =>
    /\ Kept(vol) /\ Kept(volMedium)
    /\ pc = "modify" /\ buf # NULL =>
         \A r \in Regions : buf[r] = vol[at][r] \/ (IsCode(kind, at, r) /\ buf[r] = New(at, r))
    /\ pc = "copyWrite" => buf = vol[i]

InHand(s) == IF buf # NULL /\ at = s THEN buf ELSE vol[s]

VolProgress ==
  fs = kind =>
    /\ pc = "modify" =>
         \A s \in 0..2, r \in Regions :
           IsCode(kind, s, r) /\ By(s, r) < next => InHand(s)[r] = New(s, r)
    /\ pc \in Copying =>
         /\ AllFrom(vol, "win98", 0)
         /\ result => \A j \in 0..(i - 1) : vol[bk + j] = vol[j]
    /\ BootSectorWritten

VolInv == VolControl /\ VolKept /\ VolProgress

LEMMA SectorNumbers ==
  ASSUME VolControl, NEW s \in 0..2
  PROVE  s \in Sectors /\ bk + s \in Sectors /\ (bk = 0 \/ bk + s \notin 0..2)
  BY BackupAssumption, LastAssumption DEF Sectors, VolControl

\* Where the boot sectors and their copies are.
LEMMA CopyNumbers ==
  ASSUME VolControl, fs = kind, NEW s \in 0..2
  PROVE  /\ kind = "fat32" => CopyOf(kind, bk, s) = s /\ CopyOf(kind, bk, bk + s) = s
         /\ kind = "fat16" => CopyOf(kind, bk, 0) = 0
         /\ kind = "fat16" \/ kind = "fat32"
  BY BackupAssumption, LastAssumption DEF VolControl, CopyOf, Systems

LEMMA FormattedType ==
  ASSUME NEW k, NEW b \in {0, Backup}
  PROVE  Formatted(k, b) \in [Sectors -> Contents]
  <1>1. ASSUME NEW s \in Sectors
        PROVE  CopyOf(k, b, s) \in Int
    BY BackupAssumption, LastAssumption DEF CopyOf, Sectors
  <1>2. ASSUME NEW s \in Sectors
        PROVE  SectorOf("fat", s) \in Contents /\ SectorOf("old", CopyOf(k, b, s)) \in Contents
    BY <1>1, SectorType, LastAssumption DEF Sectors, Images
  <1>3. QED
    BY <1>2 DEF Formatted

\* One sector is written with pieces that may be there.
LEMMA KeptWrite ==
  ASSUME NEW v \in [Sectors -> Contents], Kept(v), NEW s \in Sectors, NEW content \in Contents,
         \A r \in Regions : MayBe(s, r, content[r])
  PROVE  Kept([v EXCEPT ![s] = content]) /\ [v EXCEPT ![s] = content] \in [Sectors -> Contents]
  <1> HIDE DEF Contents, MayBe
  <1>1. QED
    BY DEF Kept

LEMMA VolInit == Init => VolInv
  <1> SUFFICES ASSUME Init PROVE VolInv
    OBVIOUS
  <1>1. /\ kind \in Systems /\ bk \in {0, Backup} /\ fs \in Systems /\ pc = "idle" /\ done = {}
        /\ vol = Formatted(kind, bk) /\ volMedium = vol /\ buf = NULL /\ result = TRUE
    BY DEF Init, Systems
  <1>2. VolControl
    BY <1>1, FormattedType DEF VolControl, Copying, Writing
  <1>3. Kept(vol) /\ Kept(volMedium)
    BY <1>1 DEF Kept, MayBe
  <1>4. QED
    BY <1>1, <1>2, <1>3 DEF VolInv, VolKept, VolProgress, BootSectorWritten, Copying

\* Steps that leave the volume alone and lead out of the boot sector's
\* operation, or pass it by.
LEMMA VolQuiet ==
  ASSUME VolInv, UNCHANGED <<vol, volMedium, kind, bk, fs>>, pc' \notin Writing,
         "boot" \in done' => "boot" \in done, buf' = NULL \/ buf' \in Contents, result' \in BOOLEAN
  PROVE  VolInv'
  <1>1. VolControl'
    <2> HIDE DEF Contents
    <2>1. QED
      BY DEF VolInv, VolControl, Writing, Copying
  <1>2. fs = kind => Kept(vol)' /\ Kept(volMedium)'
    <2>1. fs = kind => Kept(vol) /\ Kept(volMedium)
      BY DEF VolInv, VolKept
    <2>2. QED
      BY <2>1 DEF Kept, MayBe
  <1>3. fs = kind => BootSectorWritten'
    BY DEF VolInv, VolProgress, BootSectorWritten, AllFrom
  <1>4. QED
    BY <1>1, <1>2, <1>3 DEF VolInv, VolKept, VolProgress, Writing, Copying

\* A call of the boot sector's operation.
LEMMA VolCall == VolInv /\ CallBoot => VolInv'
  <1> SUFFICES ASSUME VolInv, CallBoot PROVE VolInv'
    OBVIOUS
  <1>1. /\ UNCHANGED <<vol, volMedium, kind, bk, fs>> /\ pc' = "modify" /\ next' = 1 /\ buf' = NULL /\ i' = 0
        /\ done' = done \ {"boot"} /\ result' = TRUE
    BY DEF CallBoot, Call, Reset, mediumVars
  <1>2. VolControl'
    <2> HIDE DEF Contents
    <2>1. QED
      BY <1>1 DEF VolInv, VolControl, Writing, Copying, Count
  <1>3. fs = kind => Kept(vol)' /\ Kept(volMedium)'
    <2>1. fs = kind => Kept(vol) /\ Kept(volMedium)
      BY DEF VolInv, VolKept
    <2>2. QED
      BY <1>1, <2>1 DEF Kept, MayBe
  <1>4. VolKept'
    BY <1>1, <1>3 DEF VolKept
  <1>5. VolProgress'
    <2>1. ASSUME NEW t \in 0..2, NEW r \in Regions, By(t, r) < 1
          PROVE  FALSE
      BY <2>1 DEF By
    <2>2. "boot" \notin done'
      BY <1>1
    <2>3. QED
      BY <1>1, <2>1, <2>2 DEF VolProgress, Copying, BootSectorWritten
  <1>6. QED
    BY <1>2, <1>4, <1>5 DEF VolInv

\* A modifier is applied in memory.
LEMMA VolModify ==
  ASSUME VolInv, pc = "modify", next <= Len(Modifiers(fs)), buf = NULL \/ at = Mod.sector,
         buf' = Patched(IF buf = NULL THEN ReadSector(Mod.sector) ELSE buf, Mod),
         at' = Mod.sector, next' = next + 1, pc' = "modify",
         UNCHANGED <<vol, volMedium, kind, bk, fs, done, i, result>>
  PROVE  VolInv'
  <1> DEFINE s == SectorAt(next)
             sector == IF buf = NULL THEN vol[s] ELSE buf
  <1>1. /\ fs \in Systems /\ next \in 1..Count(fs) /\ Count(fs) \in Int
        /\ vol \in [Sectors -> Contents] /\ (buf = NULL \/ buf \in Contents)
    <2> HIDE DEF Contents
    <2>1. /\ fs \in Systems /\ vol \in [Sectors -> Contents] /\ (buf = NULL \/ buf \in Contents)
          /\ next \in 1..(Count(fs) + 1)
      BY DEF VolInv, VolControl
    <2>2. Len(Modifiers(fs)) = Count(fs)
      BY <2>1, Lists
    <2>3. Count(fs) \in Int
      BY DEF Count
    <2>4. next \in 1..Count(fs)
      BY <2>1, <2>2, <2>3
    <2>5. QED
      BY <2>1, <2>3, <2>4
  <1>2. s \in 0..2 /\ Mod.sector = s /\ (fs = "fat16" => s = 0)
    <2>1. Applied(fs, next, vol[0])
      BY <1>1, PatchedSector, LastAssumption DEF Sectors
    <2>2. QED
      BY <2>1 DEF Applied, Mod
  <1>3. sector \in Contents /\ s \in Sectors
    BY <1>1, <1>2, SectorNumbers DEF VolInv
  <1>4. Applied(fs, next, sector)
    BY <1>1, <1>3, PatchedSector
  <1>5. buf' = Patched(sector, Modifiers(fs)[next]) /\ at' = s
    BY <1>2 DEF Mod, ReadSector
  <1>6. /\ buf' \in Contents /\ buf' # NULL
        /\ \A r \in Regions : buf'[r] = sector[r] \/ (IsCode(fs, s, r) /\ buf'[r] = New(s, r))
        /\ \A r \in Regions : IsCode(fs, s, r) /\ By(s, r) = next => buf'[r] = New(s, r)
    BY <1>4, <1>5, NullAssumption DEF Applied
  <1> HIDE DEF s, sector
  <1>7. VolControl'
    <2>1. next' \in 1..(Count(fs) + 1) /\ next' > 1 /\ next' - 1 = next
      BY <1>1
    <2> HIDE DEF Contents
    <2>2. QED
      BY <1>5, <1>6, <2>1 DEF VolInv, VolControl, Writing, Copying, s
  <1>8. sector = InHand(s)
    BY <1>2 DEF sector, InHand
  <1>9. VolKept'
    <2>1. fs = kind => Kept(vol)' /\ Kept(volMedium)'
      <3>1. fs = kind => Kept(vol) /\ Kept(volMedium)
        BY DEF VolInv, VolKept
      <3>2. QED
        BY <3>1 DEF Kept, MayBe
    <2>2. ASSUME fs = kind, NEW r \in Regions
          PROVE  buf'[r] = vol[s][r] \/ (IsCode(kind, s, r) /\ buf'[r] = New(s, r))
      <3>1. sector[r] = vol[s][r] \/ (IsCode(kind, s, r) /\ sector[r] = New(s, r))
        BY <1>2, <2>2 DEF VolInv, VolKept, sector
      <3>2. QED
        BY <1>6, <2>2, <3>1
    <2>3. QED
      BY <1>5, <2>1, <2>2 DEF VolKept
  <1>10. VolProgress'
    <2>1. ASSUME fs = kind, NEW t \in 0..2, NEW r \in Regions, IsCode(kind, t, r), By(t, r) < next + 1
          PROVE  InHand(t)'[r] = New(t, r)
      <3>1. By(t, r) \in Int
        BY DEF By
      <3>2. CASE By(t, r) < next
        <4>1. InHand(t)[r] = New(t, r)
          BY <2>1, <3>2 DEF VolInv, VolProgress
        <4>2. CASE t = s
          BY <1>5, <1>6, <1>8, <4>1, <4>2 DEF InHand
        \* The modifiers of a sector follow each other, so t is not in memory.
        <4>3. CASE t # s
          <5>1. ~(buf # NULL /\ at = t)
            BY <1>2, <4>3
          <5>2. QED
            BY <1>5, <4>1, <4>3, <5>1 DEF InHand
        <4>4. QED
          BY <4>2, <4>3
      <3>3. CASE By(t, r) = next
        <4>1. t = s
          BY <3>3, <2>1 DEF By, s, SectorAt
        <4>2. QED
          BY <1>5, <1>6, <2>1, <3>3, <4>1 DEF InHand
      <3>4. QED
        BY <1>1, <2>1, <3>1, <3>2, <3>3
    <2>2. "boot" \notin done
      BY DEF VolInv, VolControl, Writing
    <2>3. QED
      BY <2>1, <2>2 DEF VolProgress, Copying, BootSectorWritten
  <1>11. QED
    BY <1>7, <1>9, <1>10 DEF VolInv

\* Where the sector in memory came from.
LEMMA HeldSector ==
  ASSUME VolControl, pc = "modify", buf # NULL
  PROVE  at \in 0..2 /\ at \in Sectors /\ (fs = "fat16" => at = 0)
  <1>1. /\ at = SectorAt(next - 1) /\ next \in 2..(Count(fs) + 1) /\ Count(fs) \in Int /\ fs \in Systems
    <2> HIDE DEF Contents
    <2>1. QED
      BY DEF VolControl, Count
  <1> DEFINE n == next - 1
  <1>2. n \in 1..Count(fs) /\ at = SectorAt(n)
    BY <1>1
  <1> HIDE DEF n
  <1>3. at \in 0..2 /\ (fs = "fat16" => at = 0)
    BY <1>1, <1>2 DEF SectorAt, Count, Systems
  <1>4. QED
    BY <1>3, SectorNumbers

\* The volume changes in a sector that holds a boot sector or a copy of one.
LEMMA FlushKept ==
  ASSUME VolInv, fs = kind, pc = "modify", buf # NULL, NEW r \in Regions
  PROVE  MayBe(at, r, buf[r])
  <1>1. at \in Sectors /\ CopyOf(kind, bk, at) = at
    BY HeldSector, CopyNumbers DEF VolInv
  <1>2. buf[r] = vol[at][r] \/ (IsCode(kind, at, r) /\ buf[r] = New(at, r))
    BY DEF VolInv, VolKept
  <1>3. MayBe(at, r, vol[at][r])
    BY <1>1 DEF VolInv, VolKept, Kept
  <1>4. QED
    BY <1>1, <1>2, <1>3 DEF MayBe

\* What writing sector s does to the volume.
Written(s, content) ==
  /\ vol' = [vol EXCEPT ![s] = content]
  /\ volMedium' \in {volMedium, [volMedium EXCEPT ![s] = content]}

LEMMA WrittenKept ==
  ASSUME VolInv, UNCHANGED <<kind, bk>>, NEW s \in Sectors, NEW content \in Contents, Written(s, content),
         fs = kind => \A r \in Regions : MayBe(s, r, content[r])
  PROVE  /\ vol' \in [Sectors -> Contents] /\ volMedium' \in [Sectors -> Contents]
         /\ fs = kind => (Kept(vol))' /\ (Kept(volMedium))'
  <1> HIDE DEF Contents
  <1>1. /\ vol \in [Sectors -> Contents] /\ volMedium \in [Sectors -> Contents]
        /\ fs = kind => Kept(vol) /\ Kept(volMedium)
    BY DEF VolInv, VolControl, VolKept
  <1>2. vol' \in [Sectors -> Contents] /\ volMedium' \in [Sectors -> Contents]
    BY <1>1 DEF Written
  <1>3. ASSUME fs = kind
        PROVE  Kept(vol') /\ Kept(volMedium')
    <2>1. Kept([vol EXCEPT ![s] = content])
      BY <1>1, <1>3, KeptWrite
    <2>2. Kept([volMedium EXCEPT ![s] = content])
      BY <1>1, <1>3, KeptWrite
    <2>3. QED
      BY <1>1, <1>3, <2>1, <2>2 DEF Written
  <1>4. ASSUME Kept(vol') /\ Kept(volMedium')
        PROVE  (Kept(vol))' /\ (Kept(volMedium))'
    BY <1>4 DEF Kept, MayBe
  <1>5. QED
    BY <1>2, <1>3, <1>4

LEMMA VolFlush == VolInv /\ FlushSector => VolInv'
  <1> SUFFICES ASSUME VolInv, FlushSector PROVE VolInv'
    OBVIOUS
  <1>1. CASE pc' = "aborted" /\ UNCHANGED <<vol, volMedium, kind, bk, fs, done>> /\ buf' = NULL /\ result' = TRUE
    BY <1>1, VolQuiet DEF Writing, Copying
  <1>2. CASE /\ Written(at, buf) /\ buf' = NULL /\ pc' = "modify"
             /\ UNCHANGED <<kind, bk, fs, done, at, next, i, result>>
    <2>1. /\ pc = "modify" /\ buf # NULL /\ at # Mod.sector /\ next <= Len(Modifiers(fs))
      BY DEF FlushSector
    <2>2. /\ buf \in Contents /\ at = SectorAt(next - 1) /\ next \in 2..(Count(fs) + 1) /\ Count(fs) \in Int
          /\ fs \in Systems /\ vol \in [Sectors -> Contents]
      <3> HIDE DEF Contents
      <3>1. QED
        BY <2>1 DEF VolInv, VolControl, Count
    <2>3. next \in 2..Count(fs)
      <3>1. Len(Modifiers(fs)) = Count(fs)
        BY <2>2, Lists
      <3>2. QED
        BY <2>1, <2>2, <3>1
    <2>4. at \in 0..2 /\ at \in Sectors
      BY <2>1, HeldSector DEF VolInv
    <2>5. /\ vol' \in [Sectors -> Contents] /\ volMedium' \in [Sectors -> Contents]
          /\ fs = kind => (Kept(vol))' /\ (Kept(volMedium))'
      BY <1>2, <2>1, <2>2, <2>4, FlushKept, WrittenKept
    <2>6. VolControl'
      <3> HIDE DEF Contents
      <3>1. next' \in 1..(Count(fs') + 1) /\ next' # Count(fs') + 1
        BY <1>2, <2>2, <2>3
      <3>2. kind' \in Systems \union {"none"} /\ bk' \in {0, Backup} /\ fs' \in Systems /\ result' \in BOOLEAN
            /\ "boot" \notin done' /\ i' = 0
        BY <1>2, <2>1 DEF VolInv, VolControl, Writing
      <3>3. QED
        BY <1>2, <2>5, <3>1, <3>2 DEF VolControl, Copying
    <2>7. VolKept'
      BY <1>2, <2>5 DEF VolKept
    <2>8. VolProgress'
      <3>1. ASSUME fs = kind, NEW t \in 0..2, NEW r \in Regions, IsCode(kind, t, r), By(t, r) < next
            PROVE  InHand(t)'[r] = New(t, r)
        <4>1. InHand(t)[r] = New(t, r)
          BY <2>1, <3>1 DEF VolInv, VolProgress
        <4>2. InHand(t)' = InHand(t)
          <5>1. t \in Sectors
            BY SectorNumbers DEF VolInv
          <5> HIDE DEF Contents
          <5>2. QED
            BY <1>2, <2>1, <2>2, <2>4, <5>1 DEF InHand, Written
        <4>3. QED
          BY <4>1, <4>2
      <3>2. "boot" \notin done'
        BY <1>2, <2>1 DEF VolInv, VolControl, Writing
      <3>3. QED
        BY <1>2, <3>1, <3>2 DEF VolProgress, Copying, BootSectorWritten
    <2>9. QED
      BY <2>6, <2>7, <2>8 DEF VolInv
  <1>3. QED
    BY <1>1, <1>2 DEF FlushSector, WriteSector, Written, Goto, Abort, Reset, mediumVars

\* When every modifier has been applied and the sector in memory written, the
\* boot sectors hold the new code.
LEMMA AllApplied ==
  ASSUME VolInv, fs = kind, pc = "modify", next = Count(fs) + 1, vol' = [vol EXCEPT ![at] = buf]
  PROVE  AllFrom(vol', "win98", 0)
  <1>1. /\ buf # NULL /\ at = SectorAt(next - 1) /\ fs \in Systems /\ vol \in [Sectors -> Contents]
    <2> HIDE DEF Contents
    <2>1. QED
      BY DEF VolInv, VolControl, Count
  <1>2. ASSUME NEW t \in 0..2, NEW r \in Regions, IsCode(kind, t, r)
        PROVE  vol'[0 + t][r] = SectorOf("win98", t)[r]
    <2>1. By(t, r) < next
      BY <1>1, <1>2 DEF By, Count, IsCode, Systems
    <2>2. InHand(t)[r] = New(t, r)
      BY <1>2, <2>1 DEF VolInv, VolProgress
    <2>3. vol'[t] = InHand(t)
      <3>1. t \in Sectors
        BY SectorNumbers DEF VolInv
      <3>2. QED
        BY <1>1, <3>1 DEF InHand
    <2>4. QED
      BY <2>2, <2>3 DEF New
  <1>3. QED
    BY <1>2 DEF AllFrom

\* The last sector is written or not.
LEMMA VolFlushLast == VolInv /\ FlushLast => VolInv'
  <1> SUFFICES ASSUME VolInv, FlushLast PROVE VolInv'
    OBVIOUS
  <1>1. /\ pc = "modify" /\ next = Len(Modifiers(fs)) + 1 /\ UNCHANGED <<kind, bk, fs>>
    BY DEF FlushLast, WriteSector, mediumVars, Return, Goto
  <1>2. /\ fs \in Systems /\ buf # NULL /\ buf \in Contents /\ next = Count(fs) + 1
        /\ at = SectorAt(next - 1) /\ vol \in [Sectors -> Contents] /\ "boot" \notin done
    <2> HIDE DEF Contents
    <2>1. fs \in Systems /\ Len(Modifiers(fs)) = Count(fs)
      BY Lists DEF VolInv, VolControl
    <2>2. QED
      BY <1>1, <2>1 DEF VolInv, VolControl, Count, Writing
  <1>3. at \in 0..2 /\ at \in Sectors
    BY <1>1, <1>2, HeldSector DEF VolInv
  \* The write failed.
  <1>4. CASE /\ UNCHANGED mediumVars /\ pc' = "idle" /\ done' = done /\ buf' = NULL /\ result' = TRUE
    BY <1>1, <1>4, VolQuiet DEF mediumVars, Writing, Copying
  <1>5. ASSUME Written(at, buf)
        PROVE  /\ vol' \in [Sectors -> Contents] /\ volMedium' \in [Sectors -> Contents]
               /\ fs = kind => (Kept(vol))' /\ (Kept(volMedium))'
               /\ fs = kind => (AllFrom(vol, "win98", 0))'
    <2>1. /\ vol' \in [Sectors -> Contents] /\ volMedium' \in [Sectors -> Contents]
          /\ fs = kind => (Kept(vol))' /\ (Kept(volMedium))'
      BY <1>1, <1>2, <1>3, <1>5, FlushKept, WrittenKept
    <2>2. ASSUME fs = kind
          PROVE  (AllFrom(vol, "win98", 0))'
      <3>1. AllFrom(vol', "win98", 0)
        BY <1>1, <1>2, <1>5, <2>2, AllApplied DEF Written
      <3>2. QED
        BY <1>1, <3>1 DEF AllFrom
    <2>3. QED
      BY <2>1, <2>2
  \* A FAT16 volume: done.
  <1>6. CASE /\ Written(at, buf) /\ fs # "fat32" /\ pc' = "idle" /\ done' = done \union {"boot"} /\ buf' = NULL
             /\ result' = TRUE
    <2>1. VolControl'
      <3> HIDE DEF Contents
      <3>1. kind' \in Systems \union {"none"} /\ bk' \in {0, Backup} /\ fs' \in Systems
        BY <1>1 DEF VolInv, VolControl
      <3>2. QED
        BY <1>5, <1>6, <3>1 DEF VolControl, Copying, Writing
    <2>2. VolKept'
      BY <1>1, <1>5, <1>6 DEF VolKept
    <2>3. VolProgress'
      BY <1>1, <1>5, <1>6 DEF VolProgress, Copying, BootSectorWritten
    <2>4. QED
      BY <2>1, <2>2, <2>3 DEF VolInv
  \* A FAT32 volume: the backup is next.
  <1>7. CASE /\ Written(at, buf) /\ fs = "fat32" /\ pc' = "copyRead" /\ UNCHANGED <<done, i, result>> /\ buf' = NULL
    <2>1. i = 0
      BY <1>1 DEF VolInv, VolControl
    <2>2. VolControl'
      <3> HIDE DEF Contents
      <3>1. kind' \in Systems \union {"none"} /\ bk' \in {0, Backup} /\ fs' \in Systems /\ result' \in BOOLEAN
        BY <1>1, <1>7 DEF VolInv, VolControl
      <3>2. QED
        BY <1>1, <1>2, <1>5, <1>7, <2>1, <3>1 DEF VolControl, Copying
    <2>3. VolKept'
      BY <1>1, <1>5, <1>7 DEF VolKept
    <2>4. VolProgress'
      <3>1. \A j \in 0..(i' - 1) : FALSE
        BY <1>7, <2>1
      <3>2. QED
        BY <1>1, <1>2, <1>5, <1>7, <3>1 DEF VolProgress, Copying, BootSectorWritten
    <2>5. QED
      BY <2>2, <2>3, <2>4 DEF VolInv
  <1>8. QED
    <2>1. PICK success \in BOOLEAN :
            /\ IF success THEN WriteSector(at, buf) ELSE UNCHANGED mediumVars
            /\ IF CopiesBackup(success)
                 THEN /\ Goto("copyRead")
                      /\ buf' = NULL /\ at' = 0
                      /\ UNCHANGED <<next, i, result>>
                 ELSE Return("boot", success)
      BY DEF FlushLast
    <2>2. CASE ~success
      BY <1>4, <2>1, <2>2 DEF CopiesBackup, Return, Reset
    <2>3. CASE success /\ fs # "fat32"
      BY <1>6, <2>1, <2>3 DEF CopiesBackup, Return, Reset, WriteSector, Written
    <2>4. CASE success /\ fs = "fat32"
      BY <1>7, <2>1, <2>4 DEF CopiesBackup, Goto, WriteSector, Written
    <2>5. QED
      BY <2>2, <2>3, <2>4

LEMMA VolCopyRead == VolInv /\ CopyRead => VolInv'
  <1> SUFFICES ASSUME VolInv, CopyRead PROVE VolInv'
    OBVIOUS
  <1>1. CASE pc' = "aborted" /\ UNCHANGED <<vol, volMedium, kind, bk, fs, done>> /\ buf' = NULL /\ result' = TRUE
    BY <1>1, VolQuiet DEF Writing, Copying
  <1>2. CASE /\ buf' = vol[i] /\ at' = (IF i = 0 THEN bk ELSE at) /\ pc' = "copyWrite"
             /\ UNCHANGED <<vol, volMedium, kind, bk, fs, done, i, result>>
    <2>1. pc = "copyRead" /\ i < 3
      BY DEF CopyRead, BackupSectorCount
    <2>2. i \in 0..2 /\ (i > 0 => at = bk) /\ vol \in [Sectors -> Contents]
      <3> HIDE DEF Contents
      <3>1. QED
        BY <2>1 DEF VolInv, VolControl, Copying
    <2>3. buf' \in Contents /\ buf' # NULL
      <3> HIDE DEF Contents
      <3>1. i \in Sectors
        BY <2>2, SectorNumbers DEF VolInv
      <3>2. QED
        BY <1>2, <2>2, <3>1, NullAssumption
    <2>4. VolControl'
      <3> HIDE DEF Contents
      <3>1. QED
        BY <1>2, <2>1, <2>2, <2>3 DEF VolInv, VolControl, Copying, Writing
    <2>5. VolKept'
      <3>1. fs = kind => Kept(vol) /\ Kept(volMedium)
        BY DEF VolInv, VolKept
      <3>2. fs = kind => (Kept(vol))' /\ (Kept(volMedium))'
        BY <1>2, <3>1 DEF Kept, MayBe
      <3>3. QED
        BY <1>2, <3>2 DEF VolKept
    <2>6. VolProgress'
      BY <1>2, <2>1 DEF VolInv, VolProgress, Copying, BootSectorWritten, AllFrom
    <2>7. QED
      BY <2>4, <2>5, <2>6 DEF VolInv
  <1>3. QED
    BY <1>1, <1>2 DEF CopyRead, ReadSector, Goto, Abort, Reset, mediumVars

LEMMA VolCopyWrite == VolInv /\ CopyWrite => VolInv'
  <1> SUFFICES ASSUME VolInv, CopyWrite PROVE VolInv'
    OBVIOUS
  <1>1. /\ pc = "copyWrite" /\ UNCHANGED <<kind, bk, fs, done, at>> /\ buf' = NULL /\ i' = i + 1 /\ pc' = "copyRead"
        /\ \/ Written(i + at, buf) /\ result' = result
           \/ UNCHANGED <<vol, volMedium>> /\ result' = FALSE
    <2>1. ResultOf(TRUE) = result /\ ResultOf(FALSE) = FALSE
      BY DEF VolInv, VolControl, ResultOf
    <2>2. QED
      BY <2>1 DEF CopyWrite, WriteSector, Written, Goto, mediumVars
  <1>2. /\ i \in 0..2 /\ at = bk /\ vol \in [Sectors -> Contents] /\ volMedium \in [Sectors -> Contents]
        /\ buf \in Contents /\ fs = "fat32" /\ "boot" \notin done /\ result \in BOOLEAN
        /\ bk \in {0, Backup} /\ kind \in Systems \union {"none"} /\ fs \in Systems
    <2> HIDE DEF Contents
    <2>1. QED
      BY <1>1 DEF VolInv, VolControl, Copying, Writing
  <1>3. /\ i \in Sectors /\ bk + i \in Sectors /\ i + at = bk + i /\ bk \in Int
        /\ \A t \in 0..2 : t \in Sectors /\ bk + t \in Sectors /\ (bk = 0 \/ bk + i # t)
    <2>1. bk \in Int
      BY <1>2, BackupAssumption
    <2>2. \A t \in 0..2 : t \in Sectors /\ bk + t \in Sectors /\ (bk = 0 \/ bk + t \notin 0..2)
      BY SectorNumbers DEF VolInv
    <2>3. QED
      BY <1>2, <2>1, <2>2
  <1>4. fs = kind => buf = vol[i]
    BY <1>1 DEF VolInv, VolKept
  <1>5. ASSUME fs = kind, NEW r \in Regions
        PROVE  MayBe(bk + i, r, buf[r])
    <2>1. CopyOf(kind, bk, i) = i /\ CopyOf(kind, bk, bk + i) = i
      BY <1>2, <1>5, CopyNumbers DEF VolInv
    <2>2. Formatted(kind, bk)[bk + i] = Formatted(kind, bk)[i]
      BY <1>2, <1>3, <2>1 DEF Formatted
    <2>3. MayBe(i, r, vol[i][r])
      BY <1>3, <1>5 DEF VolInv, VolKept, Kept
    <2>4. QED
      BY <1>4, <1>5, <2>1, <2>2, <2>3 DEF MayBe
  <1>6. /\ vol' \in [Sectors -> Contents] /\ volMedium' \in [Sectors -> Contents]
        /\ fs = kind => (Kept(vol))' /\ (Kept(volMedium))'
    <2>1. CASE Written(i + at, buf)
      <3>1. Written(bk + i, buf)
        BY <1>3, <2>1
      <3>2. QED
        BY <1>1, <1>2, <1>3, <1>5, <3>1, WrittenKept
    <2>2. CASE UNCHANGED <<vol, volMedium>>
      <3>1. vol' \in [Sectors -> Contents] /\ volMedium' \in [Sectors -> Contents]
        BY <1>2, <2>2
      <3>2. fs = kind => Kept(vol) /\ Kept(volMedium)
        BY DEF VolInv, VolKept
      <3>3. fs = kind => (Kept(vol))' /\ (Kept(volMedium))'
        BY <1>1, <2>2, <3>2 DEF Kept, MayBe
      <3>4. QED
        BY <3>1, <3>3
    <2>3. QED
      BY <1>1, <2>1, <2>2
  <1>7. VolControl'
    <2> HIDE DEF Contents
    <2>1. result' \in BOOLEAN
      BY <1>1, <1>2
    <2>2. QED
      BY <1>1, <1>2, <1>6, <2>1 DEF VolControl, Copying
  <1>8. VolKept'
    BY <1>1, <1>6 DEF VolKept
  <1>9. ASSUME fs = kind
        PROVE  /\ \A t \in 0..2 : vol'[t] = vol[t]
               /\ result' => \A j \in 0..i : vol'[bk + j] = vol[j]
    <2>1. result => \A j \in 0..(i - 1) : vol[bk + j] = vol[j]
      BY <1>1, <1>9 DEF VolInv, VolProgress, Copying
    <2>2. CASE Written(i + at, buf) /\ result' = result
      <3>1. vol' = [vol EXCEPT ![bk + i] = vol[i]]
        BY <1>3, <1>4, <1>9, <2>2 DEF Written
      <3>2. ASSUME NEW t \in 0..2
            PROVE  vol'[t] = vol[t]
        BY <1>2, <1>3, <3>1
      <3>3. ASSUME result, NEW j \in 0..i
            PROVE  vol'[bk + j] = vol[j]
        <4>1. CASE j = i
          BY <1>2, <1>3, <3>1, <4>1
        <4>2. CASE j # i
          <5>1. j \in 0..(i - 1) /\ j \in 0..2 /\ bk + j # bk + i
            BY <1>2, <1>3, <3>3, <4>2
          <5>2. vol[bk + j] = vol[j] /\ bk + j \in Sectors
            BY <1>3, <2>1, <3>3, <5>1
          <5>3. QED
            BY <1>2, <3>1, <5>1, <5>2
        <4>3. QED
          BY <4>1, <4>2
      <3>4. QED
        BY <2>2, <3>2, <3>3
    <2>3. CASE UNCHANGED <<vol, volMedium>> /\ result' = FALSE
      BY <2>3
    <2>4. QED
      BY <1>1, <2>2, <2>3
  <1>10. VolProgress'
    <2>1. ASSUME fs = kind
          PROVE  (AllFrom(vol, "win98", 0))' /\ (result' => \A j \in 0..(i' - 1) : vol'[bk' + j] = vol'[j])
      <3>1. AllFrom(vol, "win98", 0)
        BY <1>1, <2>1 DEF VolInv, VolProgress, Copying
      <3>2. (AllFrom(vol, "win98", 0))'
        BY <1>1, <1>9, <2>1, <3>1 DEF AllFrom
      <3>3. \A j \in 0..(i' - 1) : j \in 0..i /\ j \in 0..2
        BY <1>1, <1>2
      <3>4. QED
        BY <1>1, <1>9, <2>1, <3>2, <3>3
    <2>2. QED
      BY <1>1, <1>2, <2>1 DEF VolProgress, Copying, BootSectorWritten
  <1>11. QED
    BY <1>7, <1>8, <1>10 DEF VolInv

LEMMA VolCopyEnd == VolInv /\ CopyEnd => VolInv'
  <1> SUFFICES ASSUME VolInv, CopyEnd PROVE VolInv'
    OBVIOUS
  <1>1. /\ pc = "copyRead" /\ i = 3 /\ pc' = "idle" /\ UNCHANGED <<vol, volMedium, kind, bk, fs>>
        /\ buf' = NULL /\ result' = TRUE
        /\ done' = IF result THEN done \union {"boot"} ELSE done
    BY DEF CopyEnd, Return, Reset, mediumVars, BackupSectorCount
  <1>2. CASE ~result
    BY <1>1, <1>2, VolQuiet DEF Writing, Copying
  <1>3. CASE result
    <2>1. VolControl'
      <3> HIDE DEF Contents
      <3>1. QED
        BY <1>1 DEF VolInv, VolControl, Copying, Writing
    <2>2. VolKept'
      <3>1. fs = kind => Kept(vol) /\ Kept(volMedium)
        BY DEF VolInv, VolKept
      <3>2. fs = kind => (Kept(vol))' /\ (Kept(volMedium))'
        BY <1>1, <3>1 DEF Kept, MayBe
      <3>3. QED
        BY <1>1, <3>2 DEF VolKept
    <2>3. VolProgress'
      <3>1. ASSUME fs = kind
            PROVE  AllFrom(vol, "win98", 0) /\ \A j \in 0..2 : vol[bk + j] = vol[j]
        BY <1>1, <1>3, <3>1 DEF VolInv, VolProgress, Copying
      <3>2. fs = kind => (AllFrom(vol, "win98", 0))'
        BY <1>1, <3>1 DEF AllFrom
      <3>3. QED
        BY <1>1, <3>1, <3>2 DEF VolProgress, Copying, BootSectorWritten
    <2>4. QED
      BY <2>1, <2>2, <2>3 DEF VolInv
  <1>4. QED
    BY <1>2, <1>3

LEMMA VolFormat == VolInv /\ Format => VolInv'
  <1> SUFFICES ASSUME VolInv, Format PROVE VolInv'
    OBVIOUS
  <1>1. /\ pc' = "idle" /\ UNCHANGED <<fs, buf, result>> /\ kind' \in {fs, "none"} /\ bk' \in {0, Backup}
        /\ vol' = Formatted(kind', bk') /\ volMedium' = vol' /\ "boot" \notin done'
    BY DEF Format, callVars
  <1>2. VolControl'
    <2> HIDE DEF Contents
    <2>1. vol' \in [Sectors -> Contents]
      BY <1>1, FormattedType
    <2>2. kind' \in Systems \union {"none"} /\ fs' \in Systems /\ result' \in BOOLEAN
          /\ (buf' = NULL \/ buf' \in Contents)
      BY <1>1 DEF VolInv, VolControl
    <2>3. QED
      BY <1>1, <2>1, <2>2 DEF VolControl, Copying
  <1>3. (Kept(vol))' /\ (Kept(volMedium))'
    BY <1>1 DEF Kept, MayBe
  <1>4. QED
    BY <1>1, <1>2, <1>3 DEF VolInv, VolKept, VolProgress, BootSectorWritten, Copying

LEMMA VolPowerCycle == VolInv /\ PowerCycle => VolInv'
  <1> SUFFICES ASSUME VolInv, PowerCycle PROVE VolInv'
    OBVIOUS
  <1>1. /\ pc' = "idle" /\ UNCHANGED <<volMedium, kind, bk, fs>> /\ vol' = volMedium /\ buf' = NULL /\ result' = TRUE
        /\ "boot" \in done' => "boot" \in done /\ vol' = vol
    BY DEF PowerCycle, Reset, Unsynced
  <1>2. VolControl'
    <2> HIDE DEF Contents
    <2>1. QED
      BY <1>1 DEF VolInv, VolControl, Copying, Writing
  <1>3. fs = kind => (Kept(vol))' /\ (Kept(volMedium))'
    <2>1. fs = kind => Kept(volMedium)
      BY DEF VolInv, VolKept
    <2>2. QED
      BY <1>1, <2>1 DEF Kept, MayBe
  <1>4. fs = kind => BootSectorWritten'
    BY <1>1 DEF VolInv, VolProgress, BootSectorWritten, AllFrom
  <1>5. QED
    BY <1>1, <1>2, <1>3, <1>4 DEF VolInv, VolKept, VolProgress, Copying

\* The steps that do not concern the volume.
Elsewhere == CallMbr \/ WriteMBRToDrive \/ SetPartitionActive \/ Restart

LEMMA ElsewhereQuiet ==
  ASSUME VolInv, Elsewhere
  PROVE  /\ UNCHANGED <<vol, volMedium, kind, bk, fs>> /\ pc' \notin Writing
         /\ "boot" \in done' => "boot" \in done
         /\ (buf' = NULL \/ buf' = buf) /\ result' \in BOOLEAN
         /\ ~syncLost' => ~syncLost
  <1>1. result \in BOOLEAN
    BY DEF VolInv, VolControl
  <1> USE DEF Writing, Copying
  <1>2. CASE CallMbr
    BY <1>2 DEF CallMbr, Call, Reset, mediumVars
  <1>3. ASSUME NEW content, WriteFirstSector(content)
        PROVE  UNCHANGED <<vol, volMedium, kind, bk>> /\ (~syncLost' => ~syncLost)
    BY <1>3 DEF WriteFirstSector
  <1>4. ASSUME UNCHANGED mediumVars
        PROVE  UNCHANGED <<vol, volMedium, kind, bk>> /\ (~syncLost' => ~syncLost)
    BY <1>4 DEF mediumVars
  <1>5. ASSUME NEW success \in BOOLEAN, Return("mbr", success)
        PROVE  /\ fs' = fs /\ pc' = "idle" /\ ("boot" \in done' => "boot" \in done) /\ buf' = NULL /\ result' = TRUE
    BY <1>5 DEF Return, Reset
  <1>6. CASE WriteMBRToDrive
    <2>1. CASE WriteFirstSector(WithNewCode(mbr)) /\ Goto("setPartitionActive") /\ UNCHANGED callVars
      BY <1>1, <1>3, <2>1 DEF Goto, callVars
    <2>2. CASE Return("mbr", FALSE) /\ UNCHANGED mediumVars
      BY <1>4, <1>5, <2>2
    <2>3. QED
      BY <1>6, <2>1, <2>2 DEF WriteMBRToDrive
  <1>7. CASE SetPartitionActive
    <2>1. CASE WriteFirstSector(WithOnlyFlag(mbr)) /\ Return("mbr", TRUE)
      BY <1>3, <1>5, <2>1
    <2>2. CASE Return("mbr", FALSE) /\ UNCHANGED mediumVars
      BY <1>4, <1>5, <2>2
    <2>3. CASE Abort
      BY <1>4, <2>3 DEF Abort, Goto, Reset
    <2>4. QED
      BY <1>7, <2>1, <2>2, <2>3 DEF SetPartitionActive
  <1>8. CASE Restart
    BY <1>1, <1>8 DEF Restart, Goto, mediumVars, callVars
  <1>9. QED
    BY <1>2, <1>6, <1>7, <1>8 DEF Elsewhere

LEMMA VolElsewhere == VolInv /\ Elsewhere => VolInv'
  <1> SUFFICES ASSUME VolInv, Elsewhere PROVE VolInv'
    OBVIOUS
  <1>1. buf = NULL \/ buf \in Contents
    BY DEF VolInv, VolControl
  <1>2. buf' = NULL \/ buf' \in Contents
    BY <1>1, ElsewhereQuiet
  <1>3. result' \in BOOLEAN
    BY ElsewhereQuiet
  <1>4. QED
    BY <1>2, <1>3, ElsewhereQuiet, VolQuiet

LEMMA VolModifySector == VolInv /\ ModifySector => VolInv'
  <1> SUFFICES ASSUME VolInv, ModifySector PROVE VolInv'
    OBVIOUS
  <1>1. CASE Abort
    BY <1>1, VolQuiet DEF Abort, Goto, Reset, mediumVars, Writing, Copying
  <1>2. CASE ~Abort
    BY <1>2, VolModify DEF ModifySector, Goto, mediumVars
  <1>3. QED
    BY <1>1, <1>2

LEMMA VolStutter == VolInv /\ UNCHANGED vars => VolInv'
  <1> SUFFICES ASSUME VolInv, UNCHANGED vars PROVE VolInv'
    OBVIOUS
  <1>1. UNCHANGED <<vol, volMedium, kind, bk, fs, pc, buf, at, next, i, result, done>>
    BY DEF vars, mediumVars, callVars
  <1>2. VolControl'
    <2> HIDE DEF Contents
    <2>1. QED
      BY <1>1 DEF VolInv, VolControl
  <1>3. VolKept'
    BY <1>1 DEF VolInv, VolKept, Kept, MayBe
  <1>4. VolProgress'
    BY <1>1 DEF VolInv, VolProgress, AllFrom, BootSectorWritten, InHand
  <1>5. QED
    BY <1>2, <1>3, <1>4 DEF VolInv

LEMMA VolNext == VolInv /\ [Next]_vars => VolInv'
  BY VolCall, VolModifySector, VolFlush, VolFlushLast, VolCopyRead, VolCopyWrite, VolCopyEnd,
     VolFormat, VolPowerCycle, VolElsewhere, VolStutter
  DEF Next, Elsewhere

-----------------------------------------------------------------------------
\* As long as the volume is what the program takes it for, code in the boot
\* sectors and their backup is all that changes, to the new code of the same
\* place, whatever fails and whenever the power goes.
THEOREM VolumeSafe == Spec => []VolumeKept
  <1>1. VolInv => VolumeKept
    <2>1. ASSUME Kept(vol), Kept(volMedium)
          PROVE  \A v \in {vol, volMedium} : Kept(v)
      BY <2>1
    <2>2. QED
      BY <2>1 DEF VolInv, VolKept, VolumeKept, Kept, MayBe, New
  <1>2. QED
    BY VolInit, VolNext, <1>1, PTL DEF Spec

\* A boot sector step that reported success has written all of the new code,
\* and the backup of a FAT32 volume is its copy.
THEOREM BootSectorSafe == Spec => []BootSectorWritten
  <1>1. VolInv => BootSectorWritten
    BY DEF VolInv, VolProgress, BootSectorWritten
  <1>2. QED
    BY VolInit, VolNext, <1>1, PTL DEF Spec

-----------------------------------------------------------------------------
(***************************************************************************)
(* One of the two copies is always complete: until the backup is touched   *)
(* it is as it was, and from then on the boot sectors are new, which no    *)
(* later attempt undoes.                                                   *)
(***************************************************************************)
VolWhole ==
  fs = "fat32" /\ kind = "fat32" /\ bk > 0 /\ ~syncLost =>
    /\ volMedium = vol
    /\ AllFrom(vol, "win98", 0) \/ Whole(vol, bk)

LEMMA WholeFormatted ==
  ASSUME NEW b \in {0, Backup}, b > 0
  PROVE  AllFrom(Formatted("fat32", b), "old", b)
  <1>1. ASSUME NEW s \in 0..2
        PROVE  b + s \in Sectors /\ CopyOf("fat32", b, b + s) = s
    BY BackupAssumption, LastAssumption DEF Sectors, CopyOf
  <1>2. ASSUME NEW s \in 0..2
        PROVE  Formatted("fat32", b)[b + s] = SectorOf("old", s)
    BY <1>1 DEF Formatted
  <1>3. QED
    BY <1>2 DEF AllFrom

LEMMA WholeInit == Init => VolWhole
  <1> SUFFICES ASSUME Init, kind = "fat32", bk > 0 PROVE volMedium = vol /\ Whole(vol, bk)
    BY DEF VolWhole
  <1>1. vol = Formatted("fat32", bk) /\ volMedium = vol /\ bk \in {0, Backup}
    BY DEF Init
  <1>2. QED
    BY <1>1, WholeFormatted DEF Whole

\* A boot sector is written, from what was read there and new code.
LEMMA WholeFlush ==
  ASSUME VolInv, VolWhole, UNCHANGED <<kind, bk, fs>>, pc = "modify", buf # NULL, at \in 0..2, WriteSector(at, buf)
  PROVE  VolWhole'
  <1> SUFFICES ASSUME fs = "fat32", kind = "fat32", bk > 0, ~syncLost'
               PROVE  volMedium' = vol' /\ ((AllFrom(vol, "win98", 0))' \/ (Whole(vol, bk))')
    BY DEF VolWhole
  <1>1. /\ vol' = [vol EXCEPT ![at] = buf] /\ volMedium' = [volMedium EXCEPT ![at] = buf] /\ ~syncLost
    BY DEF WriteSector
  <1>2. volMedium = vol /\ (AllFrom(vol, "win98", 0) \/ Whole(vol, bk))
    BY <1>1 DEF VolWhole
  <1>3. vol \in [Sectors -> Contents] /\ bk \in Int
    <2> HIDE DEF Contents
    <2>1. QED
      BY BackupAssumption DEF VolInv, VolControl
  <1>4. ASSUME AllFrom(vol, "win98", 0)
        PROVE  (AllFrom(vol, "win98", 0))'
    <2>1. ASSUME NEW s \in 0..2, NEW r \in Regions, IsCode(kind, s, r)
          PROVE  vol'[0 + s][r] = SectorOf("win98", s)[r]
      <3>1. vol[s][r] = SectorOf("win98", s)[r]
        BY <1>4, <2>1 DEF AllFrom
      <3>2. s = at => buf[r] = vol[s][r] \/ buf[r] = SectorOf("win98", s)[r]
        BY DEF VolInv, VolKept, New
      <3>3. s \in Sectors
        BY SectorNumbers DEF VolInv
      <3>4. QED
        BY <1>1, <1>3, <3>1, <3>2, <3>3
    <2>2. QED
      BY <2>1 DEF AllFrom
  <1>5. ASSUME NEW s \in 0..2
        PROVE  vol'[bk + s] = vol[bk + s]
    <2>1. bk + s \in Sectors /\ bk + s # at
      BY SectorNumbers DEF VolInv
    <2>2. QED
      BY <1>1, <1>3, <2>1
  <1>6. ASSUME Whole(vol, bk)
        PROVE  (Whole(vol, bk))'
    BY <1>5, <1>6 DEF Whole, AllFrom
  <1>7. QED
    BY <1>1, <1>2, <1>4, <1>6

LEMMA WholeSame ==
  ASSUME VolWhole, UNCHANGED <<vol, volMedium, kind, bk, fs>>, ~syncLost' => ~syncLost
  PROVE  VolWhole'
  BY DEF VolWhole, Whole, AllFrom

LEMMA WholeCopyWrite ==
  ASSUME VolInv, VolWhole, CopyWrite, VolInv'
  PROVE  VolWhole'
  <1>1. /\ pc = "copyWrite" /\ pc' = "copyRead" /\ UNCHANGED <<kind, bk, fs>>
        /\ WriteSector(i + at, buf) \/ UNCHANGED mediumVars
    BY DEF CopyWrite, WriteSector, Goto, mediumVars
  <1>2. CASE UNCHANGED mediumVars
    BY <1>1, <1>2, WholeSame DEF mediumVars
  <1>3. CASE WriteSector(i + at, buf)
    <2>1. fs = kind => (AllFrom(vol, "win98", 0))'
      BY <1>1 DEF VolInv, VolProgress, Copying
    <2>2. ~syncLost' => volMedium' = [volMedium EXCEPT ![i + at] = buf] /\ ~syncLost
      BY <1>3 DEF WriteSector
    <2>3. vol' = [vol EXCEPT ![i + at] = buf]
      BY <1>3 DEF WriteSector
    <2>4. QED
      BY <1>1, <2>1, <2>2, <2>3 DEF VolWhole
  <1>4. QED
    BY <1>1, <1>2, <1>3

LEMMA WholeNext == VolInv /\ VolWhole /\ [Next]_vars /\ VolInv' => VolWhole'
  <1> SUFFICES ASSUME VolInv, VolWhole, [Next]_vars, VolInv' PROVE VolWhole'
    OBVIOUS
  <1>1. CASE UNCHANGED <<mediumVars, fs>>
    BY <1>1, WholeSame DEF mediumVars
  <1>2. CASE Elsewhere
    BY <1>2, WholeSame, ElsewhereQuiet
  <1>3. CASE CallBoot
    BY <1>1, <1>3 DEF CallBoot, Call
  <1>4. CASE ModifySector
    BY <1>1, <1>4 DEF ModifySector, Goto, Abort
  <1>5. CASE FlushSector
    <2>1. CASE Abort
      BY <1>1, <2>1 DEF Abort, Goto
    <2>2. CASE ~Abort
      <3>1. pc = "modify" /\ buf # NULL /\ WriteSector(at, buf) /\ fs' = fs
        BY <1>5, <2>2 DEF FlushSector, Goto
      <3>2. UNCHANGED <<kind, bk, fs>>
        BY <3>1 DEF WriteSector
      <3>3. QED
        BY <3>1, <3>2, HeldSector, WholeFlush DEF VolInv
    <2>3. QED
      BY <2>1, <2>2
  <1>6. CASE FlushLast
    <2>1. pc = "modify" /\ buf # NULL
      <3>1. pc = "modify" /\ next = Len(Modifiers(fs)) + 1
        BY <1>6 DEF FlushLast
      <3>2. fs \in Systems /\ Len(Modifiers(fs)) = Count(fs)
        BY Lists DEF VolInv, VolControl
      <3>3. QED
        BY <3>1, <3>2 DEF VolInv, VolControl
    <2>2. fs' = fs /\ (WriteSector(at, buf) \/ UNCHANGED mediumVars)
      BY <1>6 DEF FlushLast, Goto, Return
    <2>3. CASE WriteSector(at, buf)
      <3>1. UNCHANGED <<kind, bk, fs>>
        BY <2>2, <2>3 DEF WriteSector
      <3>2. QED
        BY <2>1, <2>3, <3>1, HeldSector, WholeFlush DEF VolInv
    <2>4. QED
      BY <1>1, <2>2, <2>3
  <1>7. CASE CopyRead
    BY <1>1, <1>7 DEF CopyRead, Goto, Abort
  <1>8. CASE CopyWrite
    BY <1>8, WholeCopyWrite
  <1>9. CASE CopyEnd
    BY <1>1, <1>9 DEF CopyEnd, Return
  <1>10. CASE Format
    <2>1. /\ vol' = Formatted(kind', bk') /\ volMedium' = vol' /\ bk' \in {0, Backup}
      BY <1>10 DEF Format
    <2>2. ASSUME kind' = "fat32", bk' > 0
          PROVE  (Whole(vol, bk))'
      <3>1. ASSUME NEW s \in 0..2
            PROVE  bk' + s \in Sectors /\ CopyOf(kind', bk', bk' + s) = s
        BY <2>1, <2>2, BackupAssumption, LastAssumption DEF Sectors, CopyOf
      <3>2. ASSUME NEW s \in 0..2
            PROVE  vol'[bk' + s] = SectorOf("old", s)
        BY <2>1, <3>1 DEF Formatted
      <3>3. QED
        BY <3>2 DEF Whole, AllFrom
    <2>3. QED
      BY <2>1, <2>2 DEF VolWhole
  <1>11. CASE PowerCycle
    <2>1. /\ vol' = volMedium /\ UNCHANGED <<volMedium, kind, bk, fs, syncLost>>
      BY <1>11 DEF PowerCycle
    <2>2. QED
      BY <2>1 DEF VolWhole, Whole, AllFrom
  <1>12. CASE UNCHANGED vars
    BY <1>1, <1>12 DEF vars
  <1>13. QED
    BY <1>2, <1>3, <1>4, <1>5, <1>6, <1>7, <1>8, <1>9, <1>10, <1>11, <1>12 DEF Next, Elsewhere

\* A power loss at any moment leaves the boot sectors or their backup
\* complete, unless the medium has refused a write behind the program's back.
THEOREM OneCopySafe == Spec => []OneCopyWhole
  <1>1. VolWhole => OneCopyWhole
    BY DEF VolWhole, OneCopyWhole, Whole
  <1>2. QED
    BY VolInit, VolNext, WholeInit, WholeNext, <1>1, PTL DEF Spec

=============================================================================
