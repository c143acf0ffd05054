----------------------------- MODULE HardDisks -----------------------------
(***************************************************************************)
(* util_getSystemHardDisks of util_disk.c: the list of disks and           *)
(* partitions that the wizard shows, read line by line from lsblk.         *)
(*                                                                         *)
(* The list is an array of disks that realloc moves while it grows; every  *)
(* partition points back to its disk.  An address is a number, and a freed *)
(* one may be given out again.  A name is a sequence of pieces, so that    *)
(* one can be the beginning of another.                                    *)
(* Operators under a FAULT comment are plausible slips in the definition   *)
(* that follows them; only the mutation runs use them.                     *)
(***************************************************************************)
EXTENDS Naturals, Sequences

CONSTANTS
  Outputs,    \* bound: what lsblk may print, as sequences of lines
  Addresses,  \* bound: where the array of disks may be
  NULL        \* a pointer to nothing

ASSUME AddressAssumption == NULL \notin Addresses \union [arr : Addresses, disk : Nat]

\* The columns in the order of the command (160).  A line holds a value for
\* each of them in "cols", and in "on" the disk that really holds the
\* partition, which no column shows.
Columns ==
  << <<"TYPE">>, <<"KNAME">>, <<"PART", "TYPE">>, <<"PT", "TYPE">>, <<"FS", "TYPE">> >>

VARIABLES
  output,   \* the lines of lsblk
  line,     \* lines handled
  arr,      \* address of the array of disks
  disks,    \* its contents: each disk's name and kind of table
  parts,    \* the partitions of each disk
  parents,  \* and what each of them points back to
  current,  \* currentDisk: an address and a place in the array, or NULL
  result    \* "running", "listed" or "aborted"

vars == << output, line, arr, disks, parts, parents, current, result >>

Init ==
  /\ output \in Outputs /\ line = 0
  /\ arr = NULL /\ disks = << >> /\ parts = << >> /\ parents = << >> /\ current = NULL /\ result = "running"

IsPrefixOf(s, t) == Len(s) <= Len(t) /\ SubSeq(t, 1, Len(s)) = s
IsSuffixOf(s, t) == Len(s) <= Len(t) /\ SubSeq(t, Len(t) - Len(s) + 1, Len(t)) = s

\* util_getValueFromKey: the first name that ends with the key is taken.
Value(l, key) ==
  LET hit == CHOOSE n \in DOMAIN Columns : /\ IsSuffixOf(key, Columns[n])
                                           /\ \A m \in 1..(n - 1) : ~IsSuffixOf(key, Columns[m])
  IN  l.cols[Columns[hit]]

(***************************************************************************)
(* The file system by the type byte of a DOS table or the GUID of a GPT.   *)
(***************************************************************************)
Guids == {"efi guid", "boot guid", "data guid"}

FsOfByte(b) ==
  CASE b \in {"0x0", ""}                                -> "none"
    [] b \in {"0x5", "0xf"}                             -> "extended"
    [] b \in {"0x4", "0x6", "0xe", "0x14", "0x16", "0x1e"} -> "fat16"
    [] b \in {"0xb", "0xc", "0x1b", "0x1c"}             -> "fat32"
    [] b \in {"0x7", "0x17", "0x27"}                    -> "ntfs"
    [] b = "0x83" -> "linux" [] b = "0x82" -> "swap" [] b = "0xef" -> "efi"
    [] OTHER -> "unsupported"

FsOfGuid(guid, fsType) ==
  CASE guid = "efi guid"  -> "efi" [] guid = "boot guid" -> "gpt_boot"
    [] guid = "data guid" ->
         CASE fsType = "vfat" -> "gpt_vfat" [] fsType \in {"ntfs", "exfat"} -> fsType
           [] fsType \in {"ext2", "ext3", "ext4"} -> "linux" [] OTHER -> "unsupported"

FsOf(partType, fsType) ==
  IF partType \in Guids THEN FsOfGuid(partType, fsType) ELSE FsOfByte(partType)

(***************************************************************************)
(* util_getPartitionIndexOnParent: the digits at the end of the name; none *)
(* of them may belong to the name of the disk.                             *)
(***************************************************************************)
Digit == [c \in {"0", "1", "2", "3", "4", "5", "6", "7", "8", "9"} |->
            CASE c = "0" -> 0 [] c = "1" -> 1 [] c = "2" -> 2 [] c = "3" -> 3 [] c = "4" -> 4
              [] c = "5" -> 5 [] c = "6" -> 6 [] c = "7" -> 7 [] c = "8" -> 8 [] OTHER -> 9]

Number(s) == LET upto[k \in 0..Len(s)] == IF k = 0 THEN 0 ELSE 10 * upto[k - 1] + Digit[s[k]]
             IN  upto[Len(s)]

IsNumeral(s) == s # << >> /\ \A k \in DOMAIN s : s[k] \in DOMAIN Digit

\* Where the digits at the end begin, or 0.
Numeral(name) ==
  LET from == {k \in 1..Len(name) : IsNumeral(SubSeq(name, k, Len(name)))}
  IN  IF from = {} THEN 0 ELSE CHOOSE k \in from : \A j \in from : k <= j

Index(name)       == Number(SubSeq(name, Numeral(name), Len(name)))
HasIndex(name, d) == Numeral(name) > Len(d)

(***************************************************************************)
(* What lsblk prints: the names the kernel gives (a device mapper gives    *)
(* others).  A partition's is that of its disk, a "p" if that one ends in  *)
(* a digit, and a number; no two disks have one name, nor one that of      *)
(* another device that ends in a digit with a "p" behind it.               *)
(***************************************************************************)
Named(l)  == l.cols[<<"KNAME">>]
IsDisk(l) == l.cols[<<"TYPE">>] = "disk"
IsPart(l) == l.cols[<<"TYPE">>] = "part"

EndsInDigit(name) == name[Len(name)] \in DOMAIN Digit

PartNamed(name, d) ==
  LET from == Len(d) + (IF EndsInDigit(d) THEN 2 ELSE 1)
  IN  /\ IsPrefixOf(d, name) /\ IsNumeral(SubSeq(name, from, Len(name)))
      /\ EndsInDigit(d) => name[Len(d) + 1] = "p"

ASSUME OutputsAssumption ==
  \A o \in Outputs :
    /\ o \in Seq({o[k] : k \in DOMAIN o})
    /\ \A n \in DOMAIN o :
         /\ Named(o[n]) \in Seq(STRING) /\ o[n].on \in Seq(STRING) /\ o[n].on # << >>
         /\ IF IsPart(o[n]) THEN PartNamed(Named(o[n]), o[n].on) ELSE Named(o[n]) = o[n].on
    /\ \A m, n \in DOMAIN o : IsDisk(o[m]) =>
         /\ IsDisk(o[n]) /\ m # n => Named(o[m]) # Named(o[n])
         /\ EndsInDigit(o[n].on) => Named(o[m]) # Append(o[n].on, "p")

(***************************************************************************)
(* The loop over the lines (182-243).                                      *)
(***************************************************************************)
Line     == output[line + 1]
TypeIs(t) == line < Len(output) /\ result = "running" /\ Value(Line, <<"TYPE">>) = t
Pointer(a, d) == [arr |-> a, disk |-> d]

\* util_HardDisksUpdatePartitionParents (25-34).
\* FAULT: the disk before the new one is left out.
ReparentedButLast(a) ==
  [d \in DOMAIN parents |-> IF d = Len(parents) THEN parents[d] ELSE [p \in DOMAIN parents[d] |-> Pointer(a, d)]]
Reparented(a) == [d \in DOMAIN parents |-> [p \in DOMAIN parents[d] |-> Pointer(a, d)]]

NewDisk(a) == Pointer(a, Len(disks) + 1)

\* util_HardDiskArrayAppend: realloc leaves the array where it is or moves it.
DiskLine ==
  /\ TypeIs("disk")
  /\ arr' \in Addresses
  /\ disks' = Append(disks, [device |-> Value(Line, <<"KNAME">>), table |-> Value(Line, <<"PT", "TYPE">>)])
  /\ parts' = Append(parts, << >>) /\ parents' = Append(Reparented(arr'), << >>)
  /\ current' = NewDisk(arr')
  /\ line' = line + 1 /\ UNCHANGED << output, result >>

\* FAULT: a name that belongs to another disk is taken as well.
BelongsAlways(name) == TRUE
Belongs(name) == IsPrefixOf(disks[current.disk].device, name)

Accepted(name) ==
  current # NULL /\ Belongs(name) /\ HasIndex(name, disks[current.disk].device)

\* util_HardDiskAddPartition.
PartitionLine ==
  /\ TypeIs("part")
  /\ LET name == Value(Line, <<"KNAME">>)
         part == [device |-> name, index |-> Index(name), logical |-> Index(name) > 4,
                  fs |-> FsOf(Value(Line, <<"PART", "TYPE">>), Value(Line, <<"FS", "TYPE">>))]
     IN  /\ Accepted(name)
         /\ parts' = [parts EXCEPT ![current.disk] = Append(@, part)]
         /\ parents' = [parents EXCEPT ![current.disk] = Append(@, current)]
  /\ line' = line + 1 /\ UNCHANGED << output, arr, disks, current, result >>

\* QI_ASSERT (230, 233) and QI_FATAL (86).
Abort ==
  /\ TypeIs("part") /\ ~Accepted(Value(Line, <<"KNAME">>))
  /\ result' = "aborted" /\ UNCHANGED << output, line, arr, disks, parts, parents, current >>

OtherLine ==
  /\ line < Len(output) /\ result = "running" /\ ~TypeIs("disk") /\ ~TypeIs("part")
  /\ line' = line + 1 /\ UNCHANGED << output, arr, disks, parts, parents, current, result >>

Finish ==
  /\ line = Len(output) /\ result = "running" /\ result' = "listed"
  /\ UNCHANGED << output, line, arr, disks, parts, parents, current >>

Stop == result # "running" /\ UNCHANGED vars

Next == DiskLine \/ PartitionLine \/ Abort \/ OtherLine \/ Finish \/ Stop

Spec == Init /\ [][Next]_vars

-----------------------------------------------------------------------------
(***************************************************************************)
(* What it promises.                                                       *)
(***************************************************************************)
\* However often the array has moved, every partition points to the disk it
\* is listed under, in the array as it is now, and currentDisk to the disk of
\* the last disk line (25-34, 44-50).
ParentsCurrent ==
  /\ \A d \in DOMAIN parents : \A p \in DOMAIN parents[d] : parents[d][p] = Pointer(arr, d)
  /\ current # NULL => current = Pointer(arr, Len(disks))

\* lsblk lists a disk and then its partitions.
InOrder ==
  \A n \in DOMAIN output : IsPart(output[n]) =>
    \E m \in 1..(n - 1) : /\ IsDisk(output[m]) /\ Named(output[m]) = output[n].on
                          /\ \A k \in (m + 1)..n : ~IsDisk(output[k])

\* The lines so far of disks, and of the partitions that disk d holds.
DiskLines   == {n \in 1..line : IsDisk(output[n])}
OwnLines(d) == {n \in 1..line : IsPart(output[n]) /\ output[n].on = disks[d].device}

\* f runs through the lines, each of them once and in their order.
RunsThrough(f, lines) ==
  /\ \A j, k \in DOMAIN f : j < k => f[j] < f[k]
  /\ \A n \in lines : \E k \in DOMAIN f : f[k] = n

DisksListed ==
  \E f \in [1..Len(disks) -> DiskLines] :
    RunsThrough(f, DiskLines) /\ \A d \in 1..Len(disks) : disks[d].device = Named(output[f[d]])

PartsListed(d) ==
  \E f \in [1..Len(parts[d]) -> OwnLines(d)] :
    /\ RunsThrough(f, OwnLines(d))
    /\ \A p \in 1..Len(parts[d]) : LET l == output[f[p]] IN
         /\ parts[d][p].device = Named(l)
         /\ parts[d][p].fs = FsOf(l.cols[<<"PART", "TYPE">>], l.cols[<<"FS", "TYPE">>])

\* An output in that order never ends the program, and the list is what it
\* says: the disks in order and under each its own partitions, each with the
\* file system of its own line, even where the name of one disk begins the
\* name of another (182-243).
ListedAsPrinted ==
  InOrder =>
    /\ result # "aborted"
    /\ result = "listed" => line = Len(output) /\ DisksListed /\ \A d \in DOMAIN disks : PartsListed(d)

\* In such a list the number of a partition is what its name has after the disk's name, and
\* a "p" for a disk whose name ends in a digit (67-90).
IndexRight ==
  InOrder => \A d \in DOMAIN disks : \A p \in DOMAIN parts[d] :
    LET name == parts[d][p].device
        rest == SubSeq(name, Len(disks[d].device) + 1, Len(name))
    IN  \E k \in 1..2 : /\ k = 2 => rest[1] = "p"
                        /\ IsNumeral(SubSeq(rest, k, Len(rest)))
                        /\ parts[d][p].index = Number(SubSeq(rest, k, Len(rest)))

\* Whatever lsblk leaves out, no partition is listed under a disk that does
\* not hold it, unless the name of that disk begins the name of the one that
\* does; the program ends instead (230-233).
OnItsDisk ==
  \A d \in DOMAIN disks : \A p \in DOMAIN parts[d] : \A l \in {output[n] : n \in DOMAIN output} :
    Named(l) = parts[d][p].device => IsPrefixOf(disks[d].device, l.on)

\* All of it: what may be relied on in the list.
ListRight == ListedAsPrinted /\ IndexRight /\ OnItsDisk
=============================================================================
