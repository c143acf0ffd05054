------------------------------ MODULE MercyPak ------------------------------
(***************************************************************************)
(* The MercyPak archives an installation consists of: packed on the        *)
(* author's machine (src/sysprep/mercypak.py) and unpacked on the target   *)
(* (src/installer/install.c).  V1 archives hold each file with its data;   *)
(* V2 archives hold files with the same data as one group.                 *)
(*                                                                         *)
(* A medium is a sequence of cells, each being what one or two reads take  *)
(* together.  Any read may meet a read error that the user cancels; what   *)
(* the readahead still holds can be read afterwards, but no longer at the  *)
(* place the unpacker takes it for (see MappedFile).  mkdir, open, write   *)
(* and the calls that set time and attributes may fail.  Time and          *)
(* attributes of a file are its place in the list of the files packed.     *)
(* Descriptor 0 is the process's standard input, 1 the opened archive.     *)
(* A read delivers what it reads; MappedFile shows when it does not.       *)
(* Operators under a FAULT comment are plausible slips in the definition   *)
(* that follows them; only the mutation runs use them.                     *)
(***************************************************************************)
EXTENDS Integers, Sequences, FiniteSets, SequencesExt

CONSTANTS Names,     \* names a file may have
          Bytes,     \* what a file may hold
          JUNK,      \* a name, or a byte, that is in no archive
          Dirs,      \* directories below the partition's root
          ROOT,      \* the root itself
          DirOf,     \* the directory of each name
          Inputs,    \* bound: what is packed: version, dirs, files
          MaxFilesPerKnownData,
          MaxIdentical,  \* MERCYPAK_V2_MAX_IDENTICAL_FILES
          Sizes      \* bound: sizes and counts that garbage may show

AnyName == Names \union {JUNK}

ASSUME NamesAssumption  == DirOf \in [AnyName -> Dirs \union {ROOT}] /\ DirOf[JUNK] = ROOT
ASSUME InputsAssumption ==
  Inputs \subseteq [version : {1, 2}, dirs : Seq(Dirs),
                    files : Seq([name : Names, data : Seq(Bytes)])]
ASSUME LimitsAssumption ==
  /\ MaxIdentical \in Nat
  /\ MaxFilesPerKnownData \in 1..MaxIdentical
  /\ Sizes \subseteq Nat

VARIABLES
  input,    \* what was packed
  medium,   \* the cells of the archive
  rd,       \* cells read
  end,      \* cells that can be read
  garbled,  \* cells are not what they are taken for
  pc,       \* where the unpacker is
  success, warned,
  d, f,     \* directories made, files done
  count, sub,    \* identicalFileCount, subFile
  slots, heads,  \* fileDescriptorsToWrite, filesToWrite
  buf,      \* the name in destPath
  left,     \* bytes mappedFile_copyToFiles still copies
  fds,      \* the process's open descriptors: [name, off], or a foreign one
  disk,     \* the files on the partition: [data, meta]
  made,     \* the directories on the partition
  failed    \* whether a call of the system has failed

streamVars == <<rd, end, garbled>>
groupVars  == <<count, sub, slots, heads, buf>>
vars == <<input, medium, streamVars, pc, success, warned, d, f, groupVars,
          left, fds, disk, made, failed>>

(***************************************************************************)
(* Packing.                                                                *)
(***************************************************************************)
\* FAULT a full group takes one more.
AddToFull(known, file) ==
  LET same == {k \in DOMAIN known : known[k].data = file.data}
  IN IF same = {}
       THEN Append(known, [data |-> file.data, files |-> <<file>>])
       ELSE [known EXCEPT ![Min(same)] = [data |-> file.data, files |-> Append(@.files, file)]]

\* add_to_known_files: the first group with the same data and room, or a new one.
AddToKnown(known, file) ==
  LET same == {k \in DOMAIN known : /\ known[k].data = file.data
                                    /\ Len(known[k].files) < MaxFilesPerKnownData}
  IN IF same = {}
       THEN Append(known, [data |-> file.data, files |-> <<file>>])
       ELSE [known EXCEPT ![Min(same)] = [data |-> file.data, files |-> Append(@.files, file)]]

Known(files) ==
  LET known[k \in 0..Len(files)] ==
        IF k = 0 THEN << >>
        ELSE AddToKnown(known[k - 1],
                        [name |-> files[k].name, data |-> files[k].data, meta |-> k])
  IN known[Len(files)]

\* V1 has every file by itself, with its own copy of the data.
Singles(known) ==
  FlattenSeq([k \in DOMAIN known |->
    [i \in DOMAIN known[k].files |->
      [data |-> known[k].data, files |-> <<known[k].files[i]>>]]])

Groups(in) == IF in.version = 2 THEN Known(in.files) ELSE Singles(Known(in.files))

Cell(kind, val) == [kind |-> kind, val |-> val]
Data(group) == [k \in DOMAIN group.data |-> Cell("byte", group.data[k])]

\* V1 has the size in the cell of time and attributes.
GroupV1(group) ==
  << Cell("name", group.files[1].name),
     Cell("head", <<group.files[1].meta, Len(group.data)>>) >> \o Data(group)

GroupV2(group) ==
  << Cell("count", Len(group.files)) >>
  \o FlattenSeq([k \in DOMAIN group.files |->
       << Cell("name", group.files[k].name), Cell("head", <<group.files[k].meta, 0>>) >>])
  \o << Cell("size", Len(group.data)) >> \o Data(group)

Cells(in) ==
  [k \in DOMAIN Groups(in) |->
    IF in.version = 2 THEN GroupV2(Groups(in)[k]) ELSE GroupV1(Groups(in)[k])]

\* Grouping may change the order of two files of one name (a:1, a:2, a:1), and
\* which of them should win is open: such inputs are left out.
ASSUME OrderAssumption ==
  \A in \in Inputs : \A k, m \in DOMAIN Groups(in) :
    \A i \in DOMAIN Groups(in)[k].files, j \in DOMAIN Groups(in)[m].files :
      /\ Groups(in)[k].files[i].name = Groups(in)[m].files[j].name
      /\ Groups(in)[k].files[i].meta < Groups(in)[m].files[j].meta
      => k < m \/ (k = m /\ i < j)

Pack(in) ==
  << Cell("header", <<in.version, Len(in.dirs), Len(in.files)>>) >>
  \o [k \in DOMAIN in.dirs |-> Cell("dir", in.dirs[k])]
  \o FlattenSeq(Cells(in))

(***************************************************************************)
(* The stream.                                                             *)
(***************************************************************************)
Version   == medium[1].val[1]
DirCount  == medium[1].val[2]
FileCount == medium[1].val[3]

\* What the cell after the next k is taken for.
Value(k, kind, anything) ==
  IF garbled \/ medium[rd + k + 1].kind # kind THEN anything
                                               ELSE {medium[rd + k + 1].val}

\* n more cells are to be had.
Served(n) == rd + n <= end

\* Reads that take n cells, the first one for a cell of the given kind.
Take(n, kind) ==
  /\ Served(n)
  /\ rd' = rd + n
  /\ garbled' = (garbled \/ medium[rd + 1].kind # kind)
  /\ UNCHANGED end

\* A read that fails k cells ahead: nothing is left, or the user cancels a
\* read error and the readahead keeps some cells before it.
Lose(k) ==
  /\ rd' = rd + k
  /\ \/ rd + k = end /\ UNCHANGED <<end, garbled>>
     \/ /\ rd + k < end
        /\ end = Len(medium)
        /\ end' \in (rd + k)..(end - 1)
        /\ garbled' = TRUE

(***************************************************************************)
(* Header and directories.                                                 *)
(***************************************************************************)
Header ==
  /\ pc = "header"
  /\ \/ Take(1, "header") /\ pc' = "dirs" /\ UNCHANGED <<success, failed>>
     \/ Lose(0) /\ pc' = "done" /\ success' = FALSE /\ failed' = TRUE
  /\ UNCHANGED <<input, medium, warned, d, f, groupVars, left, fds, disk, made>>

\* A directory that cannot be read, made or flagged is worth a warning, no more.
CreateDirectory ==
  /\ pc = "dirs"
  /\ d < DirCount
  /\ d' = d + 1
  /\ \/ /\ \E dir \in Value(0, "dir", Dirs) : made' = made \union {dir}
        /\ Take(1, "dir")
        /\ UNCHANGED <<warned, failed>>
     \/ /\ Take(1, "dir") \/ Lose(0)
        /\ warned' = TRUE /\ failed' = TRUE
        /\ \E more \in {{}} \union {{x} : x \in Dirs} : made' = made \union more
  /\ UNCHANGED <<input, medium, pc, success, f, groupVars, left, fds, disk>>

DirectoriesDone ==
  /\ pc = "dirs"
  /\ d = DirCount
  /\ pc' = "next"
  /\ UNCHANGED <<input, medium, streamVars, success, warned, d, f, groupVars,
                 left, fds, disk, made, failed>>

(***************************************************************************)
(* Opening.                                                                *)
(***************************************************************************)
\* The kernel gives the lowest free number.
NewFd == Min((0..Cardinality(DOMAIN fds)) \ DOMAIN fds)

\* open with O_TRUNC for slot i; the name's directory must exist.
Open(i, n) ==
  \/ /\ DirOf[n] \in made \union {ROOT}
     /\ slots' = [slots EXCEPT ![i] = NewFd]
     /\ fds' = [x \in DOMAIN fds \union {NewFd} |->
                  IF x = NewFd THEN [name |-> n, off |-> 0] ELSE fds[x]]
     /\ disk' = [x \in DOMAIN disk \union {n} |->
                   IF x = n THEN [data |-> <<>>, meta |-> 0] ELSE disk[x]]
  \/ /\ slots' = [slots EXCEPT ![i] = -1]
     /\ UNCHANGED <<fds, disk>>

\* FAULT open is taken to succeed.
AnySlot(i) == slots'[i] \in Int

\* Descriptor 0 does not count as opened.
SlotOpened(i) == slots'[i] > 0

\* Name and head of the next file, which goes into slot i.  What cannot be
\* read leaves the buffers as they were, or with a part of the new contents.
OpenNext(i, anyHead) ==
  \/ /\ Take(2, "name")
     /\ \E n \in Value(0, "name", AnyName), h \in Value(1, "head", anyHead) :
          buf' = n /\ heads' = [heads EXCEPT ![i] = h] /\ Open(i, n)
     /\ success' = (success /\ SlotOpened(i))
     /\ failed' = (failed \/ slots'[i] < 0)
  \/ /\ \/ Lose(0) /\ buf' \in {buf, JUNK}
        \/ Lose(1) /\ buf' \in Value(0, "name", AnyName)
     /\ \E h \in anyHead \union {heads[i]} : heads' = [heads EXCEPT ![i] = h]
     /\ Open(i, buf')
     /\ success' = FALSE
     /\ failed' = TRUE

\* mappedFile_copyToFiles fails at once at the end of the file.
CopyFrom == IF rd' >= Len(medium) THEN "copyFailed" ELSE "copy"

\* V1: the head of one file.
FileV1 ==
  /\ pc = "next" /\ Version = 1
  /\ f < FileCount
  /\ count' = 1 /\ sub' = 0
  /\ OpenNext(1, {0} \X Sizes)
  /\ left' = heads'[1][2]
  /\ pc' = IF slots'[1] < 0 THEN "aborted" ELSE CopyFrom
  /\ UNCHANGED <<input, medium, warned, d, f, made>>

GroupStart ==
  /\ pc = "next" /\ Version = 2
  /\ f < FileCount
  /\ sub' = 0
  /\ \/ /\ count' \in Value(0, "count", Sizes)
        /\ Take(1, "count")
        /\ pc' = IF count' > MaxIdentical THEN "aborted"
                 ELSE IF success THEN "open" ELSE "close"
        /\ UNCHANGED <<success, failed>>
     \/ /\ Lose(0) /\ success' = FALSE /\ failed' = TRUE
        /\ pc' = "close" /\ count' = count
  /\ UNCHANGED <<input, medium, warned, d, f, slots, heads, buf, left, fds, disk, made>>

OpenSubFile ==
  /\ pc = "open"
  /\ sub < count
  /\ OpenNext(sub + 1, {<<0, 0>>})
  /\ sub' = sub + 1
  /\ pc' = IF success' THEN "open" ELSE "close"
  /\ UNCHANGED <<input, medium, warned, d, f, count, left, made>>

\* A size that cannot be read is zero, or as much as was read of it.
GroupSize ==
  /\ pc = "open"
  /\ sub = count
  /\ sub' = 0
  /\ \/ /\ left' \in Value(0, "size", Sizes)
        /\ Take(1, "size")
        /\ UNCHANGED <<success, failed>>
     \/ Lose(0) /\ left' \in Sizes /\ success' = FALSE /\ failed' = TRUE
  /\ pc' = CopyFrom
  /\ UNCHANGED <<input, medium, warned, d, f, count, slots, heads, buf, fds, disk, made>>

\* The next cell is not of the kind that it is taken for.
Astray(kind) == garbled \/ (rd < Len(medium) /\ medium[rd + 1].kind # kind)

\* The next read is one of several bytes, for a cell of this kind.
ReadsLong(kind) ==
  \/ pc = "next" /\ Version = 1 /\ f < FileCount /\ kind = "name"
  \/ pc = "open" /\ kind = IF sub < count THEN "name" ELSE "size"

\* mappedFile_read spins if the end of the file falls within what it reads, as
\* it may when the bytes are not what they are taken for; V2's count is a byte
\* and cannot straddle the end.
ReadHangs ==
  /\ \E kind \in {"name", "size"} : ReadsLong(kind) /\ Astray(kind)
  /\ end = Len(medium)
  /\ rd' = end
  /\ pc' = "hung"
  /\ UNCHANGED <<input, medium, end, garbled, success, warned, d, f, groupVars,
                 left, fds, disk, made, failed>>

(***************************************************************************)
(* Data, time and attributes.                                              *)
(***************************************************************************)
\* A byte goes into the first k files of the group.
Write(c, k) ==
  LET to == {slots[i] : i \in 1..k}
      Holds(n) == {x \in to : fds[x].name = n}
  IN /\ fds' = [x \in DOMAIN fds |->
                  IF x \in to THEN [name |-> fds[x].name, off |-> fds[x].off + 1] ELSE fds[x]]
     /\ disk' = [n \in DOMAIN disk |->
                   IF Holds(n) = {} THEN disk[n]
                   ELSE [data |-> SubSeq(disk[n].data, 1, fds[Min(Holds(n))].off) \o <<c>>,
                         meta |-> disk[n].meta]]

Copy ==
  /\ pc = "copy"
  /\ left > 0
  /\ Take(1, "byte")
  /\ \E c \in Value(0, "byte", {JUNK}) : Write(c, count)
  /\ left' = left - 1
  /\ UNCHANGED <<input, medium, pc, success, warned, d, f, groupVars, made, failed>>

\* A write fails, or is short, before or after others of the same bytes.
WriteFails ==
  /\ pc = "copy"
  /\ left > 0
  /\ rd < end
  /\ count > 0
  /\ \E c \in Value(0, "byte", {JUNK}), k \in 0..(count - 1) : Write(c, k)
  /\ pc' = "copyFailed"
  /\ failed' = TRUE
  /\ UNCHANGED <<input, medium, streamVars, success, warned, d, f, groupVars,
                 left, made>>

\* A cancelled read error; or, for a size that was garbage, the end of the
\* file, where the reader may spin for ever (see MappedFile).
ReadFails ==
  /\ pc = "copy"
  /\ left > 0
  /\ Lose(0)
  /\ pc' \in {"copyFailed"} \union (IF rd = Len(medium) THEN {"hung"} ELSE {})
  /\ failed' = TRUE
  /\ UNCHANGED <<input, medium, success, warned, d, f, groupVars, left, fds,
                 disk, made>>

\* What success is after the data.
CopyResult == success /\ pc = "copy"

CopyReturns ==
  /\ pc = "copyFailed" \/ (pc = "copy" /\ left = 0)
  /\ success' = CopyResult
  /\ IF Version = 1 \/ (success' /\ count > 0)
       THEN pc' = "finish" /\ f' = f
       ELSE pc' = "next" /\ f' = f + count
  /\ UNCHANGED <<input, medium, streamVars, warned, d, groupVars, left, fds,
                 disk, made, failed>>

Closed(which) == [x \in DOMAIN fds \ which |-> fds[x]]

\* FAULT all the files get the head of the first.
HeadOfFirst == heads[1]

HeadOfFile == heads[sub + 1]

\* Time and attributes of one file, then close.
Finish ==
  /\ pc = "finish"
  /\ LET fd == slots[sub + 1] IN
     /\ \/ /\ disk' = [disk EXCEPT ![fds[fd].name] = [data |-> @.data, meta |-> HeadOfFile[1]]]
           /\ UNCHANGED <<success, failed>>
        \/ success' = FALSE /\ failed' = TRUE /\ disk' = disk
     /\ fds' = Closed({fd})
  /\ sub' = sub + 1
  /\ IF sub' = count \/ (Version = 2 /\ ~success')
       THEN pc' = "next" /\ f' = f + count
       ELSE pc' = pc /\ f' = f
  /\ UNCHANGED <<input, medium, streamVars, warned, d, count, slots, heads, buf,
                 left, made>>

FilesDone ==
  /\ pc = "next"
  /\ f >= FileCount
  /\ pc' = IF Version = 2 /\ ~success THEN "close" ELSE "done"
  /\ UNCHANGED <<input, medium, streamVars, success, warned, d, f, groupVars,
                 left, fds, disk, made, failed>>

\* FAULT only the files of the group that was opened last are closed.
CloseSub == {slots[i] : i \in 1..sub}

\* After a failure V2 closes all the slots, used or not ("Just in case").
CloseSlots == {slots[i] : i \in 1..MaxIdentical}

Close ==
  /\ pc = "close"
  /\ fds' = Closed(CloseSlots)
  /\ pc' = "done"
  /\ UNCHANGED <<input, medium, streamVars, success, warned, d, f, groupVars,
                 left, disk, made, failed>>

Ended == pc \in {"done", "aborted", "hung"} /\ UNCHANGED vars

Init ==
  /\ input \in Inputs
  /\ medium = Pack(input)
  /\ rd = 0 /\ end = Len(medium) /\ garbled = FALSE
  /\ pc = "header" /\ success = TRUE /\ warned = FALSE
  /\ d = 0 /\ f = 0 /\ count = 0 /\ sub = 0
  /\ slots = [i \in 1..MaxIdentical |-> 0]
  /\ heads = [i \in 1..MaxIdentical |-> <<0, 0>>]
  /\ buf = JUNK /\ left = 0
  /\ fds = [x \in {0, 1} |-> [name |-> JUNK, off |-> 0]]
  /\ disk = [n \in {} |-> 0] /\ made = {} /\ failed = FALSE

Next ==
  \/ Header \/ CreateDirectory \/ DirectoriesDone
  \/ FileV1 \/ GroupStart \/ OpenSubFile \/ GroupSize \/ ReadHangs
  \/ Copy \/ WriteFails \/ ReadFails \/ CopyReturns
  \/ Finish \/ FilesDone \/ Close
  \/ Ended

Spec == Init /\ [][Next]_vars

(***************************************************************************)
(* Properties.                                                             *)
(***************************************************************************)
Foreign == {0, 1}

\* What the author packed under a name last.
Packed(n) ==
  LET k == Max({j \in DOMAIN input.files : input.files[j].name = n})
  IN [data |-> input.files[k].data, meta |-> k]

PackedNames == {input.files[j].name : j \in DOMAIN input.files}

\* If unpacking reports success, the partition holds every packed file with its
\* data, time and attributes, and no other file, whatever failed on the way and
\* however files were grouped.  The exception is a read error cancelled within
\* the directories, which the unpacker only warns of.
SuccessMeansUnpacked ==
  pc = "done" /\ success /\ (warned => end = Len(medium)) =>
    /\ DOMAIN disk = PackedNames
    /\ \A n \in PackedNames : disk[n] = Packed(n)

\* As long as no call fails an archive is unpacked without an assertion and
\* without spinning; it succeeds if its last file is not empty.  Whatever
\* fails, V2 does not spin.
SoundArchiveUnpacks ==
  /\ ~failed => pc \notin {"aborted", "hung"}
  /\ ~failed /\ pc = "done" => success \/ Last(medium).kind # "byte"
  /\ pc = "hung" => Version = 1

\* Whatever fails and wherever, the unpacker leaves no file open.
NoLeak == pc = "done" => DOMAIN fds \subseteq Foreign

\* Data goes to files of the archive's group only, each opened for this group
\* and at the same place: never to a descriptor left in a slot by an earlier one.
WritesToOwnFiles ==
  pc = "copy" =>
    LET used == {slots[i] : i \in 1..count} IN
    /\ used \subseteq DOMAIN fds \ Foreign
    /\ Cardinality(used) = count
    /\ \A x, y \in used : fds[x].off = fds[y].off
=============================================================================
