# Formal models of Windows 98 QuickInstall

TLA+ models of the QuickInstall sources, TLC configurations that check them on
small instances, and TLAPS proofs of their main theorems.  Paths are relative
to `src/`.

## The system

QuickInstall turns a Windows 98 installation into an archive on a bootable
medium (`sysprep/`, Python, run by the author of a medium) and unpacks it from
a minimal Linux onto a disk (`installer/`, C, run on the target PC).

| Component | State | Operations | What makes it correct |
|---|---|---|---|
| Threaded reader `installer/mappedfile_mt.c` | list of 1 MiB blocks, positions, two locks, a condition, flags read without locks | open, read, copyToFiles, close; the reader thread | the caller sees the file's bytes in order; the list is never broken; memory is bounded; a read error is answered once and by the right thread; nobody waits for ever |
| Plain reader `installer/mappedfile.c` | position, one descriptor | the same | the same, without a thread (an alternative build) |
| Wizard `installer/install.c`, options `install_cfg.inc` | `qi_wizData`: state, disk list, destination, opened file, options, error, progress | one handler per screen; cleanup | the destination is what the user chose and still is valid; steps run in an order that leaves a bootable disk; a failure ends the installation and is reported; every path back to the menu cleans up |
| Disk management `install_disk.c` | the disk list | refresh, wipe, cfdisk | the list is current; the source is not touched |
| Disk access `util_disk.c` | disk list in memory; sectors, mounts outside | parse lsblk, mount, unmount, sector I/O, MBR, boot sector, format command | parents of partitions survive reallocation; the partition table and the BPB survive new boot code; one copy of the boot sector is always whole; the backup matches |
| MercyPak unpacking `install.c:60-223` | position in the archive, up to 16 descriptors | directories, V1 and V2 files | every file gets its data; a failure is noticed, ends cleanly and damages nothing else |
| MercyPak packing `sysprep/mercypak.py` | list of known contents | add a file, write the archive | unpacking gives back the tree |
| File utilities `util.c`, copying a tree `install.c:225-273` | the calls of a recursion, two open files | mkDir, fileCopy, file count, copyFileTree, DOS time | a copied file is whole; a failure is local or reported; the bar fits |
| Hardware quirks `install_hwquirks.c` | PCI list | check | the conflict is recognised |
| Driver collection `sysprep/drivercopy.py`, `sysprep.py:326-386` | output directories that survive the script; the files of the directory in hand | copy, rename, INF rewriting, CAB writing, LZSS, choice of directory | every INF has a CAB with all its files from the right places; no two drivers overwrite each other's files; a medium holds this library's drivers |
| Medium preparation `sysprep/sysprep.py`, `makeiso.py`, `makeusb.py`, `syslinux.py` | a working directory, an image | the pipeline; installing syslinux | each archive holds what it should; the sector map is right |
| Post-setup `sysprep/postsetup/main.c` | registry and SYSTEM.INI of the new system | computer name, network client, logon, password list, cleanup, restart | SYSTEM.INI is never lost; only the right lines change; what is written to two places agrees, after any number of broken runs |
| Boot scripts `supplement/`, `dosflop/` | mounts, environment | find the medium, start the installer | the medium found is the one used |
| Text UI `anbui` | a git submodule without content here | menus, dialogs | external: any answer of the user |

The wizard runs on the program's main thread and calls everything else; the
only other thread is the reader's, one per opened file.  The two share the
reader's structure and nothing more.  The operating system's file is opened
before the main menu and read ahead while the user is in the menus, so the
wizard closes it in whatever state its thread is.  Disks, `lsblk`, `mount`,
`umount`, `mkfs.fat` and `cfdisk` are outside; the wizard holds copies of what
they said and pointers into them.

What is hard here: the interleavings of the two threads over data read without
locks; read errors that are raised in one thread and answered by the other;
the many paths through the wizard that share one structure; failures in the
middle of an installation, of a boot sector or of a copy, of which the disk keeps
the results; a second run over what a broken one left; directories of an
author's machine that survive a failed run; sizes at their limits (block boundaries, the end of a
file, a small memory, sixteen identical files).  `PROJECT.json` lists these hazards with their lines and the
properties that cover them.

## The modules

| Module | Models | Extends |
|---|---|---|
| `ByteStream` | what `mappedfile.h` promises: a sequential stream | |
| `MappedFile` | the reader and its consumer, one step per access to shared data | refines `ByteStream` |
| `MappedFileProofs` | theorems about `MappedFile` | `MappedFile` |
| `Wizard` | wizard, disk management, installation steps, cleanup, restart | |
| `WizardProofs` | theorems about `Wizard` | `Wizard` |
| `MercyPak` | packing, and unpacking V1 and V2 archives from a stream that may fail | |
| `MercyPakProofs` | theorems about packing and unpacking | `MercyPak` |
| `TreeCopy` | copying a directory tree with its progress bar, file by file | |
| `TreeCopyProofs` | theorems about `TreeCopy` | `TreeCopy` |
| `HardDisks` | from the lines of `lsblk` to the list of disks and partitions | |
| `HardDisksProofs` | theorems about `HardDisks` | `HardDisks` |
| `BootSector` | MBR, active flag, boot sector and its backup, sector by sector through the cache | |
| `BootSectorProofs` | theorems about the first sector and about the partition | `BootSector` |
| `DriverCopy` | driver directories to INF and CAB files and onto a medium, start after start | |
| `DriverCopyProofs` | theorems about `DriverCopy` | `DriverCopy` |
| `PostSetup` | the program that runs at the first start of the installed system, run after run | |
| `PostSetupProofs` | theorems about `PostSetup` | `PostSetup` |
| `MC...` | values for the constants | the module they are named after |

How the modules meet: `Wizard` takes a step of the installation as one action
that works or fails; `BootSector`, `TreeCopy` and `MercyPak` open up the steps
that have a course of their own, and show how far it holds what `Wizard` takes for
granted: that a step that worked has done its work (the copy of a tree has not
always, run `tree_all`; `Wizard` lets these two steps succeed with a part).  `MercyPak` reads from a stream that
`ByteStream` specifies and `MappedFile` implements.  `HardDisks` makes the list
in which `Wizard` points.

### MappedFile

The reader thread has a program counter `rpc` and the consumer `cpc`.  Every
bare read of `blockCount`, `readaheadComplete`, `hasError` or `closing` is a
step of its own (`ThreadLoop`, `ThreadRoom`, `WaitCount`, `WaitComplete`,
`WaitError`, `Iterate`), and each critical section that changes the list is
two steps, so that the other thread's bare reads fall into it.  `GetBlock` and
`CloseDrain` only look and are one.  `heap` is the set of allocated blocks with
their `next` pointers; a block holds the offset its bytes really came from
(`from`), which differs from the offset it stands for when the descriptor is
in the wrong place.  A failed read moves the descriptor by any part of a block.
The wait on the condition can end by a signal or by itself.  `Request` picks
`mappedFile_read` or `mappedFile_copyToFiles` and a length; `getUInt8/16/32`
are reads of length 1, 2 and 4.

Refinement: `Stream` maps `MappedFile` to `ByteStream`; `IsStream` says that
every step of the two threads is a step of the sequential stream or leaves it
alone.  The bytes a `read` finds in its buffer are the subject of
`ReadDelivers` instead, because `mappedFile_read` does not advance its
destination.

Not modelled: `malloc` failing, `errno`'s value, a missing callback (then a
read error is answered by RETRY, one of the two answers).

### Wizard

One action per turn of `qi_wizard`'s loop; a turn that only shows a message and
the same menu again changes nothing and is no action.  `DO_INSTALL` is split
into `InstallStart`, one action per step of `qi_install` and `InstallEnd`.
`state` has the names of `qi_WizardAction` (`WizardOrder` keeps their order,
because WIZ_NEXT and WIZ_BACK are `state++` and `state--`), and names for what
may become of the process: `aborted` (an assertion), `crashed`, `joining` (it
hangs in `mappedFile_close`), `shell`, `off`.  The disks are five functions:
the partition tables `layout`, the MBR's code, the active flags, and for each
partition its boot sector and the set of steps whose files are complete on it.
`Start` resets the memory.  What a copying step leaves is `dirty` until the
system writes it back, at the last umount (`WriteBack`) or with `sync`, which
assertions and `qi_exit` call (`Sync`); `PowerCycle` loses any part of it.
`mounts` counts how often a partition is mounted and `hold` says by whom: the
running installer, somebody else, or still after an umount that failed or undid
one of several mounts (`"stays"`), which the wizard does not notice
(`install.c:506`).  `mkfs.fat` is external and refuses a mounted partition.  A
step that copies a tree reports success for a part as well (`Partly`), as
`TreeCopy` shows.  `shown` remembers the installation that was shown as successful
before the user left the program.

A list of disks is allocated at an address of `Arrays`; a new one lies where no
pointer points, which may be where an older one was.  `hda` and `dest` carry the
address, so that a destination that outlives its list points elsewhere than `hda`
(`NoDangling`).  Two addresses tell that apart, and they are symmetric.  `dest`
also carries which menu line the user pointed at and whether he was warned.
`osRoot = "asking"` is the reader thread waiting in
`mappedFile_readAheadHandleError`; a cleanup then hangs (`CleanupHangs`).  A
`reboot` that fails returns, and an assertion ends the program (`Reboot`).

Not modelled: several variants (the choice only selects a directory), the
disclaimer, per-step progress bars, RAID_TEST, hot plugging.  `cfdisk` sets no
active flags.

### MercyPak

`Pack` is the author's side: `AddToKnown` groups files by contents (`Known`),
`Singles` takes the groups apart again for V1, and `GroupV1` and `GroupV2` lay out
the cells of what `Groups` gives.  `Init` starts from `Pack` of any input, so every
property relates the tree that was packed to the one on the partition.  The
archive is a sequence of cells (`header`, `dir`, `count`, `name`, `head`,
`size`, `byte`), each with the value a read at the right place finds; a read of
another kind, or any after a cancelled read error, finds anything
(`Value`).  `end` is how far the readahead got: after a cancelled read error
blocks already read are still served, which `MappedFile` shows.  A read of several bytes that runs past the end of the
file spins: in the copy of data (`ReadFails`) and in that of a header or a name
(`ReadHangs`), the latter in V1 only and after a call has failed, because V2 leaves
its loops at a failure.  `slots`
and `heads` are `fileDescriptorsToWrite` and `filesToWrite`, kept from group to
group as in the code, `fds` the process's descriptors with the file and the
offset behind each.  Sixteen files per group at most are unpacked and eight
packed: `MaxIdentical` and `MaxFilesPerKnownData`.

Not modelled: reads that straddle two blocks (`reader_read`), names longer than
255 bytes, files of 4 GiB, how DOS attributes and times are obtained, and which
of two files of one name should win (`mercypak.py:208`; the inputs hold only
duplicates that keep their order, `OrderAssumption`).

### BootSector

`Wizard` takes each installation step as one action; this module opens the two
that write single sectors.  `mbr` and `vol` are what the kernel holds, `mbrMedium`
and `volMedium` what the medium holds; a write reaches the medium or loses its
`fsync`, which `util_writeSector` does not notice (`syncLost`).  `PowerCycle`
takes the medium's contents.  A sector is cut into the regions that the modifiers
of `mbr_boot_win98.h` distinguish, and a region holds a piece of an image with its
offset, so that data at the wrong place differs from data at the right one.
`ModifySector`, `FlushSector` and `FlushLast` are the turns of the loop in
`util_modifyBootSector` with its one sector in memory (`buf`, `at`), `CopyRead`,
`CopyWrite` and `CopyEnd` the copy to the backup.  `kind` and `bk` say what the
volume really is, `fs` what the program believes (`part->fileSystem`); without
formatting the two may differ.  `done` remembers which operation last returned
success; a formatting undoes "boot", a loss of power what had not reached the
medium.  An operation may be called at any time and in any order, which covers
every path through the wizard.

Not modelled: the boot code itself, reading a sector partly, other programs
writing to the disk.

### HardDisks

One action per line of `lsblk`: a disk, a partition, anything else; `Abort` is an
assertion about the line that is next.  The array is a number, its address, which
`realloc` keeps or changes at every disk; an address that was freed may come back.
`parents` holds what each partition points back to, as an address and a place.
Names are sequences of pieces, so that `sda` begins `sdaa` and `nvme0n1p1` has
digits of its disk; a line carries which disk really holds the partition, and only
the properties look at that.  `Value` searches a line for a key as
`util_getValueFromKey` does: the first column whose name ends with the key, which
is right for `TYPE` only because `TYPE` is printed first.  `OutputsAssumption` is what
the kernel's naming (`PartNamed`) leaves for `lsblk` to print; a device mapper's
partitions, which have names of another kind, are not modelled.

Not modelled: model names and sizes, sector sizes, `lsblk` failing.

### TreeCopy

`qi_copyFileTree` counts the files first (`Start`), with directories that cannot
be opened or read to their end and entries that cannot be looked at, and then calls
the recursive copy; `calls` is the stack of that recursion, each call with the
entries `readdir` has not returned and its `ret`.  `EntryDir` drops the inner
result, as line 253 does.  `Open`, `Transfer` and `FileEnd` are `util_fileCopy`:
sendfile in pieces of any length, then the same again with read and write; both
truncate.  A file is a sequence of blocks, "new" or what was there.

Some failures end nothing.  A failing `readdir` looks like the end of the directory
(`ReadFails`, `install.c:239`), an entry whose `lstat` fails is neither file nor
directory (`EntryPassed`, `util.c:299-307`), a failing `lseek` gives size 0
(`util.c:348`), and the fallback leaves its loop when the source ends before its
size (`EndsEarly`, `util.c:385`): in all four the copy goes on with success.  On
such a source `util_fileCopy` itself calls sendfile again for ever, result "hangs".
The ghosts remember what the code does not: `passed` the entries it passed over,
`cut` the files of which the source gave too little, `hit` the directories with a
failure it noticed, `copied` what it reported as copied.  The properties say what
the copy promises in spite of them; `CopyComplete` leaves the first two aside, to
show that a failure the code did notice gets lost too.

`util_mkDir` is used for one level, the parent being there.  Not modelled: times and
attributes of files (their failure fails the copy like any other call).

### PostSetup

The program is a straight line of calls, `Program`, with `pc` at the next one; few
results are looked at.  A registry key is a member of `keys`, a value a member of
`reg` or `Missing`; `clients` and `net` are the subkeys that the enumerations walk
through.  A text is a sequence of pieces, so that one name begins another one.
`SetValue` and `createRegKey` are the calls whose result is only logged; the
network client (`EnumerateEnd` to `setNetworkConfigFlags`), the user (`ReadUser`)
and the password list (`CreatePwl` to `CopyEnd`) have actions of their own.
Variables without a value and pointers that `fopen` left NULL are choices over what
the build may do.  `PowerLoss` stops the program between two calls and cuts
SYSTEM.INI to any part of what was written to it; `Repair` is the user who puts
SYSTEM.BAK back when Windows does not start; `Start` runs the program again.

A value longer than the 32 bytes that `main.c` has for it makes
`RegQueryValueEx` fail: it is a failed call of `ReadUser`.  A password list that was
written in part, or lost when it is closed, is not noticed (`main.c:506`): a failing
`CreatePwl` may go on as well as leave.

A registry value that was set is taken to be on the disk.  Not modelled: lines
longer than the buffer of `fgets`, the file names by which a 98Lite system is
recognised, log output.

### DriverCopy

A run of `sysprep.py` goes through `phase`: "base" and "ndis" are the two calls of
`driverCopy`, "copy" the `copytree` between them, file by file (`toCopy` holds what is
left), "final" the systems that follow, "failed" any exception or interruption,
after which the output directories `int` and `ndis2` stay as they are.  It may
come in the deletion of `.driver_int` (`Start` leaves any part of it), in the copy
(`copytree` goes on after an error, so that any of the remaining files may be half
there) or while an INF or a CAB is written; a half file has `kind` "part".  `EnterDir`, one `HandleInf` for each INF in any order (`os.listdir`), and
`WriteCab` are `handleDir`; an INF's own files are collected by `KnownFiles` in the
order of the code and merged into `list`.  An exception in `KnownFiles` comes
before the INF is saved, one in the merging after it.  An output file records the
run and the directory it was made in; a packed file records where its data was
read.  A half INF that a later run reads as the new data of a namesake may be empty,
and then it is not packed (`drivercopy.py:576`); `FilesPacked` excuses that one file
(`Broken`), and in a copy that is not finished an INF whose CAB is still to come.
`toCopy` is empty wherever a system is finalized.  An empty `NDIS2` directory
(`library.ndis` = {}) makes a copy, a missing one (NULL) none.  `medium` is what one DRIVER.866 is packed from.

Names are compared as in the code: exactly on the author's disk, without capitals
inside INF files.  A stem that is cut to make room for its counter is not
modelled, because the loop goes on until a name is free.

Not modelled: LZSS (a compressed file can be read or not), the removal of
catalogue files, `--check`, the output of extra drivers (`driver.ex`, the same
function on a directory that is deleted first), files of length zero (they are
never packed, `drivercopy.py:576`), the NDIS2 directory seen as one of the base
directories (it holds no INF).

## The runs

| Run | Question | Result |
|---|---|---|
| `reader_safe` | all safety properties of the reader, its refinement, and whether requests and close return | holds, with the conditions named in the properties |
| `reader_read` | does every read fill its buffer? | no: `dst` is not advanced across a block boundary |
| `wizard_safe` | all safety properties of the wizard | holds |
| `wizard_source` | is the source disk left alone by disk management? | no: F9 |
| `disk_list` | do the pointers survive reallocation, and is the list what `lsblk` said? | holds, for an output in the order of `lsblk` |
| `unpack_safe` | all safety properties of packing and unpacking | holds |
| `tree_safe` | is a copied file whole, a failure local, the bar right? | holds |
| `tree_all` | does a copy that reports success hold all files? | no: the result for a subdirectory is dropped |
| `boot_safe` | do partition table, parameters and a whole boot sector survive everything, and is success true? | holds, for what the kernel holds |
| `driver_safe` | are the drivers that are put out complete, in the right places and not overwritten? | holds |
| `driver_inf` | is an INF in a CAB the driver's own? | no: it is looked up under its original name |
| `post_safe` | is SYSTEM.INI safe and rewritten rightly, and does a complete run repair what broken ones left? | holds, with the conditions named in the properties |

Properties that belong together are checked under one name: `CancelIsFinal` (no
block is refused before a cancelled error, nothing comes after it), `InstallWrites`,
`FilesComplete`, `ListRight` (the list, the numbers, the disk of each partition),
`IniRewritten` (the lines of others are kept, the user's is set) and `RunComplete`
(names, client and logon).  Type invariants are checked where a module has many
variables in common use (`MappedFile`, `Wizard`).

The models hold more behaviour of this kind, on which no run is spent:

* A failed copy in a subdirectory of the extras or extra drivers is dropped
  (`install.c:253`, run `tree_all`) and the installation is shown as complete;
  `EndMeansInstalled` asks for the two trees or a part of them.
* An archive whose last file is empty fails to unpack though nothing failed: the
  copy of no bytes at the end of the file is refused (`mappedfile_mt.c:298`);
  `SoundArchiveUnpacks` excludes such archives by its premise.
* `.driver_int_ndis2` is never deleted (`sysprep.py:343`), so that drivers of an
  earlier start get onto a medium; `MeGetsBase` and `FilesComplete` are about the rest.
* A failed V2 unpacking closes descriptor 0, which the slots hold at first
  (`install.c:170`); `NoLeak` only asks that nothing is left open.
* `fsync` is not looked at (`util_disk.c:459`), so that success is about what the
  kernel holds.
* Two INF files whose names differ in capitals keep their names
  (`drivercopy.py:210`) and meet on a FAT disk.
* In SYSTEM.INI every line behind `[Password Lists]` that begins with the user's
  name is replaced, also those of a longer name and of later sections, and all of
  them for a user without a name (`main.c:457`); `OthersKeptIfDistinct` has that as
  its premise.  A user who is missing from a section that exists is not added, and
  without a section a variable that has no value decides (`main.c:427`).
* A run that finds no user writes an empty one back, which later runs take for the
  user (`main.c:566`).  VREDIR is switched off even if switching FAMILY on failed,
  which is why `ClientLeft` speaks of runs without a failed call.
* A directory that could not be opened when files were counted and can be later
  takes the bar past its end (`install.c:269`); `BarFits` excludes it.
* A partition of `sdaa` whose disk line is missing is listed under `sda`, and a
  partition of a disk that `lsblk` does not call a disk (an array of disks, `md1`)
  ends the program (`util_disk.c:233`).
* A request that runs past the end of a file whose last block is not full never
  returns (`mappedfile_mt.c:273`); `RequestReturns` excludes it by its premise.
* With room for less than two blocks `Threshold` is 0 and a block that is still
  being read is taken for a cancelled read (`mappedfile_mt.c:108`):
  `NoBlockMeansCancel` fails for `MaxBlocks = 1`.
* Starting over while the readahead waits for an answer ends in `"joining"`
  (`install.c:295`): a close joins a reader that waits for an answer nobody can
  give any more, which `CloseReturns` excludes by its second alternative.
* F9 on [Back] uses a disk beyond the array (`install_disk.c:145`).
* The wizard goes on with a destination that is still mounted
  (`install.c:506`), and does not warn of one that begins beyond 128 GiB,
  because it adds sectors to bytes (`install.c:492`).
* After a failed write the V2 unpacker may end the program with an assertion
  on a count that is no count (`install.c:138`), and the V1 unpacker goes on,
  truncating files whose stale name is still in its buffer (`install.c:104`).


### Bounds

`reader_safe`: 11 bytes in blocks of 2, room for 4 blocks, requests of at most
3 bytes: a full list, a partial last block, requests inside a block, across one
boundary and to the end, and a threshold (2) below the limit all occur; two read
errors let a retry fail again; 235,728 states, on which the liveness properties
are checked as well.

`wizard_safe`: two disks, the source a partition of the second; tables with a
primary FAT32, an extended and a logical FAT16 partition, GPT, and the blank one
a wipe leaves, so each check of the destination decides once; two sets of
options, with and without formatting, the second with a tree; a partition mounted
by the installer or by hand, by hand only one that could be a destination, as the
installer looks at the mounts of no other; two addresses.  Nothing bounds the number
of installations, failures, power losses and restarts: 528,346 states.  `MaxMounts`
is 1, so that a partition whose umount failed cannot be mounted once more; the
theorems hold for any number, and 2 mounts were left out only for their time.

`unpack_safe`: four trees, each as V1 and V2, with an empty file in the middle
and at the end, a name packed twice with the same and with other contents, and
four files of the same contents where a group holds two; room for three.  Counts
read from garbage are 0, 1 and 4, one more than there is room for.  Nothing
bounds how many calls fail: 1,850,831 states.

`boot_safe`: seven sectors, with the backup at 3 and one sector of the file
system beyond it, so a write that is one sector off hits something; a primary and
a logical destination; no, one or two partitions active at first; a FAT32 volume
with and without a backup.  Nothing bounds operations, failures and power losses.

`driver_safe`: five driver directories in four libraries and two starts
(`MaxRuns`): INF files of the same name among a driver's own files, in capitals,
two of a directory that disagree on where a file is, one without a version, files
that are compressed, broken, missing or part of Windows.  A third start finds
nothing that a second does not: only `.driver_int_ndis2` outlives a start.  44,717
states.

`disk_list`: three blocks of lines in any order out of seven: two disks of letters
of which one name begins the other one, one that ends in a digit, a drive that is no
disk, partitions without a disk line; two addresses, so that the array moves, stays
and returns.

`tree_safe`: a file and a link at the top, a directory with a file and a directory
with an empty file; files of two, one and no blocks over nothing or over longer ones;
three failed calls, enough for both attempts at a file and one more elsewhere.

`post_safe`: three systems (complete; a 98Lite without some keys, with VREDIR twice
and no FAMILY; one without a network), five pairs of users (none, one of them, a name
that begins another one, one that is too long), three SYSTEM.INI; two runs and one
failed call, and the power may go at every call of each: 687,433 states.  More runs
begin from states the second one can begin from.

### Fairness

Both threads of the reader are scheduled (weak fairness of each: they only
poll, or wait for a mutex the other one holds for a moment).  The user answers
an error dialog in the end (strong fairness of `Answer`, because a waiting
reader that wakes up unasked takes the lock again and again).  Nobody has to
make requests or to close.  The wizard's installation steps go on by themselves
(weak fairness of `InstallerStep`); users and power are free.

## The proofs

For every file size, block size, number of blocks, request length and number of
errors (the named assumptions in `MappedFile`):

* `AnswerSafe` from `HandshakeSafe`: the error handshake.  `AnswerReachesReader`
  is not inductive by itself; `Handshake` adds at which reader step the flags
  may be set and who holds `errorLock`.
* `ListSafe`, from `ChainSafe`: while a thread is inside its critical section
  the list is not intact; `Chain` says what it looks like then, in terms of the
  first and the next offset, so that each half of a critical section can be
  proved separately.
* `HeldBlockSafe`: from `Chain` and the arithmetic of positions in blocks.
* `MemorySafe`: the count is at most `MaxBlocks`, below it between the check
  and the append.
* `TypeSafe`: type correctness.
* `ReaderIsStream`: the initial states and every step of `MappedFile` map to
  `ByteStream`; needs `Chain`, because the bytes copied come from the block.
* `ReadSafe`: while a read is in its first block (up to `FirstEnd`) the buffer holds
  what was read; more than one piece is only copied behind that block's end, so
  a read that stays inside one block is never overwritten (`ReadInv`).
* `CancelSafe`, for `MaxBlocks >= 2`: the readahead ends at the end of the file or
  with a cancelled error, and a threshold above zero keeps a consumer from asking for
  a block that is still being read (`CancelInv`).  For one block it is false.

For every partition number, set of active flags, size of the partition and place
of the backup behind the boot sectors (`BootSector`):

* `TableSafe` and `BootRecordSafe` from `MbrSafe`.  `BootRecordWritten` is not
  inductive: the flag is set after the code was written (`MbrInv` keeps that
  while the program is between the two), and a loss of power brings back the
  medium's sector, of which `MbrInv` knows that its table is kept.
* `VolumeSafe` and `BootSectorSafe` from `VolInv`.  `PatchedSector` says of each
  modifier what it does to each region.  `VolKept` follows a piece from the sector
  that was read over the one in memory to the volume and the medium; `VolProgress`
  says that the modifiers applied so far are in the sector in memory or on the
  volume, that the boot sectors are new before the backup is touched, and that the
  backup is equal as far as it was copied without a failure.
* `OneCopySafe` from `VolWhole`: the boot sectors are new or the backup is whole.  The
  copy begins when the boot sectors are new, and a repeated attempt writes only what
  was read there or new code, so it does not undo that.

For any disks, tables, options and numbers of mounts (`Wizard`), from `WizardInv`:

* `TypeSafe`, `DestinationLives`, `DestinationSafe`, `MenusSafe`, `StepsSafe`,
  `InstalledSafe`, `ProgressSafe`, `WritesSafe`: every property that `wizard_safe`
  checks.  `EndMeansInstalled` needs `Upto(n)`, what is on the disks before step n of
  an installation without an error; `ProgressFits` needs `Counted`, the number of
  steps counted so far; `MenusClean` and `StepsReady` need to know what
  the screen before the menus has left (`VariantClean`, `StepsIdle`, `Prepared`) and
  that the installer holds nothing mounted but what has a mount path (`OwnMounts`).
  The second half of `EndMeansInstalled` needs that what was shown is written back
  and touched by nobody until the next variant is selected (`ShownKept`, `Leaving`).
* `LookupRight`: the partition found for a line of the menu is the line's.  The menu
  counts partitions over all disks, so the proof is about cardinalities.

For any output of `lsblk` and any addresses (`HardDisks`):

* `ParentsSafe` from `ParentsInv`, which adds that there is a list of pointers for each
  disk and that `currentDisk` is the last one.
* `SpecListRight` from `ListInv` and `ParentsInv`.  The lists are compared with the lines
  handled so far: a function numbers the lines of disks in their order (`DisksListed`),
  and in an output in order one for each disk the lines of its partitions (`PartsListed`);
  a line more makes it one longer (`RunsOn`).  That the line's own disk is
  the last one (`LastDisk`) rests on the order, that no other list gets a gap by it on
  the names (`DisksDiffer`); together they make `Abort` impossible (`Taken`).  Without
  the order, `CameFrom` is enough: the number of a name begins behind the name of every
  disk that may take it (`NumeralAt`), so that name begins the right one's
  (`OnItsDiskHolds`).

For any lines, accounts, systems and numbers of runs and failures (`PostSetup`):

* `IniSafe` from `IniInv`: from the moment SYSTEM.INI was moved until it is closed
  again, through any loss of power, SYSTEM.BAK is the installation's.  `Order` fixes
  which call stands where in `Program`, `Course` where each action is and goes.
* `SpecClientLeft`, `SpecRunComplete`, `SpecIniRewritten` from `RunInv`.  Its parts
  say what holds at every call of a run that was lucky so far, since a run that is cut off
  leaves only what does not depend on its variables: `NamesInv` (the two
  places of the name agree from the third call on, because a new name is only drawn when
  the key is there), `ClientsInv` and `NetInv` (the subkeys before `index` are done, and
  VREDIR's flags follow the family logon's), `LogonInv` (with no failure in any run
  all runs choose the same user; the value a run wrote is the one it read), `WriteInv` (the lines of
  SYSTEM.INI before `index` are the backup's or the user's new entry).

For any tree to be copied, any contents at its place and any number of failures
(`TreeCopy`), from `Inv`:

* `SpecCopiedIsSource`, `SpecFailureIsLocal`, `SpecBarFits`.  The stack of calls is a
  chain of directories, and each call's entries that are left lie below its directory
  (`StackOK`); so every file is copied, or being copied, or ahead of exactly one call
  (`Pending`), or passed over or below a directory that was or that failed
  (`CoverOK`).  The bar needs the same
  by numbers: what was counted is what is copied plus what is ahead (`BarOK`).

For any tree to be packed, any limits of a group and any failing calls (`MercyPak`):

* The packing first.  `Known`, `FlattenSeq` and the sums over groups are recursive
  functions; the naturals being well founded (`WellFoundedInduction`), what holds
  at the first argument and passes on to the next holds throughout (`UpToInd`).
  `KnownSorted`: every file is in one place of the groups.  `PackFacts`: each group's
  cells lie one behind the other from where `Starts` says, and `Before` counts the
  files of the groups before.
* `SpecNoLeak` and `SpecWritesToOwnFiles` from `FdsInv`: which slots hold open
  descriptors at each place of the unpacker; those of V2 are closed
  one by one while it succeeds and all together when it fails.
* `SpecSuccessMeansUnpacked` and `SpecSoundArchiveUnpacks` from `PlaceInv`.  Neither is
  inductive: an unpacker that reports success must have been at the right place all along.
  `AtNext`, `AtOpen`, `AtCopy` and `AtFinish` say for each phase at which cell of which
  group it is, which slot is which file, and what of the group is on the partition
  (`Partly`, `Holds`); `FaultInv` says what a failure leaves of that: the success is
  lost, or only noticed when the copy returns, and an empty last file is the one case in
  which the success is lost without a failure (`AtEmptyEnd`).  At the end `Holds` for
  all groups is what was packed, by `KnownSorted` and the order of files of one name.

For any driver directories, INF files and libraries, and any number of starts and
interruptions (`DriverCopy`), from `Inv`:

* The functions first: `UniqueIsFree` (a directory of n files leaves one of n + 1
  counters free), `KnownIs` (whatever the order and the repetitions in an INF, the files
  that become known are those it mentions, each with the directory that the INF gives
  first), `MergedIs` (the list of a directory grows by them and keeps its data) and
  `CabIs` (the CAB holds what the list has data for).
* `SpecFilesComplete`, `SpecPackedAsDesignated`: `Sound` says what any output file is, of
  whatever run; `CabToCome` says that the INF files that are there already wait for
  one name, which is still free, and list nothing that the list does not hold.
  `NdisOut` says that a file of this run in an unfinished copy is one that was copied,
  so that its CAB is there or in `toCopy`.
* `SpecNothingOverwritten`, `SpecMeGetsBase`: `BaseOut` and `NdisOut` say which run and which
  part of the library an output file is from; a directory that is entered has put
  out nothing in this run.

The assumptions are the named ones of the modules: sizes are numbers, the backup
lies behind the boot sectors, the lists are lists of known disks, a pointer to nothing
is none of the others, a driver directory has one INF of a name, the base and the
NDIS2 part of a library are different directories, every Windows has the registry key of
the current user, no VREDIR is switched off before the first run, and `lsblk` prints the
names that the kernel gives.

Model-checked only: all liveness (fairness is beyond the prover).  Every other property
of a passing run is a theorem.

## Plan

Done: the reader, the wizard, packing and unpacking, the list of disks, boot record
and boot sector, copying trees, driver collection, post-setup, and the theorems above.

Left, in this order:

1. `SyslinuxExtents`: the sector map that `syslinux.py` writes covers the loader's file.
2. `FindMedium`: the medium that `findcd.sh` finds is the one that is used.

## Not modelled, and why

The text UI is not in the repository; menus and dialogs are free choices.  The plain
reader (`mappedfile.c`) is an alternative build without a thread, of which
`ByteStream` says what it promises.  `install_hwquirks.c` scans a list once and
keeps nothing; its answer is a free choice.  `install_util.c` formats menus and
paths.  `sysprep.py`, `makeiso.py` and `makeusb.py` call tools one after the other
and stop at the first failure; the part with a state that outlives it is in
`DriverCopy`.  The boot scripts set variables and start programs.  The build
scripts, kernel and busybox configurations, images and firmware hold no logic of
their own, and the bundled DOS and Windows tools are binaries.  What is planned but
not done is listed above.
