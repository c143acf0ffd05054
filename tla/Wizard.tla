------------------------------- MODULE Wizard -------------------------------
(***************************************************************************)
(* The installer itself: the wizard of src/installer/install.c with its    *)
(* disk management (install_disk.c), its configuration (install_cfg.inc)   *)
(* and the mounting of util_disk.c, together with what it does to the      *)
(* disks.  qi_wizData is the state; one action is one turn of the wizard's *)
(* loop, except that every step of an installation is an action of its     *)
(* own, because each may fail and leave the disk half done.  The operating *)
(* system's file is opened, and read ahead by the thread that MappedFile   *)
(* models, before the main menu appears; here it only matters whether that *)
(* thread waits for an answer to a read error.                             *)
(*                                                                         *)
(* The user is free at every dialog; disks, cfdisk, mkfs, mount and umount *)
(* may fail at every call; and the machine may be switched off and booted  *)
(* from the medium again at any moment.                                    *)
(* Operators under a FAULT comment are plausible slips in the definition   *)
(* that follows them; only the mutation runs use them.                     *)
(***************************************************************************)
EXTENDS Integers, Sequences, FiniteSets

CONSTANTS DiskList,  \* the disks in the order lsblk lists them
          Indexes,   \* partition numbers in use, those above 4 are logical
          Source,    \* the partition <<disk, index>> the installer runs from
          Layouts,   \* bound: the partition tables a disk may have
          Choices,   \* bound: the sets of options the user may enable
          MaxMounts, \* bound: how often a partition may be mounted
          Arrays,    \* addresses at which a list of disks may be allocated
          NULL       \* a pointer to nothing

Disks == {DiskList[k] : k \in 1..Len(DiskList)}

\* The partitions there could be.
Slots == Disks \X Indexes

\* A partition table: its type and, for each partition, its file system and
\* where it lies, in GiB.
Extents == [fs : {"fat16", "fat32", "extended", "other"}, start : Nat, size : Nat]

ASSUME DisksAssumption   == /\ DiskList \in Seq(Disks) /\ Disks # {}
                            /\ Cardinality(Disks) = Len(DiskList)
ASSUME IndexesAssumption == Indexes \subseteq Nat \ {0} /\ IsFiniteSet(Indexes)
ASSUME SourceAssumption  == Source \in Slots
ASSUME LayoutsAssumption ==
  \A l \in Layouts : /\ l.table \in {"dos", "gpt", "none"}
                     /\ DOMAIN l.parts \subseteq Indexes
                     /\ \A i \in DOMAIN l.parts : l.parts[i] \in Extents
ASSUME MaxMountsAssumption == MaxMounts \in Nat \ {0}

\* What a wiped disk holds.
Blank == [table |-> "none", parts |-> [i \in {} |-> 0]]

\* The options of install_cfg.inc that can be switched off, and those that
\* are switched on when the program starts.
Options  == {"mbr", "format", "bootSector", "legacy", "driversBase",
             "driversExtra", "extras", "cregfix", "lba64", "uefi"}
Defaults == {"mbr", "bootSector", "format", "legacy", "driversBase"}
Always   == {"mount", "baseOS", "registry"}

ASSUME ChoicesAssumption == \A c \in Choices : c \subseteq Options

\* Two addresses tell a list from the one before it.
ASSUME ArraysAssumption == \A a \in Arrays \union {NULL} : \E b \in Arrays : b # a

\* What a pointer to a disk list, a destination or a file may point at; a
\* destination lies in the list that was allocated at "at".
Lists        == [Disks -> Layouts \union {Blank}]
DiskArrays   == [at : Arrays, list : Lists]
Destinations == [part : Slots, fs : {"fat16", "fat32"}, at : Arrays,
                 chosen : Slots, warned : BOOLEAN]
ASSUME NullAssumption ==
  NULL \notin DiskArrays \union Destinations \union [part : Slots, yes : SUBSET Options]
             \union {"open", "asking"}

VARIABLES
  layout,    \* partition table of each disk
  code,      \* boot code in each disk's first sector
  active,    \* partitions flagged active on each disk
  boot,      \* boot sector of each partition
  files,     \* the results of copying steps each partition holds
  mounts,    \* how often each partition is mounted
  hold,      \* who holds it mounted: the running installer ("mine"), somebody
             \* else ("other"), or an umount that did not free it ("stays")
  dirty,     \* results on each partition that are not written back yet
  state,     \* the wizard's state, or what has become of the program
  hda,       \* the list of disks the program holds and its address, or NULL
  dest,      \* destination, or NULL: the partition, its file system, the
             \* address of the list it points into, the partition the user
             \* pointed at, and whether he was warned of its size
  paths,     \* the partitions whose mountPath is set
  osRoot,    \* osRootFile: NULL, "open", or "asking" about a read error
  yes,       \* the options that are enabled
  step,      \* the next step of the running installation
  error,
  progress,  \* preparationProgress
  box,       \* whether the progress box exists
  shown      \* the installation that was shown as successful before the last
             \* exit, or NULL: its partition and options

diskVars   == <<layout, code, active, boot, files>>
memoryVars == <<hda, dest, paths, osRoot, yes, step, error, progress, box>>
mountVars  == <<mounts, hold, dirty>>
vars == <<diskVars, mountVars, state, memoryVars, shown>>

(***************************************************************************)
(* The disks.                                                              *)
(***************************************************************************)
PartitionsOf(list) == {p \in Slots : p[2] \in DOMAIN list[p[1]].parts}

Extent(list, p) == list[p[1]].parts[p[2]]

\* Position of a disk in the list.
Rank(d) == CHOOSE k \in 1..Len(DiskList) : DiskList[k] = d

Before(p, q) == \/ Rank(p[1]) < Rank(q[1])
                \/ p[1] = q[1] /\ p[2] < q[2]

\* FAULT an index counted from one.
PartitionFromOne(list, n) ==
  CHOOSE p \in PartitionsOf(list) :
    Cardinality({q \in PartitionsOf(list) : Before(q, p)}) = (IF n = 0 THEN 0 ELSE n - 1)

\* util_getPartitionFromIndex: the partition with n others before it.
PartitionFromIndex(list, n) ==
  CHOOSE p \in PartitionsOf(list) :
    Cardinality({q \in PartitionsOf(list) : Before(q, p)}) = n

\* The lines of the destination menu, disk by disk.
MenuItem(list, n, p) ==
  n = Cardinality({q \in PartitionsOf(list) : Rank(q[1]) < Rank(p[1])})
      + Cardinality({i \in DOMAIN list[p[1]].parts : i < p[2]})

\* umount for each of the partitions in ps that is mounted; it may fail.
Unmount(ps) ==
  \E done \in SUBSET {p \in ps : mounts[p] > 0} :
    /\ mounts' = [p \in Slots |-> IF p \in done THEN mounts[p] - 1 ELSE mounts[p]]
    /\ hold' = [p \in Slots |-> IF p \notin ps \/ mounts[p] = 0 THEN hold[p]
                               ELSE IF mounts'[p] = 0 THEN "free" ELSE "stays"]

\* The last umount of a partition writes back what it holds.
WriteBack == dirty' = [p \in Slots |-> IF mounts'[p] = 0 THEN {} ELSE dirty[p]]

\* FAULT nothing is written back on the way out.
SyncNothing == dirty' = dirty

\* sync()
Sync == dirty' = [p \in Slots |-> {}]

\* A new list of disks lies where no pointer points.
NewArray(a) == a \in Arrays /\ (dest # NULL => a # dest.at)

\* FAULT the destination survives a new list of disks.
RefreshKeepsDestination ==
  /\ Unmount(paths) /\ WriteBack
  /\ paths' = {}
  /\ \E a \in Arrays : NewArray(a) /\ hda' = [at |-> a, list |-> layout]
  /\ dest' = dest

\* qi_refreshDisks: the old list goes, and with it what it has mounted.
Refresh ==
  /\ Unmount(paths) /\ WriteBack
  /\ paths' = {}
  /\ \E a \in Arrays : NewArray(a) /\ hda' = [at |-> a, list |-> layout]
  /\ dest' = NULL

(***************************************************************************)
(* The wizard's states in the order of qi_WizardAction, which WIZ_NEXT and *)
(* WIZ_BACK move along.                                                    *)
(***************************************************************************)
WizardOrder == <<"VARIANT_SELECT", "MAIN_MENU", "DISKMGMT", "HELP",
                 "SELECT_PARTITION", "CONFIGURE", "DO_INSTALL", "THE_END",
                 "REDO_FROM_START", "EXIT_TO_SHELL", "EXIT_ERROR", "REBOOT">>

Screens == {WizardOrder[k] : k \in 1..Len(WizardOrder)}

Place == CHOOSE k \in 1..Len(WizardOrder) : WizardOrder[k] = state

GoNext == state' = WizardOrder[Place + 1]
GoBack == state' = WizardOrder[Place - 1]

\* QI_ASSERT or QI_FATAL: the process is gone after a sync, mounts stay.
Abort == state' = "aborted" /\ Sync

(***************************************************************************)
(* Screens that lead up to an installation.                                *)
(***************************************************************************)
VariantSelect ==
  /\ state = "VARIANT_SELECT"
  /\ \/ osRoot' = "open" /\ GoNext /\ dirty' = dirty /\ shown' = NULL
     \/ osRoot' = osRoot /\ Abort /\ shown' = shown
  /\ UNCHANGED <<diskVars, mounts, hold, hda, dest, paths, yes, step, error,
                 progress, box>>

\* The reader thread meets a read error and waits for an answer.
ReadAheadError ==
  /\ osRoot = "open"
  /\ state \in Screens
  /\ osRoot' = "asking"
  /\ UNCHANGED <<diskVars, mountVars, state, hda, dest, paths, yes, step, error,
                 progress, box, shown>>

MainMenu ==
  /\ state = "MAIN_MENU"
  /\ state' \in {"SELECT_PARTITION", "DISKMGMT", "HELP", "EXIT_TO_SHELL",
                 "REDO_FROM_START"}
  /\ UNCHANGED <<diskVars, mountVars, memoryVars, shown>>

Help ==
  /\ state = "HELP"
  /\ state' = "MAIN_MENU"
  /\ UNCHANGED <<diskVars, mountVars, memoryVars, shown>>

\* lsblk cannot be run: the old list is gone, an assertion ends the program.
DisksUnknown ==
  /\ state \in {"SELECT_PARTITION", "DISKMGMT"}
  /\ Unmount(paths)
  /\ paths' = {} /\ hda' = NULL /\ dest' = NULL
  /\ Abort
  /\ UNCHANGED <<diskVars, osRoot, yes, step, error, progress, box, shown>>

\* ESC, or no disk, or no partition.
DestinationLeave ==
  /\ state = "SELECT_PARTITION"
  /\ Refresh
  /\ state' = "MAIN_MENU"
  /\ UNCHANGED <<diskVars, osRoot, yes, step, error, progress, box, shown>>

\* FAULT the file system is not looked at.
AcceptsAnyFileSystem(list, p) ==
  /\ p # Source
  /\ list[p[1]].table = "dos"
  /\ p[2] <= 4

\* FAULT logical partitions are let through.
AcceptsLogical(list, p) ==
  /\ p # Source
  /\ list[p[1]].table = "dos"
  /\ Extent(list, p).fs \in {"fat16", "fat32"}

\* The checks that show an error and the menu again.
Acceptable(list, p) ==
  /\ p # Source
  /\ list[p[1]].table = "dos"
  /\ Extent(list, p).fs \in {"fat16", "fat32"}
  /\ p[2] <= 4

\* lsblk gives START in sectors of 512 bytes and SIZE in bytes.
ReportedStart(x) == x.start \div 512

Oversize(x) == x.size >= 128 \/ ReportedStart(x) + x.size > 128

DestinationSelect(n, p) ==
  /\ state = "SELECT_PARTITION"
  /\ p \in PartitionsOf(layout)
  /\ MenuItem(layout, n, p)
  /\ LET q == PartitionFromIndex(layout, n) IN
     /\ Acceptable(layout, q)
     /\ Unmount(paths \union {q}) /\ WriteBack
     /\ paths' = {}
     /\ \E a \in Arrays :
          /\ NewArray(a)
          /\ hda' = [at |-> a, list |-> layout]
          /\ dest' = [part |-> q, fs |-> Extent(layout, q).fs, at |-> a,
                     chosen |-> p, warned |-> Oversize(Extent(layout, q))]
  /\ GoNext
  /\ UNCHANGED <<diskVars, osRoot, yes, step, error, progress, box, shown>>

\* What the user set is kept even if the screen is left with ESC.
Configure ==
  /\ state = "CONFIGURE"
  /\ yes' \in Choices
  /\ \/ GoBack
     \/ UNCHANGED state    \* a warning or a hardware quirk was not accepted
     \/ GoNext
  /\ UNCHANGED <<diskVars, mountVars, hda, dest, paths, osRoot, step, error,
                 progress, box, shown>>

(***************************************************************************)
(* Disk management.                                                        *)
(***************************************************************************)
\* One round of the menu that ends at disk d: the new table, boot code and
\* active flags.
Repartition(d, new, newCode, newActive) ==
  /\ state = "DISKMGMT"
  /\ Refresh
  /\ layout' = [layout EXCEPT ![d] = new]
  /\ code'   = [code EXCEPT ![d] = newCode]
  /\ active' = [active EXCEPT ![d] = newActive]
  /\ UNCHANGED <<boot, files, state, osRoot, yes, step, error, progress, box,
                 shown>>

DiskBack ==
  /\ state = "DISKMGMT"
  /\ Refresh
  /\ state' = "MAIN_MENU"
  /\ UNCHANGED <<diskVars, osRoot, yes, step, error, progress, box, shown>>

\* F9 and yes.  The wipe may fail before its first write.
DiskWipe(d) == \/ Repartition(d, Blank, "wiped", {})
               \/ Repartition(d, layout[d], code[d], active[d])

\* F9 on the last entry, [Back]: a disk beyond the array's end is used.  The
\* wipe opens whatever is there, or the program crashes.
DiskWipeBack ==
  /\ state = "DISKMGMT"
  /\ Refresh
  /\ state' \in {state, "crashed"}
  /\ UNCHANGED <<diskVars, osRoot, yes, step, error, progress, box, shown>>

MayPartition(d) == d # Source[1]

\* Return on a disk: cfdisk, which sets no active flags here, after a wipe if
\* the table is no MBR and the user wants that.
DiskPartition(d) ==
  /\ MayPartition(d)
  /\ \/ \E new \in Layouts : Repartition(d, new, code[d], {})
     \/ layout[d].table # "dos" /\ DiskWipe(d)
     \/ /\ layout[d].table # "dos"
        /\ \E new \in Layouts : Repartition(d, new, "wiped", {})

(***************************************************************************)
(* The installation.                                                       *)
(***************************************************************************)
\* FAULT the boot sector is written before the partition is formatted.
StepsFormatLate ==
  <<"mbr", "bootSector", "format", "mount", "uefi", "baseOS", "registry",
    "cregfix", "lba64", "driversBase", "driversExtra", "extras">>

\* FAULT files are copied before the partition is mounted.
StepsMountLate ==
  <<"mbr", "format", "bootSector", "uefi", "mount", "baseOS", "registry",
    "cregfix", "lba64", "driversBase", "driversExtra", "extras">>

Steps ==
  <<"mbr", "format", "bootSector", "mount", "uefi", "baseOS", "registry",
    "cregfix", "lba64", "driversBase", "driversExtra", "extras">>

\* FAULT an option that counts is not part of the preparation.
PreparationWithoutUefi == {"mbr", "bootSector", "format", "mount"}

\* The options marked partOfPreparation, which the progress bar's end counts.
Preparation == {"mbr", "bootSector", "format", "uefi", "mount"}

PreparationStepCount == Cardinality(Preparation \intersect (yes \union Always))

\* The steps that advance preparationProgress.
Counting == {"mbr", "format", "bootSector", "mount", "uefi"}

\* The steps that write into the mounted partition.
Copying == {"uefi", "baseOS", "registry", "cregfix", "lba64", "driversBase",
            "driversExtra", "extras"}

\* The least that a step leaves if it reports success: of a directory tree
\* possibly a part.
Partly(s) == CASE s = "driversExtra" -> "someDriversExtra"
               [] s = "extras"       -> "someExtras"
               [] OTHER              -> s

Results == Copying \union {"someDriversExtra", "someExtras"}

InstallStart ==
  /\ state = "DO_INSTALL"
  /\ step = 0
  /\ step' = 1
  /\ error' = FALSE
  /\ box' = TRUE
  /\ progress' = 0
  /\ UNCHANGED <<diskVars, mountVars, state, hda, dest, paths, osRoot, yes, shown>>

Running(s) == state = "DO_INSTALL" /\ step \in 1..Len(Steps) /\ s = Steps[step]

\* FAULT a step is executed although an earlier one failed.
EnabledDespiteError(s) == s \in yes \union Always

Enabled(s) == s \in yes \union Always /\ ~error

Execute(s) == Running(s) /\ Enabled(s)

SkipStep ==
  /\ \E s \in Options \union Always : Running(s) /\ ~Enabled(s)
  /\ step' = step + 1
  /\ UNCHANGED <<diskVars, mountVars, state, hda, dest, paths, osRoot, yes,
                 error, progress, box, shown>>

\* A step has returned success.
Done(success) ==
  /\ step' = step + 1
  /\ error' = (error \/ ~success)
  /\ progress' = IF Steps[step] \in Counting THEN progress + 1 ELSE progress
  /\ UNCHANGED <<state, hda, dest, yes, box, shown>>

\* A step has ended the program, or hangs in mappedFile_close.
Stuck(s) ==
  /\ state' = s
  /\ UNCHANGED <<hda, dest, yes, step, error, progress, box, shown>>

DestDisk == dest.part[1]

WriteMbrSetActive ==
  /\ Execute("mbr")
  /\ \/ /\ code' = [code EXCEPT ![DestDisk] = "win98"]
        /\ active' = [active EXCEPT ![DestDisk] = {dest.part[2]}]
        /\ Done(TRUE)
     \/ /\ code' \in {code, [code EXCEPT ![DestDisk] = "win98"]}
        /\ active' = active
        /\ Done(FALSE)
  /\ UNCHANGED <<layout, boot, files, mountVars, paths, osRoot>>

\* An empty file system, or what a failed mkfs left; mkfs.fat refuses a
\* partition that is mounted.
SetVolume(b) == /\ mounts[dest.part] = 0
                /\ boot' = [boot EXCEPT ![dest.part] = b]
                /\ files' = [files EXCEPT ![dest.part] = {}]

Format ==
  /\ Execute("format")
  /\ \/ SetVolume("mkfs") /\ Done(TRUE) /\ dirty' = dirty
     \/ SetVolume("none") /\ Done(FALSE) /\ dirty' = dirty
     \/ UNCHANGED <<boot, files, dirty>> /\ Done(FALSE)
     \/ UNCHANGED <<boot, files>> /\ Stuck("aborted") /\ Sync
  /\ UNCHANGED <<layout, code, active, mounts, hold, paths, osRoot>>

\* A sector that cannot be read, or written before the last one, is an
\* assertion, which for the backup's sectors is one that does not sync; a last
\* write that fails is a failed step.
WriteBootSector ==
  /\ Execute("bootSector")
  /\ \/ boot' = [boot EXCEPT ![dest.part] = "win98"] /\ Done(TRUE) /\ dirty' = dirty
     \/ /\ boot' \in {boot, [boot EXCEPT ![dest.part] = "none"]}
        /\ \/ (Done(FALSE) \/ Stuck("aborted")) /\ dirty' = dirty
           \/ Stuck("aborted") /\ Sync
  /\ UNCHANGED <<layout, code, active, files, mounts, hold, paths, osRoot>>

MountPartition ==
  /\ Execute("mount")
  /\ \/ /\ mounts[dest.part] < MaxMounts
        /\ mounts' = [mounts EXCEPT ![dest.part] = @ + 1]
        /\ hold' = [hold EXCEPT ![dest.part] = "mine"]
        /\ paths' = paths \union {dest.part}
        /\ Done(TRUE)
     \/ /\ UNCHANGED <<mounts, hold>>
        /\ paths' = paths \ {dest.part}
        /\ Done(FALSE)
  /\ UNCHANGED <<diskVars, dirty, osRoot>>

\* The copying of s has left its result r, or nothing to rely on, in place of
\* what was there; it reaches the disk when the system writes it back.
Leaves(s, r) ==
  /\ files' = [files EXCEPT ![dest.part] = (@ \ {s, Partly(s)}) \union r]
  /\ dirty' = [dirty EXCEPT ![dest.part] = (@ \ {s, Partly(s)}) \union r]

Copied(s) == Leaves(s, {s})
Torn(s)   == Leaves(s, {})

\* A torn copy, and a sync by the assertion that ends the program.
TornAborted(s) == /\ files' = [files EXCEPT ![dest.part] = @ \ {s, Partly(s)}]
                  /\ Stuck("aborted") /\ Sync

CopyUefi ==
  /\ Execute("uefi")
  /\ \/ Copied("uefi") /\ Done(TRUE)
     \/ Torn("uefi") /\ Done(FALSE)
  /\ UNCHANGED <<layout, code, active, boot, mounts, hold, paths, osRoot>>

\* Unpacks the file that was opened first and closes it: a close while the
\* reader still asks about an error does not return.
CopyOSRoot ==
  /\ Execute("baseOS")
  /\ \/ Copied("baseOS") /\ Done(TRUE) /\ osRoot' = NULL
     \/ Torn("baseOS") /\ Done(FALSE) /\ osRoot' = NULL
     \/ TornAborted("baseOS") /\ osRoot' = osRoot
     \/ Torn("baseOS") /\ osRoot = "asking" /\ Stuck("joining") /\ osRoot' = osRoot
  /\ UNCHANGED <<layout, code, active, boot, mounts, hold, paths>>

\* Opens, unpacks and closes another file; its read errors come and go inside
\* the step.
Unpack(s) ==
  /\ Execute(s)
  /\ \/ Copied(s) /\ Done(TRUE)
     \/ Torn(s) /\ (Done(FALSE) \/ Stuck("joining"))
     \/ TornAborted(s)
  /\ UNCHANGED <<layout, code, active, boot, mounts, hold, paths, osRoot>>

\* qi_copyAllFilesInDirectoryRecursive does not look at what it returns for a
\* subdirectory, nor at every error (TreeCopy): success may be partial.
TreeCopied(s) == \/ Copied(s) /\ Done(TRUE)
                 \/ Leaves(s, {Partly(s)}) /\ Done(TRUE)
                 \/ Torn(s) /\ Done(FALSE)
                 \/ TornAborted(s)

CopyFileTree(s) ==
  /\ Execute(s)
  /\ TreeCopied(s)
  /\ UNCHANGED <<layout, code, active, boot, mounts, hold, paths, osRoot>>

InstallEnd ==
  /\ state = "DO_INSTALL"
  /\ step = Len(Steps) + 1
  /\ step' = 0
  /\ box' = FALSE
  /\ IF error THEN state' = "REDO_FROM_START" ELSE GoNext
  /\ UNCHANGED <<diskVars, mountVars, hda, dest, paths, osRoot, yes, error,
                 progress, shown>>

\* FAULT back to the main menu without a cleanup.
EndWithoutCleanup == {"REBOOT", "MAIN_MENU", "EXIT_TO_SHELL"}

EndChoices == {"REBOOT", "REDO_FROM_START", "EXIT_TO_SHELL"}

TheEnd ==
  /\ state = "THE_END"
  /\ state' \in EndChoices
  /\ UNCHANGED <<diskVars, mountVars, memoryVars, shown>>

(***************************************************************************)
(* Cleanup, leaving and starting again.                                    *)
(***************************************************************************)
\* qi_cleanup waits in mappedFile_close for the reader that asks.
CleanupHangs == /\ osRoot = "asking"
                /\ state' = "joining"
                /\ UNCHANGED <<mountVars, memoryVars, shown>>

\* qi_cleanup: the destination and whatever else has a mount path is unmounted.
Cleanup ==
  /\ osRoot # "asking"
  /\ osRoot' = NULL
  /\ Unmount(paths \union (IF dest = NULL THEN {} ELSE {dest.part}))
  /\ paths' = {}
  /\ dest' = NULL
  /\ hda' = NULL
  /\ box' = FALSE
  /\ error' = FALSE
  /\ progress' = 0
  /\ UNCHANGED <<yes, step>>

RedoFromStart ==
  /\ state = "REDO_FROM_START"
  /\ \/ CleanupHangs
     \/ Cleanup /\ WriteBack /\ state' = "VARIANT_SELECT" /\ shown' = shown
  /\ UNCHANGED diskVars

\* qi_exit: a destination is only there after an installation that succeeded.
Exit(after) ==
  /\ \/ CleanupHangs
     \/ /\ Cleanup
        /\ Sync
        /\ state' \in after
        /\ shown' = IF dest = NULL THEN NULL ELSE [part |-> dest.part, yes |-> yes]
  /\ UNCHANGED diskVars

ExitToShell == state = "EXIT_TO_SHELL" /\ Exit({"shell"})

\* A reboot that fails returns, and the program ends itself.
Reboot == state = "REBOOT" /\ Exit({"off", "aborted"})

\* A new process: qi_wizData is zeroed, the options have their defaults.
Start ==
  /\ state' = "VARIANT_SELECT"
  /\ hda' = NULL /\ dest' = NULL /\ paths' = {} /\ osRoot' = NULL
  /\ yes' = Defaults
  /\ step' = 0 /\ error' = FALSE /\ progress' = 0 /\ box' = FALSE
  /\ UNCHANGED <<layout, code, active, boot, shown>>

\* The installer is started again from the shell.
Restart ==
  /\ state \in {"shell", "aborted", "crashed"}
  /\ Start
  /\ hold' = [p \in Slots |-> IF mounts[p] = 0 THEN "free" ELSE "other"]
  /\ UNCHANGED <<files, mounts, dirty>>

\* The machine is switched off or reset and boots from the medium again; any
\* of the results that are not written back are lost.
PowerCycle ==
  /\ Start
  /\ \E lost \in SUBSET UNION {{p} \X dirty[p] : p \in Slots} :
       files' = [p \in Slots |-> {s \in files[p] : <<p, s>> \notin lost}]
  /\ mounts' = [p \in Slots |-> 0]
  /\ hold' = [p \in Slots |-> "free"]
  /\ dirty' = [p \in Slots |-> {}]

\* The user mounts a partition by hand (bound: one at a time, and one that
\* could be a destination, because the installer looks at no other's mounts).
ShellMount(p) ==
  /\ state = "shell"
  /\ p \in PartitionsOf(layout) /\ Acceptable(layout, p)
  /\ \A q \in Slots : mounts[q] = 0
  /\ mounts' = [mounts EXCEPT ![p] = 1]
  /\ hold' = [hold EXCEPT ![p] = "other"]
  /\ UNCHANGED <<diskVars, dirty, state, memoryVars, shown>>

Init ==
  /\ layout \in [Disks -> Layouts]
  /\ Source \in PartitionsOf(layout)
  /\ code = [d \in Disks |-> "old"]
  /\ active = [d \in Disks |-> {}]
  /\ boot = [p \in Slots |-> "old"]
  /\ files = [p \in Slots |-> {}]
  /\ mounts = [p \in Slots |-> 0]
  /\ hold = [p \in Slots |-> "free"]
  /\ dirty = [p \in Slots |-> {}]
  /\ state = "VARIANT_SELECT"
  /\ hda = NULL /\ dest = NULL /\ paths = {} /\ osRoot = NULL
  /\ yes = Defaults
  /\ step = 0 /\ error = FALSE /\ progress = 0 /\ box = FALSE
  /\ shown = NULL

InstallerStep ==
  \/ InstallStart \/ SkipStep \/ InstallEnd
  \/ WriteMbrSetActive \/ Format \/ WriteBootSector \/ MountPartition \/ CopyUefi
  \/ CopyOSRoot
  \/ \E s \in {"registry", "cregfix", "lba64", "driversBase"} : Unpack(s)
  \/ \E s \in {"driversExtra", "extras"} : CopyFileTree(s)
  \/ RedoFromStart \/ ExitToShell \/ Reboot

UserStep ==
  \/ VariantSelect \/ MainMenu \/ Help \/ DestinationLeave \/ DisksUnknown
  \/ \E p \in Slots, n \in 0..Cardinality(Slots) : DestinationSelect(n, p)
  \/ Configure
  \/ DiskBack \/ DiskWipeBack
  \/ \E d \in Disks : DiskWipe(d) \/ DiskPartition(d)
  \/ TheEnd

Next ==
  \/ InstallerStep
  \/ UserStep
  \/ ReadAheadError
  \/ Restart
  \/ PowerCycle
  \/ \E p \in Slots : ShellMount(p)

Spec == Init /\ [][Next]_vars

\* The installation and the cleanup go on by themselves.
FairSpec == Spec /\ WF_vars(InstallerStep)

(***************************************************************************)
(* Properties.                                                             *)
(***************************************************************************)
\* Every variable stays within its declared range.
TypeOK ==
  /\ layout \in Lists
  /\ code \in [Disks -> {"old", "win98", "wiped"}]
  /\ active \in [Disks -> SUBSET Indexes]
  /\ boot \in [Slots -> {"old", "mkfs", "win98", "none"}]
  /\ files \in [Slots -> SUBSET Results]
  /\ mounts \in [Slots -> 0..MaxMounts]
  /\ hold \in [Slots -> {"free", "mine", "other", "stays"}]
  /\ dirty \in [Slots -> SUBSET Results]
  /\ state \in Screens \union {"aborted", "crashed", "joining", "shell", "off"}
  /\ hda = NULL \/ hda \in DiskArrays
  /\ dest = NULL \/ dest \in Destinations
  /\ paths \subseteq Slots
  /\ osRoot \in {NULL, "open", "asking"}
  /\ yes \subseteq Options
  /\ step \in 0..(Len(Steps) + 1)
  /\ error \in BOOLEAN
  /\ progress \in 0..Cardinality(Counting)
  /\ box \in BOOLEAN
  /\ shown = NULL \/ shown \in [part : Slots, yes : SUBSET Options]

\* The destination points into the list of disks that is held, never into one
\* that was freed.
NoDangling ==
  dest # NULL => /\ hda # NULL
                 /\ dest.at = hda.at
                 /\ dest.part \in PartitionsOf(hda.list)

\* From its choice to the end of the installation the destination is, on the
\* disk as it really is, a primary FAT partition of an MBR disk and not the
\* partition the installer runs from.
DestinationUsable ==
  state \in {"CONFIGURE", "DO_INSTALL", "THE_END"} =>
    /\ dest # NULL
    /\ dest.part # Source
    /\ dest.part \in PartitionsOf(layout)
    /\ layout[DestDisk].table = "dos"
    /\ Extent(layout, dest.part).fs = dest.fs
    /\ dest.part[2] \in 1..4

\* Every step of an installation finds what it uses without a check: the
\* mount path, the opened file of the operating system, the progress box.
\* What is formatted is not mounted, or is so only because umount failed or
\* undid one of several mounts.
StepsReady ==
  \A s \in Options \union Always :
    Execute(s) => /\ dest # NULL
                  /\ box
                  /\ s \in Copying => dest.part \in paths
                  /\ s = "baseOS" => osRoot # NULL
                  /\ s = "format" => hold[dest.part] \in {"free", "stays"}

\* The menus start from nothing: whatever the installer has mounted since it
\* was started it has also tried to unmount, no progress is left, and the
\* operating system's file is opened anew.
MenusClean ==
  state \in {"MAIN_MENU", "DISKMGMT", "HELP", "SELECT_PARTITION", "CONFIGURE"} =>
    /\ paths = {} /\ \A p \in Slots : hold[p] # "mine"
    /\ ~box /\ ~error /\ progress = 0 /\ step = 0 /\ osRoot # NULL

\* The result of every step that the options y enable is on partition p and
\* its disk; of the two trees, which report success for a part, possibly a
\* part.  A formatted partition holds nothing else.
Complete(p, y) ==
  /\ "mbr" \in y => code[p[1]] = "win98" /\ active[p[1]] = {p[2]}
  /\ "bootSector" \in y => boot[p] = "win98"
  /\ \A s \in (y \union Always) \intersect Copying :
       s \in files[p] \/ Partly(s) \in files[p]
  /\ "format" \in y => files[p] \subseteq y \union Always \union {Partly(s) : s \in y}

\* Whatever was on the disks before, and however often an installation failed
\* or the machine was switched off, success is only shown for a complete
\* installation; and once the user has left the installer after it, the
\* installation outlasts the machine being switched off.
EndMeansInstalled ==
  /\ state = "THE_END" => Complete(dest.part, yes)
  /\ shown # NULL => Complete(shown.part, shown.yes) /\ dirty[shown.part] = {}

\* At the end the bar of the preparation is full, and never overfull before.
ProgressFits ==
  /\ state = "DO_INSTALL" => progress <= PreparationStepCount
  /\ state = "THE_END" => progress = PreparationStepCount

\* After a failed step the installation writes and mounts nothing more; only
\* the power supply can still take away what was not written back.
ErrorStopsInstall ==
  [][state = "DO_INSTALL" /\ error => UNCHANGED <<diskVars, mountVars>> \/ PowerCycle]_vars

\* An installation writes to the partition the user pointed at, and to the
\* first sector of its disk, and to nothing else.
OnlyChosenWritten ==
  [][state = "DO_INSTALL" =>
       /\ layout' = layout
       /\ \A p \in Slots \ {dest.chosen} :
            /\ boot'[p] = boot[p]
            /\ files'[p] = files[p] \/ PowerCycle
       /\ \A d \in Disks \ {dest.chosen[1]} : code'[d] = code[d] /\ active'[d] = active[d]]_vars

\* What an installation may write, and until when.
InstallWrites == ErrorStopsInstall /\ OnlyChosenWritten

\* Disk management does not alter the disk the installer runs from.
SourceDiskKept ==
  [][state = "DISKMGMT" => layout'[Source[1]] = layout[Source[1]]]_vars
=============================================================================
