---------------------------- MODULE WizardProofs ----------------------------
(***************************************************************************)
(* Theorems about Wizard for any number of disks and partition indexes, any *)
(* partition tables and any options the user may choose.                   *)
(***************************************************************************)
EXTENDS Wizard, FiniteSetTheorems, FunctionTheorems, TLAPS

(***************************************************************************)
(* The destination menu: the line the user points at and the partition the *)
(* installer takes by counting are the same.                               *)
(***************************************************************************)
LEMMA RankType ==
  ASSUME NEW d \in Disks
  PROVE  Rank(d) \in 1..Len(DiskList) /\ Rank(d) \in Int /\ DiskList[Rank(d)] = d
  <1>1. PICK k \in 1..Len(DiskList) : DiskList[k] = d
    BY DEF Disks
  <1>2. Rank(d) \in 1..Len(DiskList) /\ DiskList[Rank(d)] = d
    BY <1>1 DEF Rank
  <1>3. Len(DiskList) \in Nat
    BY DisksAssumption DEF DisksAssumption
  <1>4. QED
    BY <1>2, <1>3

LEMMA SlotsFinite == IsFiniteSet(Slots)
  <1> DEFINE f == [k \in 1..Len(DiskList) |-> DiskList[k]]
  <1>1. Len(DiskList) \in Nat
    BY DisksAssumption DEF DisksAssumption
  <1>2. f \in Surjection(1..Len(DiskList), Disks)
    BY DEF Surjection, Disks
  <1>3. IsFiniteSet(Disks)
    BY <1>1, <1>2, FS_Interval, FS_Surjection
  <1>4. QED
    BY <1>3, IndexesAssumption, FS_Product DEF IndexesAssumption, Slots

\* Before is a strict total order of the slots.
LEMMA BeforeOrder ==
  ASSUME NEW p \in Slots, NEW q \in Slots
  PROVE  /\ ~Before(p, p)
         /\ p # q => Before(p, q) \/ Before(q, p)
         /\ \A r \in Slots : Before(r, p) /\ Before(p, q) => Before(r, q)
  <1>1. \A s \in Slots : s[1] \in Disks /\ s[2] \in Int /\ s = <<s[1], s[2]>>
    <2>1. Indexes \subseteq Int
      BY IndexesAssumption DEF IndexesAssumption
    <2>2. ASSUME NEW s \in Slots
          PROVE  s[1] \in Disks /\ s[2] \in Int /\ s = <<s[1], s[2]>>
      <3>1. PICK d \in Disks, i \in Indexes : s = <<d, i>>
        BY DEF Slots
      <3>2. s[1] = d /\ s[2] = i
        BY <3>1
      <3>3. QED
        BY <2>1, <3>1, <3>2
    <2>3. QED
      BY <2>2
  <1>2. \A s \in Slots : Rank(s[1]) \in Int
    BY <1>1, RankType
  <1>3. \A s, t \in Slots : Rank(s[1]) = Rank(t[1]) => s[1] = t[1]
    BY <1>1, RankType
  <1>4. ~Before(p, p)
    BY <1>1, <1>2 DEF Before
  <1>5. p # q => Before(p, q) \/ Before(q, p)
    <2>1. SUFFICES ASSUME p # q, p[1] = q[1] PROVE Before(p, q) \/ Before(q, p)
      BY <1>2, <1>3 DEF Before
    <2>2. p[2] # q[2]
      BY <2>1, <1>1
    <2>3. QED
      BY <2>1, <2>2, <1>1 DEF Before
  <1>6. \A r \in Slots : Before(r, p) /\ Before(p, q) => Before(r, q)
    BY <1>1, <1>2 DEF Before
  <1>7. QED
    BY <1>4, <1>5, <1>6

\* How many lines there are before a partition's.
Earlier(list, p) == {q \in PartitionsOf(list) : Before(q, p)}

LEMMA EarlierFinite ==
  ASSUME NEW list, NEW p
  PROVE  IsFiniteSet(Earlier(list, p))
  BY SlotsFinite, FS_Subset DEF Earlier, PartitionsOf

\* Two partitions do not have the same number of partitions before them.
LEMMA CountDistinct ==
  ASSUME NEW list, NEW p \in PartitionsOf(list), NEW q \in PartitionsOf(list),
         Cardinality(Earlier(list, p)) = Cardinality(Earlier(list, q))
  PROVE  p = q
  <1>1. p \in Slots /\ q \in Slots
    BY DEF PartitionsOf
  <1>2. ASSUME NEW s \in PartitionsOf(list), NEW t \in PartitionsOf(list), Before(s, t),
               Cardinality(Earlier(list, s)) = Cardinality(Earlier(list, t))
        PROVE  FALSE
    <2>1. s \in Slots /\ t \in Slots
      BY DEF PartitionsOf
    <2>2. Earlier(list, s) \in SUBSET Earlier(list, t)
      BY <1>2, <2>1, BeforeOrder DEF Earlier, PartitionsOf
    <2>3. Earlier(list, s) = Earlier(list, t)
      BY <1>2, <2>2, EarlierFinite, FS_Subset
    <2>4. s \in Earlier(list, t) /\ s \notin Earlier(list, s)
      BY <1>2, <2>1, BeforeOrder DEF Earlier
    <2>5. QED
      BY <2>3, <2>4
  <1>3. QED
    BY <1>1, <1>2, BeforeOrder

LEMMA DisjointUnion ==
  ASSUME NEW S, IsFiniteSet(S), NEW T, IsFiniteSet(T), S \intersect T = {}
  PROVE  Cardinality(S \union T) = Cardinality(S) + Cardinality(T)
  <1>1. Cardinality(S \union T) = Cardinality(S) + Cardinality(T) - Cardinality(S \intersect T)
    BY FS_Union
  <1>2. Cardinality(S) \in Nat /\ Cardinality(T) \in Nat /\ Cardinality(S \intersect T) = 0
    BY FS_CardinalityType, FS_EmptySet
  <1>3. QED
    BY <1>1, <1>2

\* The menu numbers its lines disk by disk as the installer counts them.
LEMMA MenuCounts ==
  ASSUME NEW list \in Lists, NEW p \in PartitionsOf(list), NEW n, MenuItem(list, n, p)
  PROVE  Cardinality(Earlier(list, p)) = n
  <1> DEFINE A == {q \in PartitionsOf(list) : Rank(q[1]) < Rank(p[1])}
             C == {q \in PartitionsOf(list) : q[1] = p[1] /\ q[2] < p[2]}
             D == {i \in DOMAIN list[p[1]].parts : i < p[2]}
             f == [i \in D |-> <<p[1], i>>]
  <1>1. p \in Slots /\ p[1] \in Disks /\ Rank(p[1]) \in Int
    BY RankType DEF PartitionsOf, Slots
  <1>2. DOMAIN list[p[1]].parts \subseteq Indexes
    <2>1. CASE list[p[1]] = Blank
      BY <2>1 DEF Blank
    <2>2. CASE list[p[1]] \in Layouts
      BY <2>2, LayoutsAssumption DEF LayoutsAssumption
    <2>3. QED
      BY <1>1, <2>1, <2>2 DEF Lists
  <1>3. Earlier(list, p) = A \union C
    BY DEF Earlier, Before
  <1>4. A \intersect C = {}
    BY <1>1
  <1>5. IsFiniteSet(A) /\ IsFiniteSet(C)
    BY SlotsFinite, FS_Subset DEF PartitionsOf
  <1>6. IsFiniteSet(D)
    BY <1>2, IndexesAssumption, FS_Subset DEF IndexesAssumption
  <1>7. f \in Bijection(D, C)
    <2>1. \A i \in D : f[i] \in C
      BY <1>1, <1>2 DEF PartitionsOf, Slots
    <2>2. \A q \in C : q[2] \in D /\ q = <<p[1], q[2]>>
      BY DEF PartitionsOf, Slots
    <2>3. f \in Injection(D, C)
      <3>1. f \in [D -> C]
        BY <2>1
      <3>2. ASSUME NEW i \in D, NEW j \in D, f[i] = f[j] PROVE i = j
        BY <3>2
      <3>3. QED
        BY <3>1, <3>2 DEF Injection, IsInjective
    <2>4. \A q \in C : \E i \in D : f[i] = q
      BY <2>2
    <2>5. QED
      BY <2>1, <2>3, <2>4 DEF Bijection, Surjection
  <1>8. Cardinality(C) = Cardinality(D)
    <2>1. ExistsBijection(D, C)
      BY <1>7, Zenon DEF ExistsBijection
    <2>2. QED
      BY <1>6, <2>1, FS_Bijection
  <1>9. Cardinality(Earlier(list, p)) = Cardinality(A) + Cardinality(C)
    BY <1>3, <1>4, <1>5, DisjointUnion
  <1>10. QED
    BY <1>8, <1>9 DEF MenuItem

\* util_getPartitionFromIndex returns the partition of the line, whatever is
\* on the disks.
THEOREM LookupRight ==
  ASSUME NEW list \in Lists, NEW p \in PartitionsOf(list), NEW n, MenuItem(list, n, p)
  PROVE  PartitionFromIndex(list, n) = p
  <1>1. Cardinality(Earlier(list, p)) = n
    BY MenuCounts
  <1>2. \A q \in PartitionsOf(list) : Cardinality(Earlier(list, q)) = n => q = p
    BY <1>1, CountDistinct
  <1>3. QED
    BY <1>1, <1>2 DEF PartitionFromIndex, Earlier

(***************************************************************************)
(* The wizard's states and the installation's steps by their names.        *)
(***************************************************************************)
LEMMA ScreensNamed ==
  Screens = {"VARIANT_SELECT", "MAIN_MENU", "DISKMGMT", "HELP",
             "SELECT_PARTITION", "CONFIGURE", "DO_INSTALL", "THE_END",
             "REDO_FROM_START", "EXIT_TO_SHELL", "EXIT_ERROR", "REBOOT"}
  BY DEF Screens, WizardOrder

LEMMA Moves ==
  /\ state = "VARIANT_SELECT" /\ GoNext => state' = "MAIN_MENU"
  /\ state = "SELECT_PARTITION" /\ GoNext => state' = "CONFIGURE"
  /\ state = "CONFIGURE" /\ GoNext => state' = "DO_INSTALL"
  /\ state = "CONFIGURE" /\ GoBack => state' = "SELECT_PARTITION"
  /\ state = "DO_INSTALL" /\ GoNext => state' = "THE_END"
  <1>1. Len(WizardOrder) = 12
    BY DEF WizardOrder
  <1>2. state = "VARIANT_SELECT" => Place = 1
    BY <1>1 DEF Place, WizardOrder
  <1>3. state = "SELECT_PARTITION" => Place = 5
    BY <1>1 DEF Place, WizardOrder
  <1>4. state = "CONFIGURE" => Place = 6
    BY <1>1 DEF Place, WizardOrder
  <1>5. state = "DO_INSTALL" => Place = 7
    BY <1>1 DEF Place, WizardOrder
  <1>6. QED
    BY <1>2, <1>3, <1>4, <1>5 DEF GoNext, GoBack, WizardOrder

LEMMA StepsNamed ==
  /\ Len(Steps) = 12
  /\ Steps[1] = "mbr" /\ Steps[2] = "format" /\ Steps[3] = "bootSector"
  /\ Steps[4] = "mount" /\ Steps[5] = "uefi" /\ Steps[6] = "baseOS"
  /\ Steps[7] = "registry" /\ Steps[8] = "cregfix" /\ Steps[9] = "lba64"
  /\ Steps[10] = "driversBase" /\ Steps[11] = "driversExtra"
  /\ Steps[12] = "extras"
  BY DEF Steps

LEMMA RunningNamed ==
  ASSUME NEW s, Running(s)
  PROVE  /\ state = "DO_INSTALL" /\ step \in 1..12 /\ Steps[step] = s
         /\ s = "mbr" <=> step = 1
         /\ s = "format" <=> step = 2
         /\ s = "bootSector" <=> step = 3
         /\ s = "mount" <=> step = 4
         /\ s = "uefi" <=> step = 5
         /\ s = "baseOS" <=> step = 6
         /\ s \in {"registry", "cregfix", "lba64", "driversBase"} <=> step \in 7..10
         /\ s \in {"driversExtra", "extras"} <=> step \in 11..12
         /\ s \in Options \union Always
  <1>1. step \in 1..12 /\ Steps[step] = s
    BY StepsNamed DEF Running
  <1>2. \/ step = 1 \/ step = 2 \/ step = 3 \/ step = 4 \/ step = 5 \/ step = 6
        \/ step = 7 \/ step = 8 \/ step = 9 \/ step = 10 \/ step = 11 \/ step = 12
    BY <1>1
  <1>3. QED
    BY <1>1, <1>2, StepsNamed DEF Running, Options, Always

(***************************************************************************)
(* The invariant.                                                          *)
(***************************************************************************)
Menus   == {"MAIN_MENU", "DISKMGMT", "HELP", "SELECT_PARTITION", "CONFIGURE"}
Decided == {"CONFIGURE", "DO_INSTALL", "THE_END"}

\* What is counted of the preparation before step n.
Advanced(n) == {s \in Preparation \intersect (yes \union Always) :
                  \E k \in 1..5 : k < n /\ s = Steps[k]}

\* Partition p holds what step s leaves, or the part it may leave.
Got(p, s) == s \in files[p] \/ Partly(s) \in files[p]

\* What a formatted partition may hold.
Allowed == yes \union Always \union {Partly(s) : s \in yes}

\* What is on the disks before step n of an installation without an error.
Upto(n) ==
  /\ n > 1 /\ "mbr" \in yes =>
       code[DestDisk] = "win98" /\ active[DestDisk] = {dest.part[2]}
  /\ n > 2 /\ "format" \in yes => files[dest.part] \subseteq Allowed
  /\ n > 3 /\ "bootSector" \in yes => boot[dest.part] = "win98"
  /\ \A k \in 5..12 : n > k /\ Steps[k] \in yes \union Always => Got(dest.part, Steps[k])

\* Who holds a mount, and what became of what the installer mounted.
MountsHeld == \A p \in Slots : mounts[p] = 0 <=> hold[p] = "free"
OwnMounts  == state \in Screens => \A p \in Slots : hold[p] = "mine" => p \in paths

\* Before the main menu there is nothing left of an earlier installation.
VariantClean ==
  state = "VARIANT_SELECT" => paths = {} /\ ~box /\ ~error /\ progress = 0

StepsIdle == state \in Screens \ {"DO_INSTALL"} => step = 0

ChosenTaken == state \in Decided => dest # NULL /\ dest.part = dest.chosen

\* Until it is mounted the destination is free, or its umount was tried.
Released ==
  state = "CONFIGURE" \/ (state = "DO_INSTALL" /\ step <= 4) =>
    paths = {} /\ hold[dest.part] \in {"free", "stays"}

\* The installer is only left with a destination after a success, and what
\* was shown then stays.
Leaving ==
  /\ state \in {"VARIANT_SELECT", "MAIN_MENU", "DISKMGMT", "HELP"} => dest = NULL
  /\ state \in {"EXIT_TO_SHELL", "REBOOT"} /\ dest # NULL => Complete(dest.part, yes)

Left == {"VARIANT_SELECT", "shell", "off", "aborted"}

ShownKept ==
  shown # NULL => /\ state \in Left
                  /\ Complete(shown.part, shown.yes)
                  /\ \A p \in Slots : dirty[p] = {}

\* Between two steps of an installation.
Prepared ==
  state = "DO_INSTALL" =>
    /\ step = 0 => progress = 0
    /\ step > 0 => box
    /\ step > 4 /\ ~error => dest.part \in paths
    /\ step <= 6 => osRoot # NULL

Reached ==
  /\ state = "DO_INSTALL" /\ step > 0 /\ ~error => Upto(step)
  /\ state = "THE_END" => Complete(dest.part, yes)

Counted ==
  /\ state = "DO_INSTALL" /\ step > 0 =>
       /\ progress <= Cardinality(Advanced(step))
       /\ ~error => progress = Cardinality(Advanced(step))
  /\ state = "THE_END" => progress = Cardinality(Advanced(13))

\* What holds even when the program is gone.
Base == TypeOK /\ NoDangling /\ MountsHeld /\ ShownKept

WizardInv ==
  /\ Base
  /\ OwnMounts
  /\ VariantClean /\ MenusClean
  /\ StepsIdle
  /\ ChosenTaken /\ DestinationUsable
  /\ Released /\ Leaving
  /\ Prepared /\ Reached /\ Counted

(***************************************************************************)
(* Counting the preparation.                                               *)
(***************************************************************************)
LEMMA PreparationNamed ==
  /\ Counting = Preparation
  /\ IsFiniteSet(Preparation) /\ Cardinality(Preparation) = 5
  <1>1. Cardinality({"mbr", "format", "bootSector", "mount", "uefi"}) = 5
        /\ IsFiniteSet({"mbr", "format", "bootSector", "mount", "uefi"})
    <2>1. IsFiniteSet({"mbr"}) /\ Cardinality({"mbr"}) = 1
      BY FS_Singleton
    <2>2. IsFiniteSet({"mbr"} \union {"format"}) /\ Cardinality({"mbr"} \union {"format"}) = 2
      BY <2>1, FS_AddElement
    <2> DEFINE three == {"mbr"} \union {"format"} \union {"bootSector"}
    <2>3. IsFiniteSet(three) /\ Cardinality(three) = 3
      BY <2>2, FS_AddElement
    <2>4. IsFiniteSet(three \union {"mount"}) /\ Cardinality(three \union {"mount"}) = 4
      <3>1. "mount" \notin three
        OBVIOUS
      <3>2. QED
        BY <3>1, <2>3, FS_AddElement
    <2> DEFINE four == three \union {"mount"}
    <2>5. IsFiniteSet(four \union {"uefi"}) /\ Cardinality(four \union {"uefi"}) = 5
      <3>1. "uefi" \notin four
        OBVIOUS
      <3>2. QED
        BY <3>1, <2>4, FS_AddElement
    <2>6. {"mbr", "format", "bootSector", "mount", "uefi"} = four \union {"uefi"}
      OBVIOUS
    <2>7. QED
      BY <2>5, <2>6
  <1>2. Preparation = {"mbr", "format", "bootSector", "mount", "uefi"} /\ Counting = Preparation
    BY DEF Preparation, Counting
  <1>3. QED
    BY <1>1, <1>2

LEMMA AdvancedBounds ==
  ASSUME NEW n
  PROVE  /\ IsFiniteSet(Advanced(n))
         /\ Cardinality(Advanced(n)) \in 0..5
  <1>1. Advanced(n) \in SUBSET Preparation
    BY DEF Advanced
  <1>2. IsFiniteSet(Advanced(n)) /\ Cardinality(Advanced(n)) <= 5
    BY <1>1, PreparationNamed, FS_Subset
  <1>3. QED
    BY <1>2, FS_CardinalityType

LEMMA AdvancedNext ==
  ASSUME NEW n \in 1..12
  PROVE  Cardinality(Advanced(n + 1)) =
           Cardinality(Advanced(n))
           + (IF Steps[n] \in Preparation \intersect (yes \union Always) THEN 1 ELSE 0)
  <1>1. \A j, k \in 1..12 : Steps[j] = Steps[k] => j = k
    <2>1. \A k \in 1..12 :
            \/ k = 1 \/ k = 2 \/ k = 3 \/ k = 4 \/ k = 5 \/ k = 6
            \/ k = 7 \/ k = 8 \/ k = 9 \/ k = 10 \/ k = 11 \/ k = 12
      OBVIOUS
    <2>2. QED
      BY <2>1, StepsNamed
  <1>2. Steps[n] \in Preparation <=> n \in 1..5
    BY StepsNamed DEF Preparation
  <1>3. Steps[n] \notin Advanced(n)
    BY <1>1 DEF Advanced
  <1>4. CASE Steps[n] \in Preparation \intersect (yes \union Always)
    <2>1. Advanced(n + 1) = Advanced(n) \union {Steps[n]}
      BY <1>2, <1>4 DEF Advanced
    <2>2. QED
      BY <1>3, <1>4, <2>1, AdvancedBounds, FS_AddElement
  <1>5. CASE Steps[n] \notin Preparation \intersect (yes \union Always)
    <2>1. Advanced(n + 1) = Advanced(n)
      BY <1>2, <1>5 DEF Advanced
    <2>2. QED
      BY <1>5, <2>1, AdvancedBounds
  <1>6. QED
    BY <1>4, <1>5

LEMMA AdvancedEnds ==
  /\ Cardinality(Advanced(1)) = 0
  /\ Cardinality(Advanced(13)) = PreparationStepCount
  /\ \A n \in 1..12 : Cardinality(Advanced(n)) <= PreparationStepCount
  <1>1. Advanced(1) = {}
    BY DEF Advanced
  <1>2. Advanced(13) = Preparation \intersect (yes \union Always)
    BY StepsNamed DEF Advanced, Preparation
  <1>3. \A n \in 1..12 : Advanced(n) \in SUBSET Advanced(13)
    BY DEF Advanced
  <1>4. \A n \in 1..12 : Cardinality(Advanced(n)) <= Cardinality(Advanced(13))
    BY <1>3, AdvancedBounds, FS_Subset
  <1>5. QED
    BY <1>1, <1>2, <1>4, FS_EmptySet DEF PreparationStepCount

(***************************************************************************)
(* The invariant holds in the beginning and whenever the program starts.   *)
(***************************************************************************)
LEMMA InitInv == Init => WizardInv
  <1> SUFFICES ASSUME Init PROVE WizardInv
    OBVIOUS
  <1>1. TypeOK
    <2>1. layout \in Lists /\ Defaults \subseteq Options
      BY DEF Init, Lists, Defaults, Options
    <2>2. /\ state \in Screens /\ osRoot = NULL /\ paths = {} /\ step = 0
          /\ hda = NULL /\ dest = NULL /\ yes = Defaults /\ ~error /\ ~box
          /\ progress = 0 /\ shown = NULL
      BY ScreensNamed DEF Init
    <2>3. 0 \in 0..Cardinality(Counting) /\ 0 \in 0..(Len(Steps) + 1) /\ 0 \in 0..MaxMounts
      BY PreparationNamed, StepsNamed, MaxMountsAssumption DEF MaxMountsAssumption
    <2>4. /\ code \in [Disks -> {"old", "win98", "wiped"}]
          /\ active \in [Disks -> SUBSET Indexes]
          /\ boot \in [Slots -> {"old", "mkfs", "win98", "none"}]
          /\ files \in [Slots -> SUBSET Results]
          /\ mounts \in [Slots -> 0..MaxMounts]
          /\ hold \in [Slots -> {"free", "mine", "other", "stays"}]
          /\ dirty \in [Slots -> SUBSET Results]
      BY <2>3 DEF Init
    <2>5. error \in BOOLEAN /\ box \in BOOLEAN
      BY DEF Init
    <2>6. QED
      BY <2>1, <2>2, <2>3, <2>4, <2>5 DEF TypeOK
  <1>2. MountsHeld /\ OwnMounts
    BY DEF Init, MountsHeld, OwnMounts
  <1>3. NoDangling /\ ShownKept
    BY DEF Init, NoDangling, ShownKept
  <1>4. QED
    BY <1>1, <1>2, <1>3
    DEF Init, WizardInv, Base, VariantClean, MenusClean, StepsIdle, ChosenTaken,
        DestinationUsable, Released, Leaving, Prepared, Reached, Counted, Decided

\* A new process finds nobody's mounts but others'.
LEMMA StartInv ==
  ASSUME WizardInv, Start, mounts' \in [Slots -> 0..MaxMounts],
         files' \in [Slots -> SUBSET Results], dirty' \in [Slots -> SUBSET Results],
         hold' \in [Slots -> {"free", "other"}], MountsHeld', ShownKept'
  PROVE  WizardInv'
  <1>1. TypeOK'
    <2>1. Defaults \subseteq Options /\ "VARIANT_SELECT" \in Screens
      BY ScreensNamed DEF Defaults, Options
    <2>2. 0 \in 0..Cardinality(Counting) /\ 0 \in 0..(Len(Steps) + 1)
      BY PreparationNamed, StepsNamed
    <2>3. hold' \in [Slots -> {"free", "mine", "other", "stays"}]
      OBVIOUS
    <2>4. QED
      BY <2>1, <2>2, <2>3 DEF WizardInv, Base, TypeOK, Start
  <1>2. OwnMounts'
    BY DEF OwnMounts
  <1>3. NoDangling'
    BY DEF NoDangling, Start
  <1>4. QED
    BY <1>1, <1>2, <1>3
    DEF Start, WizardInv, Base, VariantClean, MenusClean, StepsIdle, ChosenTaken,
        DestinationUsable, Released, Leaving, Prepared, Reached, Counted, Decided

\* The program is gone or hangs: only the disks matter.
LEMMA GoneInv ==
  ASSUME WizardInv, Base', state' \in {"aborted", "crashed", "joining", "shell", "off"}
  PROVE  WizardInv'
  BY ScreensNamed
  DEF WizardInv, OwnMounts, VariantClean, MenusClean, StepsIdle, ChosenTaken, Released,
      Leaving, DestinationUsable, Prepared, Reached, Counted, Decided

\* On the way to another screen.
LEMMA LeaveInv ==
  ASSUME WizardInv, Base', OwnMounts', step' = 0,
         state' \in {"REDO_FROM_START", "EXIT_TO_SHELL", "REBOOT"},
         dest' # NULL => Complete(dest.part, yes)' \/ state' = "REDO_FROM_START"
  PROVE  WizardInv'
  BY DEF WizardInv, VariantClean, MenusClean, StepsIdle, ChosenTaken, Released, Leaving,
         DestinationUsable, Prepared, Reached, Counted, Decided

LEMMA MenuInv ==
  ASSUME WizardInv, Base', OwnMounts', state' \in Menus \ {"CONFIGURE"},
         paths' = {}, ~box', ~error', progress' = 0, step' = 0, osRoot' # NULL,
         dest' = NULL \/ state' = "SELECT_PARTITION"
  PROVE  WizardInv'
  <1>1. state' \in Screens
    BY ScreensNamed DEF Menus
  <1>2. MenusClean'
    BY <1>1 DEF MenusClean, OwnMounts
  <1>3. QED
    BY <1>2
    DEF WizardInv, VariantClean, StepsIdle, ChosenTaken, Menus, Released, Leaving,
        DestinationUsable, Prepared, Reached, Counted, Decided

\* Before a program ends nothing is said about an installation.
LEMMA NoneShown ==
  ASSUME WizardInv, state \notin Left
  PROVE  shown = NULL /\ (shown' = shown => ShownKept')
  BY DEF WizardInv, Base, ShownKept

(***************************************************************************)
(* Mounts and what is written back.                                        *)
(***************************************************************************)
\* umount leaves nothing held by the installer that it was tried on.
LEMMA UnmountFacts ==
  ASSUME WizardInv, NEW ps, Unmount(ps)
  PROVE  /\ mounts' \in [Slots -> 0..MaxMounts]
         /\ hold' \in [Slots -> {"free", "mine", "other", "stays"}]
         /\ MountsHeld'
         /\ \A p \in Slots : hold'[p] = "mine" => hold[p] = "mine" /\ p \notin ps
         /\ \A p \in Slots : p \in ps => hold'[p] \in {"free", "stays"}
  <1>1. PICK done \in SUBSET {p \in ps : mounts[p] > 0} :
          /\ mounts' = [p \in Slots |-> IF p \in done THEN mounts[p] - 1 ELSE mounts[p]]
          /\ hold' = [p \in Slots |-> IF p \notin ps \/ mounts[p] = 0 THEN hold[p]
                                     ELSE IF mounts'[p] = 0 THEN "free" ELSE "stays"]
    BY Zenon DEF Unmount
  <1>2. /\ mounts \in [Slots -> 0..MaxMounts]
        /\ hold \in [Slots -> {"free", "mine", "other", "stays"}]
        /\ MountsHeld
    BY DEF WizardInv, Base, TypeOK
  <1>3. MaxMounts \in Nat
    BY MaxMountsAssumption DEF MaxMountsAssumption
  <1>4. ASSUME NEW p \in Slots
        PROVE  /\ mounts'[p] \in 0..MaxMounts
               /\ hold'[p] \in {"free", "mine", "other", "stays"}
               /\ mounts'[p] = 0 <=> hold'[p] = "free"
               /\ hold'[p] = "mine" => hold[p] = "mine" /\ p \notin ps
               /\ p \in ps => hold'[p] \in {"free", "stays"}
    <2>1. mounts'[p] = IF p \in done THEN mounts[p] - 1 ELSE mounts[p]
      BY <1>1, Zenon
    <2>2. hold'[p] = IF p \notin ps \/ mounts[p] = 0 THEN hold[p]
                     ELSE IF mounts'[p] = 0 THEN "free" ELSE "stays"
      BY <1>1, Zenon
    <2>3. mounts[p] \in 0..MaxMounts /\ hold[p] \in {"free", "mine", "other", "stays"}
          /\ (mounts[p] = 0 <=> hold[p] = "free")
      BY <1>2 DEF MountsHeld
    <2>4. p \in done => mounts[p] > 0 /\ p \in ps
      OBVIOUS
    <2>5. QED
      BY <1>3, <2>1, <2>2, <2>3, <2>4
  <1>5. mounts' \in [Slots -> 0..MaxMounts]
    BY <1>1, <1>4, Zenon
  <1>6. hold' \in [Slots -> {"free", "mine", "other", "stays"}]
    BY <1>1, <1>4, Zenon
  <1>7. QED
    BY <1>4, <1>5, <1>6 DEF MountsHeld

LEMMA WriteBackType ==
  ASSUME WizardInv, WriteBack \/ Sync \/ dirty' = dirty
  PROVE  dirty' \in [Slots -> SUBSET Results]
  <1>1. dirty \in [Slots -> SUBSET Results]
    BY DEF WizardInv, Base, TypeOK
  <1>2. QED
    BY <1>1 DEF WriteBack, Sync

\* What an umount on the given partitions leaves of the installer's own mounts.
LEMMA UnmountOwn ==
  ASSUME WizardInv, state \in Screens, NEW ps, paths \subseteq ps, Unmount(ps)
  PROVE  \A p \in Slots : hold'[p] # "mine"
  BY UnmountFacts DEF WizardInv, OwnMounts

(***************************************************************************)
(* The screens.                                                            *)
(***************************************************************************)
LEMMA VariantSelectInv == WizardInv /\ VariantSelect => WizardInv'
  <1> SUFFICES ASSUME WizardInv, VariantSelect PROVE WizardInv'
    OBVIOUS
  <1> USE DEF VariantSelect, diskVars
  <1>1. NoDangling' /\ MountsHeld'
    BY DEF WizardInv, Base, NoDangling, MountsHeld
  <1>2. paths = {} /\ ~box /\ ~error /\ progress = 0 /\ step = 0 /\ dest = NULL
    BY ScreensNamed DEF WizardInv, VariantClean, StepsIdle, Leaving
  <1>3. CASE osRoot' = "open" /\ GoNext /\ dirty' = dirty /\ shown' = NULL
    <2>1. state' = "MAIN_MENU"
      BY <1>3, Moves
    <2>2. TypeOK'
      BY <1>3, <2>1, ScreensNamed DEF WizardInv, Base, TypeOK
    <2>3. OwnMounts'
      BY ScreensNamed DEF WizardInv, OwnMounts
    <2>4. Base'
      BY <1>1, <1>3, <2>2 DEF Base, ShownKept
    <2>5. osRoot' # NULL
      BY <1>3, NullAssumption DEF NullAssumption
    <2>6. QED
      BY <1>2, <2>1, <2>3, <2>4, <2>5, MenuInv DEF Menus
  <1>4. CASE osRoot' = osRoot /\ Abort /\ shown' = shown
    <2>1. dirty' \in [Slots -> SUBSET Results]
      BY <1>4, WriteBackType DEF Abort
    <2>2. TypeOK'
      BY <1>4, <2>1 DEF WizardInv, Base, TypeOK, Abort
    <2>3. ShownKept'
      <3>1. shown # NULL => Complete(shown.part, shown.yes)'
        BY <1>4 DEF WizardInv, Base, ShownKept, Complete
      <3>2. \A p \in Slots : dirty'[p] = {}
        BY <1>4 DEF Abort, Sync
      <3>3. QED
        BY <1>4, <3>1, <3>2 DEF ShownKept, Left, Abort
    <2>4. QED
      BY <1>1, <1>4, <2>2, <2>3, GoneInv DEF Abort, Base
  <1>5. QED
    BY <1>3, <1>4

LEMMA ReadAheadErrorInv == WizardInv /\ ReadAheadError => WizardInv'
  <1> SUFFICES ASSUME WizardInv, ReadAheadError PROVE WizardInv'
    OBVIOUS
  <1>1. TypeOK'
    BY DEF WizardInv, Base, TypeOK, ReadAheadError, diskVars, mountVars
  <1>2. osRoot' # NULL
    BY NullAssumption DEF NullAssumption, ReadAheadError
  <1>3. /\ \A n : Advanced(n)' = Advanced(n)
        /\ \A n : Upto(n)' <=> Upto(n)
        /\ \A p, y : Complete(p, y)' <=> Complete(p, y)
    BY DEF ReadAheadError, diskVars, Advanced, Upto, DestDisk, Got, Allowed, Complete
  <1>4. UNCHANGED <<dest, yes, shown>>
    BY DEF ReadAheadError
  <1>5. /\ Complete(dest.part, yes)' <=> Complete(dest.part, yes)
        /\ Complete(shown.part, shown.yes)' <=> Complete(shown.part, shown.yes)
    BY <1>4 DEF ReadAheadError, diskVars, Complete
  <1>6. Reached' /\ Counted' /\ ShownKept' /\ Leaving'
    BY <1>3, <1>5
    DEF WizardInv, Base, Reached, Counted, ShownKept, Leaving, ReadAheadError, mountVars
  <1>7. DestinationUsable'
    BY DEF WizardInv, DestinationUsable, ReadAheadError, diskVars, DestDisk
  <1>8. MountsHeld' /\ OwnMounts' /\ Released'
    BY DEF WizardInv, Base, MountsHeld, OwnMounts, Released, ReadAheadError, mountVars
  <1>9. QED
    BY <1>1, <1>2, <1>6, <1>7, <1>8
    DEF ReadAheadError, diskVars, mountVars, WizardInv, Base, NoDangling, VariantClean,
        MenusClean, StepsIdle, ChosenTaken, Prepared

\* The menus, and the disk management, which begins with a new list of disks.
LEMMA MenusInv ==
  ASSUME WizardInv, state \in Menus,
         Base', OwnMounts', state' \in Menus \ {"CONFIGURE"},
         dest' = NULL \/ state' = "SELECT_PARTITION",
         paths' \in {paths, {}}, UNCHANGED <<box, error, progress, step, osRoot>>
  PROVE  WizardInv'
  BY MenuInv DEF WizardInv, MenusClean, Menus

LEMMA MainMenuInv == WizardInv /\ (MainMenu \/ Help) => WizardInv'
  <1> SUFFICES ASSUME WizardInv, MainMenu \/ Help PROVE WizardInv'
    OBVIOUS
  <1> USE DEF MainMenu, Help, diskVars, mountVars, memoryVars
  <1>1. TypeOK'
    BY ScreensNamed DEF WizardInv, Base, TypeOK
  <1>2. NoDangling' /\ step = 0 /\ MountsHeld' /\ OwnMounts'
    BY ScreensNamed DEF WizardInv, Base, NoDangling, MountsHeld, OwnMounts, StepsIdle
  <1>3. ShownKept'
    BY NoneShown DEF Left
  <1>4. dest' = NULL
    BY DEF WizardInv, Leaving
  <1>5. state' \in Menus \ {"CONFIGURE"} \/ state' \in {"EXIT_TO_SHELL", "REDO_FROM_START"}
    BY DEF Menus
  <1>6. QED
    BY <1>1, <1>2, <1>3, <1>4, <1>5, MenusInv, LeaveInv DEF Menus, Base

\* qi_refreshDisks leaves nothing that points into the old list.
LEMMA RefreshFacts ==
  ASSUME WizardInv, Refresh, state \in Menus
  PROVE  /\ mounts' \in [Slots -> 0..MaxMounts]
         /\ hold' \in [Slots -> {"free", "mine", "other", "stays"}]
         /\ dirty' \in [Slots -> SUBSET Results]
         /\ paths' = {} /\ hda' \in DiskArrays
         /\ dest' = NULL /\ NoDangling' /\ MountsHeld' /\ OwnMounts'
  <1>1. layout \in Lists
    BY DEF WizardInv, Base, TypeOK
  <1>2. Unmount(paths) /\ WriteBack /\ paths' = {} /\ dest' = NULL
    BY DEF Refresh
  <1>3. PICK a \in Arrays : hda' = [at |-> a, list |-> layout]
    BY DEF Refresh
  <1>4. hda' \in DiskArrays
    BY <1>1, <1>3 DEF DiskArrays
  <1>5. state \in Screens
    BY ScreensNamed DEF Menus
  <1>6. OwnMounts'
    BY <1>2, <1>5, UnmountOwn DEF OwnMounts
  <1>7. NoDangling'
    BY <1>2 DEF NoDangling
  <1>8. QED
    BY <1>2, <1>4, <1>6, <1>7, UnmountFacts, WriteBackType

LEMMA LeaveMenuInv ==
  WizardInv /\ (DestinationLeave \/ DiskBack \/ DiskWipeBack) => WizardInv'
  <1> SUFFICES ASSUME WizardInv, DestinationLeave \/ DiskBack \/ DiskWipeBack
               PROVE  WizardInv'
    OBVIOUS
  <1>1. Refresh /\ state \in Menus /\ state \notin Left
    BY DEF DestinationLeave, DiskBack, DiskWipeBack, Menus, Left
  <1>2. /\ UNCHANGED <<diskVars, osRoot, yes, step, error, progress, box, shown>>
        /\ state' \in {"MAIN_MENU", "DISKMGMT", "crashed"}
    BY DEF DestinationLeave, DiskBack, DiskWipeBack
  <1>3. TypeOK'
    BY <1>1, <1>2, RefreshFacts, ScreensNamed DEF WizardInv, Base, TypeOK, diskVars
  <1>4. Base'
    BY <1>1, <1>2, <1>3, RefreshFacts, NoneShown DEF Base
  <1>5. CASE state' = "crashed"
    BY <1>4, <1>5, GoneInv
  <1>6. CASE state' \in {"MAIN_MENU", "DISKMGMT"}
    BY <1>1, <1>2, <1>4, <1>6, RefreshFacts, MenusInv DEF Menus
  <1>7. QED
    BY <1>2, <1>5, <1>6

LEMMA DisksUnknownInv == WizardInv /\ DisksUnknown => WizardInv'
  <1> SUFFICES ASSUME WizardInv, DisksUnknown PROVE WizardInv'
    OBVIOUS
  <1>1. /\ Unmount(paths) /\ Sync /\ state' = "aborted"
        /\ paths' = {} /\ hda' = NULL /\ dest' = NULL
        /\ UNCHANGED <<diskVars, osRoot, yes, step, error, progress, box, shown>>
        /\ state \notin Left
    BY DEF DisksUnknown, Abort, Left
  <1>2. TypeOK'
    BY <1>1, UnmountFacts, WriteBackType DEF WizardInv, Base, TypeOK, diskVars
  <1>3. Base'
    BY <1>1, <1>2, UnmountFacts, NoneShown DEF Base, NoDangling
  <1>4. QED
    BY <1>1, <1>3, GoneInv

LEMMA RepartitionInv ==
  ASSUME WizardInv, NEW d \in Disks, NEW new \in Layouts \union {Blank},
         NEW newCode \in {"old", "win98", "wiped"}, NEW newActive \in SUBSET Indexes,
         Repartition(d, new, newCode, newActive)
  PROVE  WizardInv'
  <1> USE DEF Repartition
  <1>1. Refresh /\ state \in Menus /\ state \notin Left
    BY DEF Menus, Left
  <1>2. TypeOK'
    <2>1. layout' \in Lists
      BY DEF WizardInv, Base, TypeOK, Lists
    <2>2. code' \in [Disks -> {"old", "win98", "wiped"}] /\ active' \in [Disks -> SUBSET Indexes]
      BY DEF WizardInv, Base, TypeOK
    <2>3. QED
      BY <1>1, <2>1, <2>2, RefreshFacts DEF WizardInv, Base, TypeOK
  <1>3. Base'
    BY <1>1, <1>2, RefreshFacts, NoneShown DEF Base
  <1>4. QED
    BY <1>1, <1>3, RefreshFacts, MenusInv DEF Menus

LEMMA DisksInv ==
  ASSUME WizardInv, NEW d \in Disks, DiskWipe(d) \/ DiskPartition(d)
  PROVE  WizardInv'
  <1>1. /\ layout[d] \in Layouts \union {Blank}
        /\ code[d] \in {"old", "win98", "wiped"}
        /\ active[d] \in SUBSET Indexes
    BY DEF WizardInv, Base, TypeOK, Lists
  <1>2. CASE DiskWipe(d)
    BY <1>1, <1>2, RepartitionInv DEF DiskWipe
  <1>3. CASE DiskPartition(d)
    BY <1>1, <1>2, <1>3, RepartitionInv DEF DiskPartition
  <1>4. QED
    BY <1>2, <1>3

(***************************************************************************)
(* The destination.                                                        *)
(***************************************************************************)
\* What the lookup by number finds is what the user pointed at, on the disks
\* as they are, and it has passed the checks.
LEMMA DestinationFound ==
  ASSUME WizardInv, NEW p \in Slots, NEW n, DestinationSelect(n, p)
  PROVE  /\ PartitionFromIndex(layout, n) = p /\ Acceptable(layout, p)
         /\ p \in PartitionsOf(layout) /\ layout \in Lists
         /\ state = "SELECT_PARTITION" /\ state' = "CONFIGURE" /\ paths' = {}
         /\ Unmount(paths \union {p}) /\ WriteBack
         /\ \E a \in Arrays, w \in BOOLEAN :
              /\ hda' = [at |-> a, list |-> layout]
              /\ dest' = [part |-> p, fs |-> Extent(layout, p).fs, at |-> a,
                          chosen |-> p, warned |-> w]
  <1> DEFINE warned == Oversize(Extent(layout, p))
  <1>1. layout \in Lists
    BY DEF WizardInv, Base, TypeOK
  <1>2. PartitionFromIndex(layout, n) = p
    BY <1>1, LookupRight DEF DestinationSelect
  <1>3. state' = "CONFIGURE"
    BY Moves DEF DestinationSelect
  <1>4. PICK a \in Arrays :
          /\ hda' = [at |-> a, list |-> layout]
          /\ dest' = [part |-> p, fs |-> Extent(layout, p).fs, at |-> a,
                      chosen |-> p, warned |-> warned]
    BY <1>2, Zenon DEF DestinationSelect
  <1>5. warned \in BOOLEAN
    BY DEF Oversize
  <1>6. \E b \in Arrays, w \in BOOLEAN :
          /\ hda' = [at |-> b, list |-> layout]
          /\ dest' = [part |-> p, fs |-> Extent(layout, p).fs, at |-> b,
                      chosen |-> p, warned |-> w]
    BY <1>4, <1>5, Zenon
  <1>7. Unmount(paths \union {p}) /\ WriteBack /\ paths' = {} /\ Acceptable(layout, p)
    BY <1>2, Zenon DEF DestinationSelect
  <1>8. state = "SELECT_PARTITION" /\ p \in PartitionsOf(layout)
    BY DEF DestinationSelect
  <1>9. QED
    BY <1>1, <1>2, <1>3, <1>6, <1>7, <1>8, Zenon

LEMMA DestinationSelectInv ==
  ASSUME WizardInv, NEW p \in Slots, NEW n, DestinationSelect(n, p)
  PROVE  WizardInv'
  <1>1. PICK a \in Arrays, w \in BOOLEAN :
          /\ hda' = [at |-> a, list |-> layout]
          /\ dest' = [part |-> p, fs |-> Extent(layout, p).fs, at |-> a,
                      chosen |-> p, warned |-> w]
    BY DestinationFound
  <1>2. Extent(layout, p).fs \in {"fat16", "fat32"}
    BY DestinationFound DEF Acceptable
  <1>3. dest' \in Destinations /\ hda' \in DiskArrays
    BY <1>1, <1>2, DestinationFound DEF Destinations, DiskArrays
  <1>4. dest' # NULL /\ hda' # NULL
    BY <1>3, NullAssumption DEF NullAssumption
  <1>5. /\ dest'.part = p /\ dest'.chosen = p /\ dest'.at = a
        /\ dest'.fs = Extent(layout, p).fs /\ hda'.at = a /\ hda'.list = layout
    BY <1>1
  <1>6. UNCHANGED <<diskVars, osRoot, yes, step, error, progress, box, shown>>
    BY DEF DestinationSelect
  <1>7. state \in Screens /\ state \notin Left
    BY DestinationFound, ScreensNamed DEF Left
  <1>8. /\ mounts' \in [Slots -> 0..MaxMounts] /\ MountsHeld'
        /\ hold' \in [Slots -> {"free", "mine", "other", "stays"}]
        /\ hold'[p] \in {"free", "stays"} /\ \A q \in Slots : hold'[q] # "mine"
        /\ dirty' \in [Slots -> SUBSET Results]
    <2>1. PICK ps : ps = paths \union {p}
      OBVIOUS
    <2>2. Unmount(ps) /\ WriteBack /\ p \in ps /\ paths \subseteq ps
      BY <2>1, DestinationFound
    <2>3. QED
      BY <1>7, <2>2, UnmountFacts, UnmountOwn, WriteBackType
  <1>9. TypeOK'
    BY <1>3, <1>6, <1>8, DestinationFound, ScreensNamed DEF WizardInv, Base, TypeOK, diskVars
  <1>10. NoDangling'
    BY <1>4, <1>5, DestinationFound DEF NoDangling
  <1>11. ChosenTaken'
    BY <1>4, <1>5 DEF ChosenTaken
  <1>12. DestinationUsable'
    <2>1. p # Source /\ layout[p[1]].table = "dos" /\ p[2] <= 4
      BY DestinationFound DEF Acceptable
    <2>2. p[2] \in Nat \ {0}
      BY IndexesAssumption DEF IndexesAssumption, Slots
    <2>3. p[2] \in 1..4
      BY <2>1, <2>2
    <2>4. layout' = layout
      BY <1>6 DEF diskVars
    <2>5. DestDisk' = p[1]
      BY <1>5 DEF DestDisk
    <2>6. dest'.part \in PartitionsOf(layout') /\ Extent(layout', dest'.part).fs = dest'.fs
      BY <1>5, <2>4, DestinationFound
    <2>7. QED
      BY <1>4, <1>5, <2>1, <2>3, <2>4, <2>5, <2>6 DEF DestinationUsable
  <1>13. MenusClean' /\ StepsIdle' /\ step' = 0
    BY <1>6, <1>8, DestinationFound, ScreensNamed DEF WizardInv, MenusClean, StepsIdle
  <1>14. Base' /\ OwnMounts'
    BY <1>6, <1>7, <1>8, <1>9, <1>10, NoneShown DEF Base, OwnMounts
  <1>15. Released'
    BY <1>5, <1>8, DestinationFound DEF Released
  <1>16. QED
    BY <1>11, <1>12, <1>13, <1>14, <1>15, DestinationFound
    DEF WizardInv, VariantClean, Leaving, Prepared, Reached, Counted

LEMMA ConfigureInv == WizardInv /\ Configure => WizardInv'
  <1> SUFFICES ASSUME WizardInv, Configure PROVE WizardInv'
    OBVIOUS
  <1>1. state = "CONFIGURE" /\ state' \in {"CONFIGURE", "SELECT_PARTITION", "DO_INSTALL"}
    BY Moves DEF Configure
  <1> USE DEF Configure, diskVars, mountVars
  <1>2. TypeOK'
    <2>1. yes' \subseteq Options
      BY ChoicesAssumption DEF ChoicesAssumption
    <2>2. QED
      BY <1>1, <2>1, ScreensNamed DEF WizardInv, Base, TypeOK
  <1>3. step' = 0 /\ step = 0
    BY <1>1, ScreensNamed DEF WizardInv, StepsIdle
  <1>4. DestinationUsable'
    BY <1>1 DEF WizardInv, DestinationUsable, DestDisk
  <1>5. /\ paths' = {} /\ ~box' /\ ~error' /\ progress' = 0 /\ osRoot' # NULL
        /\ \A p \in Slots : hold'[p] # "mine"
    BY <1>1 DEF WizardInv, MenusClean
  <1>6. NoDangling' /\ ChosenTaken' /\ MountsHeld'
    BY <1>1 DEF WizardInv, Base, NoDangling, ChosenTaken, Decided, MountsHeld
  <1>7. Base'
    BY <1>1, <1>2, <1>6, NoneShown DEF Base, Left
  <1>8. Released' /\ OwnMounts'
    BY <1>1, <1>5 DEF WizardInv, Released, OwnMounts
  <1>9. QED
    BY <1>1, <1>3, <1>4, <1>5, <1>6, <1>7, <1>8
    DEF WizardInv, VariantClean, MenusClean, StepsIdle, Leaving, Prepared, Reached, Counted

(***************************************************************************)
(* Cleanup, leaving and starting again.                                    *)
(***************************************************************************)
LEMMA CleanupHangsInv ==
  ASSUME WizardInv, CleanupHangs, UNCHANGED diskVars, state \notin Left
  PROVE  WizardInv'
  <1>1. state' = "joining" /\ UNCHANGED <<mountVars, memoryVars, shown>>
    BY DEF CleanupHangs
  <1>2. TypeOK' /\ NoDangling' /\ MountsHeld'
    BY <1>1
    DEF WizardInv, Base, TypeOK, NoDangling, MountsHeld, diskVars, mountVars, memoryVars
  <1>3. QED
    BY <1>1, <1>2, NoneShown, GoneInv DEF Base

\* After a cleanup nothing is held.
LEMMA CleanupFacts ==
  ASSUME WizardInv, Cleanup, WriteBack \/ Sync, UNCHANGED diskVars,
         state' \in Screens \union {"aborted", "shell", "off"},
         shown' = NULL \/ shown' \in [part : Slots, yes : SUBSET Options],
         state \in Screens
  PROVE  /\ TypeOK' /\ NoDangling' /\ MountsHeld' /\ OwnMounts'
         /\ paths' = {} /\ dest' = NULL /\ ~box' /\ ~error' /\ progress' = 0
         /\ step' = step /\ yes' = yes
  <1>1. /\ osRoot' = NULL /\ paths' = {} /\ dest' = NULL /\ hda' = NULL
        /\ box' = FALSE /\ error' = FALSE /\ progress' = 0 /\ yes' = yes /\ step' = step
        /\ Unmount(paths \union (IF dest = NULL THEN {} ELSE {dest.part}))
    BY DEF Cleanup
  <1>2. PICK ps : ps = paths \union (IF dest = NULL THEN {} ELSE {dest.part})
    OBVIOUS
  <1>3. /\ mounts' \in [Slots -> 0..MaxMounts]
        /\ hold' \in [Slots -> {"free", "mine", "other", "stays"}]
        /\ MountsHeld' /\ \A p \in Slots : hold'[p] # "mine"
    BY <1>1, <1>2, UnmountFacts, UnmountOwn
  <1>4. dirty' \in [Slots -> SUBSET Results]
    BY WriteBackType
  <1>5. TypeOK'
    <2>1. state' \in Screens \union {"aborted", "crashed", "joining", "shell", "off"}
      OBVIOUS
    <2>2. 0 \in 0..Cardinality(Counting)
      BY PreparationNamed
    <2>3. QED
      BY <1>1, <1>3, <1>4, <2>1, <2>2 DEF WizardInv, Base, TypeOK, diskVars
  <1>6. NoDangling' /\ OwnMounts'
    BY <1>1, <1>3 DEF NoDangling, OwnMounts
  <1>7. QED
    BY <1>1, <1>3, <1>5, <1>6

LEMMA RedoFromStartInv == WizardInv /\ RedoFromStart => WizardInv'
  <1> SUFFICES ASSUME WizardInv, RedoFromStart PROVE WizardInv'
    OBVIOUS
  <1>1. state \in Screens /\ state \notin Left /\ state # "DO_INSTALL" /\ UNCHANGED diskVars
    BY ScreensNamed DEF RedoFromStart, Left
  <1>2. CASE CleanupHangs
    BY <1>1, <1>2, CleanupHangsInv
  <1>3. CASE Cleanup /\ WriteBack /\ state' = "VARIANT_SELECT" /\ shown' = shown
    <2>1. shown = NULL /\ ShownKept'
      BY <1>1, <1>3, NoneShown
    <2>2. step = 0
      BY <1>1 DEF WizardInv, StepsIdle
    <2>3. "VARIANT_SELECT" \in Screens
      BY ScreensNamed
    <2>4. /\ TypeOK' /\ NoDangling' /\ MountsHeld' /\ OwnMounts'
          /\ paths' = {} /\ dest' = NULL /\ ~box' /\ ~error' /\ progress' = 0
          /\ step' = step /\ yes' = yes
      BY <1>1, <1>3, <2>1, <2>3, CleanupFacts
    <2>5. QED
      BY <1>3, <2>1, <2>2, <2>4
      DEF WizardInv, Base, VariantClean, MenusClean, StepsIdle, ChosenTaken, Decided,
          DestinationUsable, Released, Leaving, Prepared, Reached, Counted
  <1>4. QED
    BY <1>2, <1>3 DEF RedoFromStart

\* What was shown is on the disks and written back when the installer is left.
LEMMA ExitInv ==
  ASSUME WizardInv, state \in {"EXIT_TO_SHELL", "REBOOT"}, NEW after,
         after \subseteq {"shell", "off", "aborted"}, Exit(after)
  PROVE  WizardInv'
  <1>1. state \in Screens /\ state \notin Left /\ UNCHANGED diskVars
    BY ScreensNamed DEF Exit, Left
  <1>2. CASE CleanupHangs
    BY <1>1, <1>2, CleanupHangsInv
  <1>3. CASE /\ Cleanup
             /\ Sync
             /\ state' \in after
             /\ shown' = IF dest = NULL THEN NULL ELSE [part |-> dest.part, yes |-> yes]
    <2>1. shown' = NULL \/ shown' \in [part : Slots, yes : SUBSET Options]
      BY <1>3 DEF WizardInv, Base, TypeOK, Destinations
    <2>2. state' \in {"shell", "off", "aborted"}
      BY <1>3
    <2>3. TypeOK' /\ NoDangling' /\ MountsHeld'
      BY <1>1, <1>3, <2>1, <2>2, CleanupFacts
    <2>4. ShownKept'
      <3>1. SUFFICES ASSUME shown' # NULL PROVE ShownKept'
        BY DEF ShownKept
      <3>2. dest # NULL /\ shown' = [part |-> dest.part, yes |-> yes]
        BY <1>3, <3>1
      <3>3. Complete(dest.part, yes)
        BY <3>2 DEF WizardInv, Leaving
      <3>4. PICK p : p = dest.part
        OBVIOUS
      <3>5. PICK y : y = yes
        OBVIOUS
      <3>6. Complete(p, y)'
        BY <1>1, <3>3, <3>4, <3>5 DEF Complete, diskVars
      <3>7. shown'.part = p /\ shown'.yes = y
        BY <3>2, <3>4, <3>5
      <3>8. Complete(shown.part, shown.yes)'
        BY <3>6, <3>7 DEF Complete
      <3>9. \A q \in Slots : dirty'[q] = {}
        BY <1>3 DEF Sync
      <3>10. QED
        BY <2>2, <3>8, <3>9 DEF ShownKept, Left
    <2>5. QED
      BY <2>2, <2>3, <2>4, GoneInv DEF Base
  <1>4. QED
    BY <1>2, <1>3 DEF Exit

LEMMA LeavingInv == WizardInv /\ (RedoFromStart \/ ExitToShell \/ Reboot) => WizardInv'
  <1>1. ASSUME WizardInv, ExitToShell PROVE WizardInv'
    BY <1>1, ExitInv DEF ExitToShell
  <1>2. ASSUME WizardInv, Reboot PROVE WizardInv'
    BY <1>2, ExitInv DEF Reboot
  <1>3. QED
    BY <1>1, <1>2, RedoFromStartInv

LEMMA TheEndInv == WizardInv /\ TheEnd => WizardInv'
  <1> SUFFICES ASSUME WizardInv, TheEnd PROVE WizardInv'
    OBVIOUS
  <1>1. state = "THE_END" /\ state' \in {"REBOOT", "REDO_FROM_START", "EXIT_TO_SHELL"}
        /\ UNCHANGED <<diskVars, mountVars, memoryVars, shown>>
    BY DEF TheEnd, EndChoices
  <1>2. TypeOK' /\ NoDangling' /\ MountsHeld' /\ OwnMounts'
    BY <1>1, ScreensNamed
    DEF WizardInv, Base, TypeOK, NoDangling, MountsHeld, OwnMounts, diskVars, mountVars,
        memoryVars
  <1>3. step' = 0
    BY <1>1, ScreensNamed DEF WizardInv, StepsIdle, memoryVars
  <1>4. Complete(dest.part, yes)'
    BY <1>1 DEF WizardInv, Reached, Complete, diskVars, memoryVars
  <1>5. Base'
    BY <1>1, <1>2, NoneShown DEF Base, Left
  <1>6. QED
    BY <1>1, <1>2, <1>3, <1>4, <1>5, LeaveInv

LEMMA RestartInv == WizardInv /\ Restart => WizardInv'
  <1> SUFFICES ASSUME WizardInv, Restart PROVE WizardInv'
    OBVIOUS
  <1>1. /\ Start /\ UNCHANGED <<files, mounts, dirty>>
        /\ hold' = [p \in Slots |-> IF mounts[p] = 0 THEN "free" ELSE "other"]
    BY DEF Restart
  <1>2. hold' \in [Slots -> {"free", "other"}] /\ MountsHeld'
    BY <1>1 DEF MountsHeld
  <1>3. ShownKept'
    BY <1>1 DEF WizardInv, Base, ShownKept, Start, Left, Complete
  <1>4. QED
    BY <1>1, <1>2, <1>3, StartInv DEF WizardInv, Base, TypeOK

\* What is lost with the power was not written back, and nothing of what was
\* shown as a success before the installer was left.
LEMMA PowerCycleInv == WizardInv /\ PowerCycle => WizardInv'
  <1> SUFFICES ASSUME WizardInv, PowerCycle PROVE WizardInv'
    OBVIOUS
  <1>1. PICK lost \in SUBSET UNION {{p} \X dirty[p] : p \in Slots} :
          files' = [p \in Slots |-> {s \in files[p] : <<p, s>> \notin lost}]
    BY DEF PowerCycle
  <1>2. /\ Start
        /\ mounts' = [p \in Slots |-> 0]
        /\ hold' = [p \in Slots |-> "free"]
        /\ dirty' = [p \in Slots |-> {}]
    BY DEF PowerCycle
  <1>3. files \in [Slots -> SUBSET Results]
    BY DEF WizardInv, Base, TypeOK
  <1>4. files' \in [Slots -> SUBSET Results]
    BY <1>1, <1>3
  <1>5. MountsHeld' /\ hold' \in [Slots -> {"free", "other"}]
    BY <1>2 DEF MountsHeld
  <1>6. ShownKept'
    <2>1. SUFFICES ASSUME shown # NULL PROVE ShownKept'
      BY <1>2 DEF ShownKept, Start
    <2>2. /\ Complete(shown.part, shown.yes) /\ \A p \in Slots : dirty[p] = {}
          /\ shown.part \in Slots
      BY <2>1 DEF WizardInv, Base, TypeOK, ShownKept
    <2>3. lost = {}
      BY <2>2
    <2>4. files' = files
      BY <1>1, <1>3, <2>3
    <2>5. Complete(shown.part, shown.yes)'
      BY <1>2, <2>2, <2>4 DEF Complete, Start
    <2>6. QED
      BY <1>2, <2>5 DEF ShownKept, Start, Left
  <1>7. mounts' \in [Slots -> 0..MaxMounts] /\ dirty' \in [Slots -> SUBSET Results]
    BY <1>2, MaxMountsAssumption DEF MaxMountsAssumption
  <1>8. QED
    BY <1>2, <1>4, <1>5, <1>6, <1>7, StartInv

LEMMA ShellMountInv == ASSUME WizardInv, NEW p \in Slots, ShellMount(p) PROVE WizardInv'
  <1>1. /\ mounts' = [mounts EXCEPT ![p] = 1] /\ hold' = [hold EXCEPT ![p] = "other"]
        /\ UNCHANGED <<diskVars, dirty, state, memoryVars, shown>> /\ state = "shell"
    BY DEF ShellMount
  <1>2. mounts \in [Slots -> 0..MaxMounts]
        /\ hold \in [Slots -> {"free", "mine", "other", "stays"}] /\ MountsHeld
    BY DEF WizardInv, Base, TypeOK
  <1>3. mounts' \in [Slots -> 0..MaxMounts]
        /\ hold' \in [Slots -> {"free", "mine", "other", "stays"}]
    BY <1>1, <1>2, MaxMountsAssumption DEF MaxMountsAssumption
  <1>4. MountsHeld'
    BY <1>1, <1>2 DEF MountsHeld
  <1>5. TypeOK' /\ NoDangling'
    BY <1>1, <1>3 DEF WizardInv, Base, TypeOK, NoDangling, diskVars, memoryVars
  <1>6. ShownKept'
    BY <1>1 DEF WizardInv, Base, ShownKept, Complete, diskVars
  <1>7. QED
    BY <1>1, <1>4, <1>5, <1>6, GoneInv DEF Base

(***************************************************************************)
(* The installation.                                                       *)
(***************************************************************************)
\* What the steps may change.
WrittenType ==
  /\ code \in [Disks -> {"old", "win98", "wiped"}]
  /\ active \in [Disks -> SUBSET Indexes]
  /\ boot \in [Slots -> {"old", "mkfs", "win98", "none"}]
  /\ files \in [Slots -> SUBSET Results]
  /\ mounts \in [Slots -> 0..MaxMounts]
  /\ hold \in [Slots -> {"free", "mine", "other", "stays"}]
  /\ dirty \in [Slots -> SUBSET Results]
  /\ paths \subseteq Slots
  /\ osRoot \in {NULL, "open", "asking"}

LEMMA InstallStartInv == WizardInv /\ InstallStart => WizardInv'
  <1> SUFFICES ASSUME WizardInv, InstallStart PROVE WizardInv'
    OBVIOUS
  <1> USE DEF InstallStart, diskVars, mountVars
  <1>1. TypeOK'
    <2>1. 1 \in 0..(Len(Steps) + 1) /\ 0 \in 0..Cardinality(Counting)
      BY StepsNamed, PreparationNamed
    <2>2. QED
      BY <2>1 DEF WizardInv, Base, TypeOK
  <1>2. Upto(1)'
    BY DEF Upto
  <1>3. Cardinality(Advanced(1)') = 0
    BY AdvancedEnds DEF Advanced
  <1>4. NoDangling' /\ ChosenTaken' /\ MountsHeld' /\ OwnMounts' /\ Released'
    BY DEF WizardInv, Base, NoDangling, ChosenTaken, Decided, MountsHeld, OwnMounts, Released
  <1>5. DestinationUsable'
    BY DEF WizardInv, DestinationUsable, DestDisk
  <1>6. Prepared'
    BY DEF WizardInv, Prepared
  <1>7. Reached' /\ Counted'
    BY <1>2, <1>3 DEF Reached, Counted
  <1>8. Base'
    BY <1>1, <1>4, NoneShown DEF Base, Left
  <1>9. QED
    BY <1>4, <1>5, <1>6, <1>7, <1>8
    DEF WizardInv, VariantClean, MenusClean, StepsIdle, Leaving

\* From one step to the next.
LEMMA AdvanceInv ==
  ASSUME WizardInv, state = "DO_INSTALL", step \in 1..12, NEW n, n = step + 1, step' = n,
         UNCHANGED <<layout, state, hda, dest, yes, box, shown>>,
         WrittenType', error' \in BOOLEAN, progress' \in Nat,
         progress' <= Cardinality(Advanced(n)),
         ~error' => progress' = Cardinality(Advanced(n)) /\ Upto(n)',
         step > 3 /\ ~error' => dest.part \in paths',
         step <= 5 => osRoot' # NULL,
         MountsHeld', OwnMounts',
         step <= 3 => UNCHANGED <<paths, hold>>
  PROVE  WizardInv'
  <1>1. TypeOK'
    <2>1. progress' \in 0..Cardinality(Counting)
      BY AdvancedBounds, PreparationNamed
    <2>2. step' \in 0..(Len(Steps) + 1)
      BY StepsNamed
    <2>3. QED
      BY <2>1, <2>2 DEF WizardInv, Base, TypeOK, WrittenType
  <1>2. Advanced(n)' = Advanced(n)
    BY DEF Advanced
  <1>3. Counted' /\ Reached'
    BY <1>2 DEF Counted, Reached
  <1>4. DestinationUsable'
    BY DEF WizardInv, DestinationUsable, DestDisk
  <1>5. NoDangling' /\ ChosenTaken'
    BY DEF WizardInv, Base, NoDangling, ChosenTaken, Decided
  <1>6. Prepared' /\ Released'
    BY DEF WizardInv, Prepared, Released
  <1>7. Base'
    BY <1>1, <1>5, NoneShown DEF Base, Left
  <1>8. QED
    BY <1>3, <1>4, <1>5, <1>6, <1>7
    DEF WizardInv, VariantClean, MenusClean, StepsIdle, Leaving

LEMMA SkipStepInv == WizardInv /\ SkipStep => WizardInv'
  <1> SUFFICES ASSUME WizardInv, NEW s \in Options \union Always, Running(s), ~Enabled(s),
                      SkipStep
               PROVE  WizardInv'
    BY DEF SkipStep
  <1>0. PICK n : n = step + 1
    OBVIOUS
  <1>1. state = "DO_INSTALL" /\ step \in 1..12 /\ Steps[step] = s
    BY RunningNamed
  <1>2. /\ step' = n
        /\ UNCHANGED <<diskVars, mountVars, state, hda, dest, paths, osRoot, yes,
                       error, progress, box, shown>>
    BY <1>0 DEF SkipStep
  <1>3. error \in BOOLEAN /\ progress \in Nat
    BY PreparationNamed DEF WizardInv, Base, TypeOK
  <1>4. error \/ s \notin yes \union Always
    BY DEF Enabled
  <1>5. /\ progress <= Cardinality(Advanced(n))
        /\ ~error => progress = Cardinality(Advanced(n))
    BY <1>1, <1>3, <1>4, <1>0, AdvancedNext, AdvancedBounds DEF WizardInv, Counted
  <1>6. ~error => Upto(n)'
    <2>1. SUFFICES ASSUME ~error PROVE Upto(n)
      BY <1>2 DEF Upto, diskVars, DestDisk, Got, Allowed
    <2>2. Upto(step) /\ s \notin yes \union Always
      BY <2>1, <1>1, <1>4 DEF WizardInv, Reached
    <2>3. QED
      BY <2>2, <1>1, <1>0, StepsNamed DEF Upto
  <1>7. WrittenType' /\ MountsHeld' /\ OwnMounts'
    BY <1>2
    DEF WizardInv, Base, TypeOK, WrittenType, MountsHeld, OwnMounts, diskVars, mountVars
  <1>8. step > 3 /\ ~error => dest.part \in paths
    <2>1. "mount" \in Always
      BY DEF Always
    <2>2. step = 4 => error
      BY <2>1, <1>1, <1>4, StepsNamed
    <2>3. QED
      BY <2>2, <1>1 DEF WizardInv, Prepared
  <1>9. step <= 5 => osRoot' # NULL
    BY <1>1, <1>2 DEF WizardInv, Prepared
  <1>10. UNCHANGED <<layout, state, hda, dest, yes, box, shown, paths, hold>>
    BY <1>2 DEF diskVars, mountVars
  <1>11. QED
    BY <1>1, <1>2, <1>3, <1>5, <1>6, <1>7, <1>8, <1>9, <1>10, <1>0, AdvanceInv

\* An executed step has ended, well or badly.
LEMMA DoneInv ==
  ASSUME WizardInv, NEW s, Execute(s), Done(TRUE) \/ Done(FALSE), NEW n, n = step + 1,
         layout' = layout, WrittenType',
         Done(TRUE) => Upto(n)',
         step > 3 /\ Done(TRUE) => dest.part \in paths',
         step <= 5 => osRoot' # NULL,
         MountsHeld', OwnMounts',
         step <= 3 => UNCHANGED <<paths, hold>>
  PROVE  WizardInv'
  <1>1. state = "DO_INSTALL" /\ step \in 1..12 /\ Steps[step] = s /\ s \in yes \union Always
        /\ ~error
    BY RunningNamed DEF Execute, Enabled
  <1>2. step' = n /\ UNCHANGED <<layout, state, hda, dest, yes, box, shown>>
    BY DEF Done
  <1>3. error' \in BOOLEAN /\ (~error' => Done(TRUE))
    BY <1>1 DEF Done
  <1>4. progress' = Cardinality(Advanced(n))
    <2>1. progress = Cardinality(Advanced(step))
      BY <1>1 DEF WizardInv, Counted
    <2>2. progress' = IF Steps[step] \in Counting THEN progress + 1 ELSE progress
      BY DEF Done
    <2>3. Steps[step] \in Counting <=> Steps[step] \in Preparation \intersect (yes \union Always)
      BY <1>1, PreparationNamed
    <2>4. Cardinality(Advanced(step)) \in Int
      BY AdvancedBounds
    <2>5. Cardinality(Advanced(step + 1)) =
            Cardinality(Advanced(step))
            + (IF Steps[step] \in Preparation \intersect (yes \union Always) THEN 1 ELSE 0)
      BY <1>1, AdvancedNext
    <2>6. QED
      BY <2>1, <2>2, <2>3, <2>4, <2>5
  <1>5. progress' \in Nat /\ progress' <= Cardinality(Advanced(n))
    BY <1>4, AdvancedBounds
  <1>6. QED
    BY <1>1, <1>2, <1>3, <1>4, <1>5, AdvanceInv

\* A step has ended the program or hangs.
LEMMA StuckInv ==
  ASSUME WizardInv, state = "DO_INSTALL", NEW x \in {"aborted", "joining"}, Stuck(x),
         layout' = layout, WrittenType', MountsHeld'
  PROVE  WizardInv'
  <1>1. TypeOK' /\ NoDangling'
    BY DEF WizardInv, Base, TypeOK, NoDangling, WrittenType, Stuck
  <1>2. ShownKept'
    BY NoneShown DEF Left, Stuck
  <1>3. QED
    BY <1>1, <1>2, GoneInv DEF Stuck, Base

\* What a step that is executed can rely on.
LEMMA ExecuteFacts ==
  ASSUME WizardInv, NEW s, Execute(s)
  PROVE  /\ state = "DO_INSTALL" /\ step \in 1..12 /\ Steps[step] = s
         /\ s \in yes \union Always /\ ~error
         /\ Upto(step)
         /\ dest # NULL /\ box
         /\ dest.part \in Slots /\ DestDisk \in Disks /\ dest.part[2] \in Indexes
         /\ dest.part = dest.chosen
         /\ step > 4 => dest.part \in paths
         /\ step <= 4 => hold[dest.part] \in {"free", "stays"}
         /\ step <= 6 => osRoot # NULL
         /\ WrittenType /\ MountsHeld /\ OwnMounts
  <1>1. state = "DO_INSTALL" /\ step \in 1..12 /\ Steps[step] = s
        /\ s \in yes \union Always /\ ~error
    BY RunningNamed DEF Execute, Enabled
  <1>2. Upto(step)
    BY <1>1 DEF WizardInv, Reached
  <1>3. dest # NULL /\ dest.part = dest.chosen
    BY <1>1 DEF WizardInv, ChosenTaken, Decided
  <1>4. /\ box /\ (step > 4 => dest.part \in paths) /\ (step <= 6 => osRoot # NULL)
        /\ step <= 4 => hold[dest.part] \in {"free", "stays"}
    BY <1>1 DEF WizardInv, Prepared, Released
  <1>5. dest.part \in Slots
    BY <1>3 DEF WizardInv, Base, TypeOK, Destinations
  <1>6. DestDisk \in Disks /\ dest.part[2] \in Indexes
    BY <1>5 DEF DestDisk, Slots
  <1>7. WrittenType /\ MountsHeld /\ OwnMounts
    BY DEF WizardInv, Base, TypeOK, WrittenType
  <1>8. QED
    BY <1>1, <1>2, <1>3, <1>4, <1>5, <1>6, <1>7

\* A step that leaves the mounts alone.
LEMMA MountsKept ==
  ASSUME WizardInv, UNCHANGED <<mounts, hold, paths>>,
         state = "DO_INSTALL"
  PROVE  MountsHeld' /\ OwnMounts'
  BY ScreensNamed DEF WizardInv, Base, MountsHeld, OwnMounts

LEMMA WriteMbrInv == WizardInv /\ WriteMbrSetActive => WizardInv'
  <1> SUFFICES ASSUME WizardInv, WriteMbrSetActive PROVE WizardInv'
    OBVIOUS
  <1>1. Execute("mbr") /\ step = 1
    BY RunningNamed DEF WriteMbrSetActive, Execute
  <1>2. PICK n : n = step + 1
    OBVIOUS
  <1>3. Done(TRUE) \/ Done(FALSE)
    BY DEF WriteMbrSetActive
  <1>4. UNCHANGED <<layout, boot, files, mounts, hold, dirty, paths, osRoot>>
    BY DEF WriteMbrSetActive, mountVars
  <1>5. WrittenType'
    <2>1. WrittenType /\ DestDisk \in Disks /\ dest.part[2] \in Indexes
      BY <1>1, ExecuteFacts
    <2>2. code' \in [Disks -> {"old", "win98", "wiped"}]
      BY <2>1 DEF WrittenType, WriteMbrSetActive
    <2>3. active' \in [Disks -> SUBSET Indexes]
      <3>1. active' \in {active, [active EXCEPT ![DestDisk] = {dest.part[2]}]}
        BY Zenon DEF WriteMbrSetActive
      <3>2. QED
        BY <2>1, <3>1 DEF WrittenType
    <2>4. QED
      BY <1>4, <2>1, <2>2, <2>3 DEF WrittenType
  <1>6. Done(TRUE) => Upto(n)'
    <2>1. ~(Done(TRUE) /\ Done(FALSE))
      BY <1>1, ExecuteFacts DEF Done
    <2>2. SUFFICES ASSUME Done(TRUE) PROVE Upto(n)'
      OBVIOUS
    <2>3. code' = [code EXCEPT ![DestDisk] = "win98"]
          /\ active' = [active EXCEPT ![DestDisk] = {dest.part[2]}]
      BY <2>1, <2>2 DEF WriteMbrSetActive
    <2>4. DestDisk \in Disks /\ DOMAIN code = Disks /\ DOMAIN active = Disks
      BY <1>1, ExecuteFacts DEF WrittenType
    <2>5. code'[DestDisk] = "win98" /\ active'[DestDisk] = {dest.part[2]}
      BY <2>3, <2>4
    <2>6. dest' = dest /\ DestDisk' = DestDisk
      BY <2>2 DEF Done, DestDisk
    <2>7. QED
      BY <1>1, <1>2, <2>5, <2>6 DEF Upto
  <1>7. osRoot' # NULL /\ ~(step > 3)
    BY <1>1, <1>4, ExecuteFacts
  <1>8. MountsHeld' /\ OwnMounts'
    <2>1. state = "DO_INSTALL"
      BY <1>1, ExecuteFacts
    <2>2. QED
      BY <1>4, <2>1, MountsKept
  <1>9. QED
    BY <1>1, <1>2, <1>3, <1>4, <1>5, <1>6, <1>7, <1>8, DoneInv, Zenon

LEMMA FormatInv == WizardInv /\ Format => WizardInv'
  <1> SUFFICES ASSUME WizardInv, Format PROVE WizardInv'
    OBVIOUS
  <1>1. Execute("format") /\ step = 2
    BY RunningNamed DEF Format, Execute
  <1>2. PICK n : n = step + 1
    OBVIOUS
  <1>3. UNCHANGED <<layout, code, active, mounts, hold, paths, osRoot>>
    BY DEF Format
  <1>4. WrittenType'
    <2>1. WrittenType /\ dest.part \in Slots
      BY <1>1, ExecuteFacts
    <2>2. /\ boot' \in {boot, [boot EXCEPT ![dest.part] = "mkfs"],
                       [boot EXCEPT ![dest.part] = "none"]}
          /\ files' \in {files, [files EXCEPT ![dest.part] = {}]}
          /\ dirty' = dirty \/ Sync
      BY Zenon DEF Format, SetVolume
    <2>3. dirty' \in [Slots -> SUBSET Results]
      BY <2>2, WriteBackType
    <2>4. QED
      BY <1>3, <2>1, <2>2, <2>3 DEF WrittenType
  <1>5. ASSUME Done(TRUE) PROVE Upto(n)'
    <2>1. ~Done(FALSE) /\ ~Stuck("aborted")
      BY <1>1, <1>5, ExecuteFacts DEF Done, Stuck
    <2>2. files' = [files EXCEPT ![dest.part] = {}]
      BY <2>1 DEF Format, SetVolume
    <2>3. files'[dest.part] = {}
      BY <1>1, <2>2, ExecuteFacts DEF WrittenType
    <2>4. dest' = dest /\ yes' = yes /\ DestDisk' = DestDisk
      BY <1>5 DEF Done, DestDisk
    <2>5. Upto(step)
      BY <1>1, ExecuteFacts
    <2>6. QED
      BY <1>1, <1>2, <1>3, <2>3, <2>4, <2>5 DEF Upto
  <1>6. osRoot' # NULL /\ ~(step > 3) /\ state = "DO_INSTALL"
    BY <1>1, <1>3, ExecuteFacts
  <1>7. MountsHeld' /\ OwnMounts'
    BY <1>3, <1>6, MountsKept
  <1>8. CASE Done(TRUE) \/ Done(FALSE)
    BY <1>1, <1>2, <1>3, <1>4, <1>5, <1>6, <1>7, <1>8, DoneInv, Zenon
  <1>9. CASE Stuck("aborted")
    BY <1>3, <1>4, <1>6, <1>7, <1>9, StuckInv
  <1>10. QED
    BY <1>8, <1>9 DEF Format

LEMMA WriteBootSectorInv == WizardInv /\ WriteBootSector => WizardInv'
  <1> SUFFICES ASSUME WizardInv, WriteBootSector PROVE WizardInv'
    OBVIOUS
  <1>1. Execute("bootSector") /\ step = 3
    BY RunningNamed DEF WriteBootSector, Execute
  <1>2. PICK n : n = step + 1
    OBVIOUS
  <1>3. UNCHANGED <<layout, code, active, files, mounts, hold, paths, osRoot>>
    BY DEF WriteBootSector
  <1>4. WrittenType'
    <2>1. WrittenType /\ dest.part \in Slots
      BY <1>1, ExecuteFacts
    <2>2. /\ boot' \in {boot, [boot EXCEPT ![dest.part] = "win98"],
                        [boot EXCEPT ![dest.part] = "none"]}
          /\ dirty' = dirty \/ Sync
      BY Zenon DEF WriteBootSector
    <2>3. dirty' \in [Slots -> SUBSET Results]
      BY <2>2, WriteBackType
    <2>4. QED
      BY <1>3, <2>1, <2>2, <2>3 DEF WrittenType
  <1>5. ASSUME Done(TRUE) PROVE Upto(n)'
    <2>1. ~Done(FALSE) /\ ~Stuck("aborted")
      BY <1>1, <1>5, ExecuteFacts DEF Done, Stuck
    <2>2. boot' = [boot EXCEPT ![dest.part] = "win98"]
      BY <2>1 DEF WriteBootSector
    <2>3. boot'[dest.part] = "win98"
      BY <1>1, <2>2, ExecuteFacts DEF WrittenType
    <2>4. dest' = dest /\ yes' = yes /\ DestDisk' = DestDisk /\ Allowed' = Allowed
      BY <1>5 DEF Done, DestDisk, Allowed
    <2>5. Upto(step)
      BY <1>1, ExecuteFacts
    <2>6. QED
      BY <1>1, <1>2, <1>3, <2>3, <2>4, <2>5 DEF Upto
  <1>6. osRoot' # NULL /\ ~(step > 3) /\ state = "DO_INSTALL"
    BY <1>1, <1>3, ExecuteFacts
  <1>7. MountsHeld' /\ OwnMounts'
    BY <1>3, <1>6, MountsKept
  <1>8. CASE Done(TRUE) \/ Done(FALSE)
    BY <1>1, <1>2, <1>3, <1>4, <1>5, <1>6, <1>7, <1>8, DoneInv, Zenon
  <1>9. CASE Stuck("aborted")
    BY <1>3, <1>4, <1>6, <1>7, <1>9, StuckInv
  <1>10. QED
    BY <1>8, <1>9 DEF WriteBootSector

LEMMA MountPartitionInv == WizardInv /\ MountPartition => WizardInv'
  <1> SUFFICES ASSUME WizardInv, MountPartition PROVE WizardInv'
    OBVIOUS
  <1>1. Execute("mount") /\ step = 4
    BY RunningNamed DEF MountPartition, Execute
  <1>2. PICK n : n = step + 1
    OBVIOUS
  <1>3. UNCHANGED <<diskVars, dirty, osRoot>> /\ (Done(TRUE) \/ Done(FALSE))
    BY DEF MountPartition
  <1>4. WrittenType /\ MountsHeld /\ OwnMounts /\ dest.part \in Slots /\ state \in Screens
        /\ hold[dest.part] \in {"free", "stays"}
    BY <1>1, ExecuteFacts, ScreensNamed
  <1>5. \/ /\ mounts' = mounts /\ hold' = hold
           /\ paths' = paths \ {dest.part}
        \/ /\ mounts[dest.part] < MaxMounts
           /\ mounts' = [mounts EXCEPT ![dest.part] = @ + 1]
           /\ hold' = [hold EXCEPT ![dest.part] = "mine"]
           /\ paths' = paths \union {dest.part}
    BY DEF MountPartition
  <1>6. mounts[dest.part] \in 0..MaxMounts /\ MaxMounts \in Nat
    BY <1>4, MaxMountsAssumption DEF WrittenType, MaxMountsAssumption
  <1>7. WrittenType'
    <2>1. mounts' \in [Slots -> 0..MaxMounts]
      <3>1. mounts[dest.part] < MaxMounts => mounts[dest.part] + 1 \in 0..MaxMounts
        BY <1>6
      <3>2. QED
        BY <1>4, <1>5, <3>1 DEF WrittenType
    <2>2. paths' \subseteq Slots
      BY <1>4, <1>5 DEF WrittenType
    <2>3. hold' \in [Slots -> {"free", "mine", "other", "stays"}]
      BY <1>4, <1>5 DEF WrittenType
    <2>4. QED
      BY <1>3, <1>4, <2>1, <2>2, <2>3 DEF WrittenType, diskVars
  <1>8. MountsHeld'
    <2>1. ASSUME NEW p \in Slots PROVE mounts'[p] = 0 <=> hold'[p] = "free"
      <3>1. CASE p = dest.part
        BY <1>4, <1>5, <1>6, <3>1 DEF MountsHeld, WrittenType
      <3>2. CASE p # dest.part
        BY <1>4, <1>5, <3>2 DEF MountsHeld, WrittenType
      <3>3. QED
        BY <3>1, <3>2
    <2>2. QED
      BY <2>1 DEF MountsHeld
  <1>9. OwnMounts'
    <2>1. ASSUME NEW p \in Slots, hold'[p] = "mine" PROVE p \in paths'
      <3>1. CASE p = dest.part
        BY <1>4, <1>5, <2>1, <3>1 DEF WrittenType
      <3>2. CASE p # dest.part
        <4>1. hold[p] = "mine"
          BY <1>4, <1>5, <2>1, <3>2 DEF WrittenType
        <4>2. QED
          BY <1>4, <1>5, <3>2, <4>1 DEF OwnMounts
      <3>3. QED
        BY <3>1, <3>2
    <2>2. QED
      BY <2>1 DEF OwnMounts
  <1>10. ASSUME Done(TRUE) PROVE Upto(n)' /\ dest.part \in paths'
    <2>1. ~Done(FALSE)
      BY <1>1, <1>10, ExecuteFacts DEF Done
    <2>2. dest.part \in paths'
      BY <2>1 DEF MountPartition
    <2>3. dest' = dest /\ yes' = yes /\ DestDisk' = DestDisk /\ Allowed' = Allowed
      BY <1>10 DEF Done, DestDisk, Allowed
    <2>4. Upto(step)
      BY <1>1, ExecuteFacts
    <2>5. Upto(n)'
      BY <1>1, <1>2, <1>3, <2>3, <2>4 DEF Upto, diskVars
    <2>6. QED
      BY <2>2, <2>5
  <1>11. osRoot' # NULL /\ layout' = layout
    BY <1>1, <1>3, ExecuteFacts DEF diskVars
  <1>12. ~(step <= 3)
    BY <1>1
  <1>13. QED
    BY <1>1, <1>2, <1>3, <1>7, <1>8, <1>9, <1>10, <1>11, <1>12, DoneInv, Zenon


\* The steps that copy into the mounted partition have one form.
CopyingStep(s) ==
  /\ Execute(s)
  /\ \/ Copied(s) /\ Done(TRUE)
     \/ Leaves(s, {Partly(s)}) /\ Done(TRUE)
     \/ Torn(s) /\ Done(FALSE)
     \/ Torn(s) /\ Stuck("joining")
     \/ TornAborted(s)
  /\ osRoot' = osRoot \/ (s = "baseOS" /\ osRoot' = NULL)
  /\ UNCHANGED <<layout, code, active, boot, mounts, hold, paths>>

LEMMA CopyingForms ==
  /\ CopyUefi => CopyingStep("uefi")
  /\ CopyOSRoot => CopyingStep("baseOS")
  /\ \A s \in {"registry", "cregfix", "lba64", "driversBase"} : Unpack(s) => CopyingStep(s)
  /\ \A s \in {"driversExtra", "extras"} : CopyFileTree(s) => CopyingStep(s)
  <1>1. CopyUefi => CopyingStep("uefi")
    BY Zenon DEF CopyUefi, CopyingStep
  <1>2. CopyOSRoot => CopyingStep("baseOS")
    BY Zenon DEF CopyOSRoot, CopyingStep
  <1>3. ASSUME NEW s \in {"registry", "cregfix", "lba64", "driversBase"}, Unpack(s)
        PROVE  CopyingStep(s)
    BY <1>3, Zenon DEF Unpack, CopyingStep
  <1>4. ASSUME NEW s \in {"driversExtra", "extras"}, CopyFileTree(s)
        PROVE  CopyingStep(s)
    BY <1>4, Zenon DEF CopyFileTree, TreeCopied, CopyingStep
  <1>5. QED
    BY <1>1, <1>2, <1>3, <1>4

LEMMA PartlyNamed ==
  ASSUME NEW s
  PROVE  Partly(s) = IF s = "driversExtra" THEN "someDriversExtra"
                     ELSE IF s = "extras" THEN "someExtras" ELSE s
  BY DEF Partly

\* Two steps leave different results.
LEMMA PartlyDistinct ==
  ASSUME NEW s \in Copying, NEW t \in Copying, s # t
  PROVE  /\ s # Partly(t) /\ Partly(s) # t /\ Partly(s) # Partly(t)
         /\ s \in Results /\ Partly(s) \in Results
  BY PartlyNamed DEF Copying, Results

LEMMA CopyingNamed == \A k \in 5..12 : Steps[k] \in Copying
  <1>1. \A k \in 5..12 : k = 5 \/ k = 6 \/ k = 7 \/ k = 8 \/ k = 9 \/ k = 10 \/ k = 11 \/ k = 12
    OBVIOUS
  <1>2. QED
    BY <1>1, StepsNamed DEF Copying

\* A step leaves results of its own, and what the other steps have left.
LEMMA LeavesFacts ==
  ASSUME WrittenType, NEW p, p = dest.part, p \in Slots, NEW s \in Copying,
         NEW r \in SUBSET {s, Partly(s)}, Leaves(s, r)
  PROVE  /\ files' \in [Slots -> SUBSET Results]
         /\ dirty' \in [Slots -> SUBSET Results]
         /\ files'[p] = (files[p] \ {s, Partly(s)}) \union r
         /\ \A q \in Slots \ {p} : files'[q] = files[q]
         /\ \A t \in Copying \ {s} :
              t \in files[p] \/ Partly(t) \in files[p] => t \in files'[p] \/ Partly(t) \in files'[p]
  <1>1. /\ files' = [files EXCEPT ![p] = (@ \ {s, Partly(s)}) \union r]
        /\ dirty' = [dirty EXCEPT ![p] = (@ \ {s, Partly(s)}) \union r]
    BY Zenon DEF Leaves
  <1>2. files \in [Slots -> SUBSET Results] /\ dirty \in [Slots -> SUBSET Results]
    BY DEF WrittenType
  <1>3. r \subseteq Results
    <2>1. s \in Results /\ Partly(s) \in Results
      BY PartlyNamed DEF Copying, Results
    <2>2. QED
      BY <2>1
  <1>4. files'[p] = (files[p] \ {s, Partly(s)}) \union r
        /\ \A q \in Slots \ {p} : files'[q] = files[q]
    BY <1>1, <1>2
  <1>5. files' \in [Slots -> SUBSET Results] /\ dirty' \in [Slots -> SUBSET Results]
    BY <1>1, <1>2, <1>3
  <1>6. \A t \in Copying \ {s} :
          t \in files[p] \/ Partly(t) \in files[p] => t \in files'[p] \/ Partly(t) \in files'[p]
    BY <1>4, PartlyDistinct
  <1>7. QED
    BY <1>4, <1>5, <1>6

\* So does one that an assertion ends.
LEMMA TornFacts ==
  ASSUME WrittenType, NEW p, p = dest.part, p \in Slots, NEW s \in Copying, TornAborted(s)
  PROVE  /\ files' \in [Slots -> SUBSET Results]
         /\ dirty' \in [Slots -> SUBSET Results]
         /\ \A q \in Slots \ {p} : files'[q] = files[q]
  <1>1. files' = [files EXCEPT ![p] = @ \ {s, Partly(s)}] /\ dirty' = [q \in Slots |-> {}]
    BY Zenon DEF TornAborted, Sync
  <1>2. files \in [Slots -> SUBSET Results]
    BY DEF WrittenType
  <1>3. QED
    BY <1>1, <1>2

LEMMA CopyingStepInv ==
  ASSUME WizardInv, NEW s \in Copying, CopyingStep(s)
  PROVE  WizardInv'
  <1>1. Execute(s)
    BY DEF CopyingStep
  <1>2. step \in 5..12 /\ Steps[step] = s /\ (s = "baseOS" => step = 6)
    <2>1. step \in 1..12 /\ Steps[step] = s /\ (s = "baseOS" => step = 6)
          /\ (step = 1 => s = "mbr") /\ (step = 2 => s = "format")
          /\ (step = 3 => s = "bootSector") /\ (step = 4 => s = "mount")
      BY <1>1, RunningNamed DEF Execute
    <2>2. s \notin {"mbr", "format", "bootSector", "mount"}
      BY DEF Copying
    <2>3. QED
      BY <2>1, <2>2
  <1>3. PICK n : n = step + 1
    OBVIOUS
  <1>4. UNCHANGED <<layout, code, active, boot, mounts, hold, paths>>
    BY DEF CopyingStep
  <1>5. PICK p : p = dest.part
    OBVIOUS
  <1>6. WrittenType /\ p \in Slots /\ state = "DO_INSTALL"
    BY <1>1, <1>5, ExecuteFacts
  <1>7. WrittenType'
    <2>1. files' \in [Slots -> SUBSET Results] /\ dirty' \in [Slots -> SUBSET Results]
      <3>1. CASE TornAborted(s)
        BY <1>5, <1>6, <3>1, TornFacts
      <3>2. CASE \E r \in SUBSET {s, Partly(s)} : Leaves(s, r)
        BY <1>5, <1>6, <3>2, LeavesFacts
      <3>3. QED
        BY <3>1, <3>2 DEF CopyingStep, Copied, Torn
    <2>2. osRoot' \in {NULL, "open", "asking"}
      BY <1>6 DEF WrittenType, CopyingStep
    <2>3. QED
      BY <1>4, <1>6, <2>1, <2>2 DEF WrittenType
  <1>8. ASSUME Done(TRUE) PROVE Upto(n)'
    <2>1. ~Done(FALSE) /\ ~Stuck("aborted") /\ ~Stuck("joining")
      BY <1>1, <1>8, ExecuteFacts DEF Done, Stuck
    <2>2. dest' = dest /\ yes' = yes /\ DestDisk' = DestDisk /\ Allowed' = Allowed
      BY <1>8 DEF Done, DestDisk, Allowed
    <2>3. Upto(step) /\ s \in yes \union Always
      BY <1>1, ExecuteFacts
    <2>4. PICK r \in {{s}, {Partly(s)}} : Leaves(s, r)
      BY <2>1 DEF CopyingStep, Copied, TornAborted
    <2>5. /\ files'[p] = (files[p] \ {s, Partly(s)}) \union r
          /\ \A t \in Copying \ {s} :
               t \in files[p] \/ Partly(t) \in files[p] => t \in files'[p] \/ Partly(t) \in files'[p]
      BY <1>5, <1>6, <2>4, LeavesFacts
    <2>6. ASSUME NEW k \in 5..12, n > k, Steps[k] \in yes \union Always
          PROVE  Steps[k] \in files'[p] \/ Partly(Steps[k]) \in files'[p]
      <3>1. CASE Steps[k] = s
        BY <2>5, <3>1
      <3>2. CASE Steps[k] # s
        <4>1. step > k
          BY <1>2, <1>3, <2>6, <3>2
        <4>2. Got(p, Steps[k])
          BY <1>5, <2>3, <2>6, <4>1 DEF Upto
        <4>3. QED
          BY <2>5, <3>2, <4>2, CopyingNamed DEF Got
      <3>3. QED
        BY <3>1, <3>2
    <2>7. "format" \in yes => files'[p] \subseteq Allowed
      <3>1. SUFFICES ASSUME "format" \in yes PROVE files'[p] \subseteq Allowed
        OBVIOUS
      <3>2. files[p] \subseteq Allowed
        BY <1>2, <1>5, <2>3, <3>1 DEF Upto
      <3>3. s \in Allowed /\ Partly(s) \in Allowed
        <4>1. s \in Always => Partly(s) = s
          BY PartlyNamed DEF Always
        <4>2. QED
          BY <2>3, <4>1 DEF Allowed
      <3>4. QED
        BY <2>5, <3>2, <3>3
    <2>8. "mbr" \in yes => code[DestDisk] = "win98" /\ active[DestDisk] = {dest.part[2]}
      BY <1>2, <2>3 DEF Upto
    <2>9. "bootSector" \in yes => boot[p] = "win98"
      BY <1>2, <1>5, <2>3 DEF Upto
    <2>10. QED
      BY <1>4, <1>5, <2>2, <2>6, <2>7, <2>8, <2>9 DEF Upto, Got
  <1>9. step > 3 => dest.part \in paths'
    BY <1>1, <1>2, <1>4, ExecuteFacts
  <1>10. step <= 5 => osRoot' # NULL
    BY <1>1, <1>2, ExecuteFacts DEF CopyingStep
  <1>11. MountsHeld' /\ OwnMounts'
    BY <1>4, <1>6, MountsKept
  <1>12. ~(step <= 3) /\ layout' = layout
    BY <1>2, <1>4
  <1>13. CASE Done(TRUE) \/ Done(FALSE)
    BY <1>1, <1>3, <1>7, <1>8, <1>9, <1>10, <1>11, <1>12, <1>13, DoneInv, Zenon
  <1>14. CASE Stuck("aborted") \/ Stuck("joining")
    BY <1>6, <1>7, <1>11, <1>12, <1>14, StuckInv
  <1>15. QED
    BY <1>13, <1>14 DEF CopyingStep, TornAborted

\* What all steps have left is an installation.
LEMMA UptoComplete ==
  ASSUME NEW p, NEW y, p = dest.part, y = yes, Upto(13)
  PROVE  Complete(p, y)
  <1>1. ASSUME NEW s \in (y \union Always) \intersect Copying
        PROVE  s \in files[p] \/ Partly(s) \in files[p]
    <2>1. PICK k \in 5..12 : Steps[k] = s
      BY StepsNamed DEF Copying
    <2>2. Got(p, s)
      BY <2>1 DEF Upto
    <2>3. QED
      BY <2>2 DEF Got
  <1>2. /\ "mbr" \in y => code[p[1]] = "win98" /\ active[p[1]] = {p[2]}
        /\ "bootSector" \in y => boot[p] = "win98"
        /\ "format" \in y => files[p] \subseteq y \union Always \union {Partly(s) : s \in y}
    BY DEF Upto, DestDisk, Allowed
  <1>3. QED
    BY <1>1, <1>2 DEF Complete

LEMMA InstallEndInv == WizardInv /\ InstallEnd => WizardInv'
  <1> SUFFICES ASSUME WizardInv, InstallEnd PROVE WizardInv'
    OBVIOUS
  <1>1. /\ state = "DO_INSTALL" /\ step = 13 /\ step' = 0 /\ box' = FALSE
        /\ UNCHANGED <<diskVars, mountVars, hda, dest, paths, osRoot, yes, error,
                       progress, shown>>
    BY StepsNamed DEF InstallEnd
  <1>2. IF error THEN state' = "REDO_FROM_START" ELSE state' = "THE_END"
    BY <1>1, Moves DEF InstallEnd
  <1>3. TypeOK'
    <2>1. 0 \in 0..(Len(Steps) + 1)
      BY StepsNamed
    <2>2. state' \in Screens
      BY <1>2, ScreensNamed
    <2>3. QED
      BY <1>1, <2>1, <2>2 DEF WizardInv, Base, TypeOK, diskVars, mountVars
  <1>4. NoDangling' /\ MountsHeld' /\ OwnMounts'
    BY <1>1, ScreensNamed DEF WizardInv, Base, NoDangling, MountsHeld, OwnMounts, mountVars
  <1>5. Base'
    BY <1>1, <1>3, <1>4, NoneShown DEF Base, Left
  <1>6. CASE error
    BY <1>1, <1>2, <1>4, <1>5, <1>6, LeaveInv
  <1>7. CASE ~error
    <2>1. Upto(13) /\ progress = Cardinality(Advanced(13))
      BY <1>1, <1>7 DEF WizardInv, Reached, Counted
    <2>2. Advanced(13)' = Advanced(13)
      BY <1>1 DEF Advanced
    <2>3. Complete(dest.part, yes)
      BY <2>1, UptoComplete
    <2>4. Complete(dest.part, yes)'
      BY <1>1, <2>3 DEF Complete, diskVars
    <2>5. DestinationUsable' /\ ChosenTaken'
      BY <1>1 DEF WizardInv, DestinationUsable, ChosenTaken, Decided, DestDisk, diskVars
    <2>6. QED
      BY <1>1, <1>2, <1>4, <1>5, <1>7, <2>1, <2>2, <2>4, <2>5
      DEF WizardInv, VariantClean, MenusClean, StepsIdle, Released, Leaving, Prepared,
          Reached, Counted
  <1>8. QED
    BY <1>6, <1>7

LEMMA StutterInv == WizardInv /\ UNCHANGED vars => WizardInv'
  <1> SUFFICES ASSUME WizardInv, UNCHANGED vars PROVE WizardInv'
    OBVIOUS
  <1> USE DEF vars, diskVars, mountVars, memoryVars
  <1>1. TypeOK' /\ NoDangling'
    BY DEF WizardInv, Base, TypeOK, NoDangling
  <1>2. (\A n : Advanced(n)' = Advanced(n)) /\ (\A n : Upto(n)' <=> Upto(n))
    BY DEF Advanced, Upto, DestDisk, Got, Allowed
  <1>3. Complete(dest.part, yes)' <=> Complete(dest.part, yes)
    BY DEF Complete
  <1>4. shown # NULL => (Complete(shown.part, shown.yes)' <=> Complete(shown.part, shown.yes))
    BY DEF Complete
  <1>5. Reached' /\ Counted' /\ Leaving'
    BY <1>2, <1>3 DEF WizardInv, Reached, Counted, Leaving
  <1>6. MountsHeld' /\ OwnMounts' /\ ShownKept'
    BY <1>4 DEF WizardInv, Base, MountsHeld, OwnMounts, ShownKept
  <1>7. DestinationUsable'
    BY DEF WizardInv, DestinationUsable, DestDisk
  <1>8. VariantClean' /\ MenusClean' /\ StepsIdle' /\ ChosenTaken' /\ Released' /\ Prepared'
    BY DEF WizardInv, VariantClean, MenusClean, StepsIdle, ChosenTaken, Released, Prepared
  <1>9. QED
    BY <1>1, <1>5, <1>6, <1>7, <1>8 DEF WizardInv, Base

LEMMA NextInv == WizardInv /\ [Next]_vars => WizardInv'
  <1> SUFFICES ASSUME WizardInv, [Next]_vars PROVE WizardInv'
    OBVIOUS
  <1>1. CASE InstallerStep
    <2>1. CASE InstallStart \/ SkipStep \/ InstallEnd
      BY <2>1, InstallStartInv, SkipStepInv, InstallEndInv
    <2>2. CASE WriteMbrSetActive \/ Format \/ WriteBootSector \/ MountPartition
      BY <2>2, WriteMbrInv, FormatInv, WriteBootSectorInv, MountPartitionInv
    <2>3. CASE \/ CopyUefi \/ CopyOSRoot
               \/ \E s \in {"registry", "cregfix", "lba64", "driversBase"} : Unpack(s)
               \/ \E s \in {"driversExtra", "extras"} : CopyFileTree(s)
      <3>1. PICK s \in Copying : CopyingStep(s)
        BY <2>3, CopyingForms DEF Copying
      <3>2. QED
        BY <3>1, CopyingStepInv
    <2>4. CASE RedoFromStart \/ ExitToShell \/ Reboot
      BY <2>4, LeavingInv
    <2>5. QED
      BY <1>1, <2>1, <2>2, <2>3, <2>4 DEF InstallerStep
  <1>2. CASE UserStep
    <2>1. CASE VariantSelect \/ MainMenu \/ Help \/ DisksUnknown \/ Configure \/ TheEnd
      BY <2>1, VariantSelectInv, MainMenuInv, DisksUnknownInv, ConfigureInv, TheEndInv
    <2>2. CASE DestinationLeave \/ DiskBack \/ DiskWipeBack
      BY <2>2, LeaveMenuInv
    <2>3. CASE \E p \in Slots, n \in 0..Cardinality(Slots) : DestinationSelect(n, p)
      BY <2>3, DestinationSelectInv
    <2>4. CASE \E d \in Disks : DiskWipe(d) \/ DiskPartition(d)
      BY <2>4, DisksInv
    <2>5. QED
      BY <1>2, <2>1, <2>2, <2>3, <2>4 DEF UserStep
  <1>3. CASE ReadAheadError \/ Restart \/ PowerCycle
    BY <1>3, ReadAheadErrorInv, RestartInv, PowerCycleInv
  <1>4. CASE \E p \in Slots : ShellMount(p)
    BY <1>4, ShellMountInv
  <1>5. CASE UNCHANGED vars
    BY <1>5, StutterInv
  <1>6. QED
    BY <1>1, <1>2, <1>3, <1>4, <1>5 DEF Next

\* Whatever the user, the disks and the power supply do.
THEOREM InvSafe == Spec => []WizardInv
  BY InitInv, NextInv, PTL DEF Spec

(***************************************************************************)
(* What the invariant says, and what no step may do.                       *)
(***************************************************************************)
\* Every variable stays within its declared range.
THEOREM TypeSafe == Spec => []TypeOK
  <1>1. WizardInv => TypeOK
    BY DEF WizardInv, Base
  <1>2. QED
    BY <1>1, InvSafe, PTL

\* The destination never points into a list of disks that was freed, however
\* often qi_refreshDisks reads the disks anew.
THEOREM DestinationLives == Spec => []NoDangling
  <1>1. WizardInv => NoDangling
    BY DEF WizardInv, Base
  <1>2. QED
    BY <1>1, InvSafe, PTL

\* What is installed to is, on the disks as they are, what the checks let
\* through.
THEOREM DestinationSafe == Spec => []DestinationUsable
  <1>1. WizardInv => DestinationUsable
    BY DEF WizardInv
  <1>2. QED
    BY <1>1, InvSafe, PTL

\* The menus always start from nothing, and with nothing mounted by the
\* installer that it has not tried to unmount.
THEOREM MenusSafe == Spec => []MenusClean
  <1>1. WizardInv => MenusClean
    BY DEF WizardInv
  <1>2. QED
    BY <1>1, InvSafe, PTL

\* No step of an installation meets a missing mount path or file, and what is
\* formatted is not mounted by the installer.
THEOREM StepsSafe == Spec => []StepsReady
  <1>1. WizardInv => StepsReady
    <2> SUFFICES ASSUME WizardInv, NEW s \in Options \union Always, Execute(s)
                 PROVE  /\ dest # NULL
                        /\ box
                        /\ s \in Copying => dest.part \in paths
                        /\ s = "baseOS" => osRoot # NULL
                        /\ s = "format" => hold[dest.part] \in {"free", "stays"}
      BY DEF StepsReady
    <2>1. dest # NULL /\ box /\ Steps[step] = s /\ step \in 1..12
          /\ (step > 4 => dest.part \in paths) /\ (step <= 6 => osRoot # NULL)
          /\ (step <= 4 => hold[dest.part] \in {"free", "stays"})
      BY ExecuteFacts
    <2>2. s \in Copying => step > 4
      <3>1. \/ step = 1 \/ step = 2 \/ step = 3 \/ step = 4 \/ step > 4
        BY <2>1
      <3>2. QED
        BY <2>1, <3>1, StepsNamed DEF Copying
    <2>3. (s = "baseOS" => step = 6) /\ (s = "format" => step = 2)
      BY RunningNamed DEF Execute
    <2>4. QED
      BY <2>1, <2>2, <2>3
  <1>2. QED
    BY <1>1, InvSafe, PTL

\* Success is only shown when the result of every step that was asked for is
\* on the disk, of the two trees possibly a part; and what was shown when the
\* installer was left outlasts the machine being switched off.
THEOREM InstalledSafe == Spec => []EndMeansInstalled
  <1>1. WizardInv => EndMeansInstalled
    <2> SUFFICES ASSUME WizardInv PROVE EndMeansInstalled
      OBVIOUS
    <2>1. state = "THE_END" => Complete(dest.part, yes)
      BY DEF WizardInv, Reached
    <2>2. shown # NULL => Complete(shown.part, shown.yes) /\ dirty[shown.part] = {}
      BY DEF WizardInv, Base, TypeOK, ShownKept
    <2>3. QED
      BY <2>1, <2>2 DEF EndMeansInstalled
  <1>2. QED
    BY <1>1, InvSafe, PTL

\* The preparation's bar is never overfull and full at the end.
THEOREM ProgressSafe == Spec => []ProgressFits
  <1>1. WizardInv => ProgressFits
    <2> SUFFICES ASSUME WizardInv PROVE ProgressFits
      OBVIOUS
    <2>1. PreparationStepCount \in Nat
      BY AdvancedEnds, AdvancedBounds
    <2>2. state = "DO_INSTALL" => progress <= PreparationStepCount
      <3>1. SUFFICES ASSUME state = "DO_INSTALL", step # 0
                     PROVE  progress <= PreparationStepCount
        BY <2>1 DEF WizardInv, Prepared
      <3>2. step \in 1..13 /\ progress \in Int
        BY <3>1, StepsNamed, PreparationNamed DEF WizardInv, Base, TypeOK
      <3>3. progress <= Cardinality(Advanced(step)) /\ Cardinality(Advanced(step)) \in Int
        BY <3>1, <3>2, AdvancedBounds DEF WizardInv, Counted
      <3>4. Cardinality(Advanced(step)) <= PreparationStepCount
        BY <2>1, <3>2, AdvancedEnds
      <3>5. QED
        BY <2>1, <3>2, <3>3, <3>4
    <2>3. state = "THE_END" => progress = PreparationStepCount
      BY AdvancedEnds DEF WizardInv, Counted
    <2>4. QED
      BY <2>2, <2>3 DEF ProgressFits
  <1>2. QED
    BY <1>1, InvSafe, PTL

\* What can happen while an installation runs.
LEMMA DuringInstall ==
  ASSUME Next, state = "DO_INSTALL"
  PROVE  \/ InstallStart \/ SkipStep \/ InstallEnd \/ ReadAheadError
         \/ PowerCycle
         \/ WriteMbrSetActive \/ Format \/ WriteBootSector \/ MountPartition
         \/ \E s \in Copying : CopyingStep(s)
  <1>1. CASE InstallerStep
    <2>1. ~(RedoFromStart \/ ExitToShell \/ Reboot)
      BY DEF RedoFromStart, ExitToShell, Reboot
    <2>2. QED
      BY <1>1, <2>1, CopyingForms DEF InstallerStep, Copying
  <1>2. ~UserStep
    BY DEF UserStep, VariantSelect, MainMenu, Help, DestinationLeave, DisksUnknown,
           DestinationSelect, Configure, DiskBack, DiskWipeBack, DiskWipe, DiskPartition,
           Repartition, TheEnd
  <1>3. ~Restart /\ ~\E p \in Slots : ShellMount(p)
    BY DEF Restart, ShellMount
  <1>4. QED
    BY <1>1, <1>2, <1>3 DEF Next

\* What the steps write lies on the destination or in its disk's first sector.
LEMMA StepsWrite ==
  ASSUME WizardInv, Next, state = "DO_INSTALL"
  PROVE  /\ layout' = layout
         /\ \A p \in Slots \ {dest.chosen} :
              boot'[p] = boot[p] /\ (files'[p] = files[p] \/ PowerCycle)
         /\ \A d \in Disks \ {dest.chosen[1]} : code'[d] = code[d] /\ active'[d] = active[d]
  <1>1. WrittenType
    BY DEF WizardInv, Base, TypeOK, WrittenType
  <1>2. dest.part = dest.chosen /\ DestDisk = dest.chosen[1]
    BY DEF WizardInv, ChosenTaken, Decided, DestDisk
  <1>3. CASE InstallStart \/ SkipStep \/ InstallEnd \/ ReadAheadError
    BY <1>3 DEF InstallStart, SkipStep, InstallEnd, ReadAheadError, diskVars
  <1>4. CASE PowerCycle
    BY <1>4 DEF PowerCycle, Start
  <1>5. CASE WriteMbrSetActive
    <2>1. /\ code' \in {code, [code EXCEPT ![DestDisk] = "win98"]}
          /\ active' \in {active, [active EXCEPT ![DestDisk] = {dest.part[2]}]}
          /\ UNCHANGED <<layout, boot, files>>
      BY <1>5, Zenon DEF WriteMbrSetActive
    <2>2. QED
      BY <1>1, <1>2, <2>1 DEF WrittenType
  <1>6. CASE Format
    <2>1. /\ boot' \in {boot, [boot EXCEPT ![dest.part] = "mkfs"],
                        [boot EXCEPT ![dest.part] = "none"]}
          /\ files' \in {files, [files EXCEPT ![dest.part] = {}]}
          /\ UNCHANGED <<layout, code, active>>
      BY <1>6, Zenon DEF Format, SetVolume
    <2>2. QED
      BY <1>1, <1>2, <2>1 DEF WrittenType
  <1>7. CASE WriteBootSector
    <2>1. /\ boot' \in {boot, [boot EXCEPT ![dest.part] = "win98"],
                        [boot EXCEPT ![dest.part] = "none"]}
          /\ UNCHANGED <<layout, code, active, files>>
      BY <1>7, Zenon DEF WriteBootSector
    <2>2. QED
      BY <1>1, <1>2, <2>1 DEF WrittenType
  <1>8. CASE MountPartition
    BY <1>8 DEF MountPartition, diskVars
  <1>9. CASE \E s \in Copying : CopyingStep(s)
    <2>1. PICK s \in Copying : CopyingStep(s)
      BY <1>9
    <2>2. UNCHANGED <<layout, code, active, boot>> /\ Execute(s)
      BY <2>1 DEF CopyingStep
    <2>3. PICK q : q = dest.part
      OBVIOUS
    <2>4. q \in Slots
      BY <2>2, <2>3, ExecuteFacts
    <2>5. \A p \in Slots \ {q} : files'[p] = files[p]
      <3>1. CASE TornAborted(s)
        BY <1>1, <2>3, <2>4, <3>1, TornFacts
      <3>2. CASE \E r \in SUBSET {s, Partly(s)} : Leaves(s, r)
        BY <1>1, <2>3, <2>4, <3>2, LeavesFacts
      <3>3. QED
        BY <2>1, <3>1, <3>2 DEF CopyingStep, Copied, Torn
    <2>6. QED
      BY <1>2, <2>2, <2>3, <2>5
  <1>10. QED
    BY <1>3, <1>4, <1>5, <1>6, <1>7, <1>8, <1>9, DuringInstall

\* After a failed step, the first one or a later one, nothing is written or
\* mounted any more; and an installation never writes to anything but what the
\* user pointed at.
THEOREM WritesSafe == Spec => InstallWrites
  <1>1. WizardInv /\ [Next]_vars =>
          [state = "DO_INSTALL" /\ error =>
             UNCHANGED <<diskVars, mountVars>> \/ PowerCycle]_vars
    <2> SUFFICES ASSUME WizardInv, Next, state = "DO_INSTALL", error
                 PROVE  UNCHANGED <<diskVars, mountVars>> \/ PowerCycle
      OBVIOUS
    <2>1. \A s : ~Execute(s)
      BY DEF Execute, Enabled
    <2>2. InstallStart \/ SkipStep \/ InstallEnd \/ ReadAheadError \/ PowerCycle
      BY <2>1, DuringInstall
      DEF WriteMbrSetActive, Format, WriteBootSector, MountPartition, CopyingStep
    <2>3. QED
      BY <2>2 DEF InstallStart, SkipStep, InstallEnd, ReadAheadError
  <1>2. WizardInv /\ [Next]_vars =>
          [state = "DO_INSTALL" =>
             /\ layout' = layout
             /\ \A p \in Slots \ {dest.chosen} :
                  /\ boot'[p] = boot[p]
                  /\ files'[p] = files[p] \/ PowerCycle
             /\ \A d \in Disks \ {dest.chosen[1]} :
                  code'[d] = code[d] /\ active'[d] = active[d]]_vars
    BY StepsWrite
  <1>3. QED
    BY <1>1, <1>2, InvSafe, PTL DEF Spec, InstallWrites, ErrorStopsInstall, OnlyChosenWritten
=============================================================================
