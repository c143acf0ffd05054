----------------------------- MODULE DriverCopy -----------------------------
(***************************************************************************)
(* The driver library on the medium: drivercopy.py, which packs the files  *)
(* of each driver directory into a CAB and rewrites its INF files, and the *)
(* two functions of sysprep.py that call it and hand the result to         *)
(* mercypak.  One action is one INF file, one CAB, one file of a copy or   *)
(* one stage.  The program is started again and again in the same working  *)
(* directory, each time with some library.  It may be interrupted or stop  *)
(* with an exception anywhere, also while it deletes, copies or writes;    *)
(* what it was writing is then half a file.                                *)
(*                                                                         *)
(* Strings are read only as far as the code tells them apart: a name has a *)
(* stem, an extension, whether it is written in capitals, and the counter  *)
(* that getUniqueFilename appends.  The driver libraries are constants.    *)
(* Operators under a FAULT comment are plausible slips in the definition   *)
(* that follows them; only the mutation runs use them.                     *)
(***************************************************************************)
EXTENDS Integers, Sequences, FiniteSets, FiniteSetsExt

CONSTANTS Stems, Exts, \* of file names
          Subs,       \* source directories below a driver's; "" is the driver's
          DirOf,      \* driver directories: their INF files and other files
          Libraries,  \* bound: libraries: directories base and ndis, or no NDIS2
          Win98,      \* the files that Windows 98 brings along
          MaxRuns,    \* bound: how often sysprep is started
          NULL

Names       == [stem : Stems, ext : Exts, capitals : BOOLEAN, n : Nat]
SourceNames == {name \in Names : name.n = 0}

Infs  == [name : {name \in SourceNames : name.ext = "inf"}, valid : BOOLEAN,
          direct : Seq(SourceNames), sections : Seq(SourceNames),
          disks : Seq([name : SourceNames, sub : Subs])]
Files == [sub : Subs, name : SourceNames, form : {"plain", "packed", "broken"}]

\* What a file may hold that is packed: a source file's data, or an INF that
\* was put out, whole or in part.
Data == [dir : DOMAIN DirOf, sub : Subs, name : SourceNames]
InfsPutOut ==
  [kind : {"inf"}, run : Nat, dir : DOMAIN DirOf, inf : SourceNames, cab : Names,
   files : SUBSET SourceNames]
Parts == [kind : {"part"}, run : Nat, dir : DOMAIN DirOf]

ASSUME NamesAssumption == {"inf", "cab"} \subseteq Exts /\ "" \in Subs
ASSUME DirOfAssumption ==
  \A d \in DOMAIN DirOf :
    /\ DirOf[d] \in [infs : SUBSET Infs, files : SUBSET Files]
    /\ \A i, j \in DirOf[d].infs : i.name = j.name => i = j
ASSUME NullAssumption ==
  NULL \notin DOMAIN DirOf \union Names \union Files \union Data \union InfsPutOut \union Parts
ASSUME MaxRunsAssumption == MaxRuns \in Nat \ {0}
ASSUME LibrariesAssumption ==
  \A l \in Libraries : /\ l.base \subseteq DOMAIN DirOf
                       /\ l.ndis # NULL => l.ndis \subseteq DOMAIN DirOf /\ l.base \intersect l.ndis = {}

Name(stem, ext, capitals) ==
  [stem |-> stem, ext |-> ext, capitals |-> capitals, n |-> 0]

Lower(name) == [name EXCEPT !.capitals = FALSE]

VARIABLES
  run,       \* how often sysprep has been started
  library,   \* the driver library of this run
  phase,     \* "idle", "base", "copy", "ndis", "final", "failed"
  todo,      \* directories that driverCopy has not entered yet
  dir,       \* the directory that handleDir is in, or NULL
  infs,      \* its INF files that are still to come
  cab,       \* outCab, or NULL while infCount = 0
  list,      \* filesInThisDir
  int,       \* .driver_int: contents by file name
  ndis2,     \* .driver_int_ndis2, or NULL if it does not exist
  toCopy,    \* files of .driver_int that are still to be copied there
  medium     \* what the last DRIVER.866 was packed from

vars == <<run, library, phase, todo, dir, infs, cab, list, int, ndis2, toCopy, medium>>

Empty == [name \in {} |-> NULL]

(***************************************************************************)
(* Source files.                                                           *)
(***************************************************************************)
FilesAt(d, sub, name, forms) ==
  {f \in DirOf[d].files : f.sub = sub /\ f.name = Lower(name) /\ f.form \in forms}

\* The file of that name and form in a subdirectory of d, or else in d.
Found(d, sub, name, forms) ==
  LET there == FilesAt(d, sub, name, forms)
      here  == FilesAt(d, "", name, forms)
  IN IF there # {} THEN CHOOSE f \in there : TRUE
     ELSE IF here # {} THEN CHOOSE f \in here : TRUE
     ELSE NULL

\* A file that is there uncompressed comes first; one that cannot be
\* decompressed counts as none.
Read(d, sub, name) ==
  LET plain  == Found(d, sub, name, {"plain"})
      packed == Found(d, sub, name, {"packed", "broken"})
  IN CASE plain # NULL -> [dir |-> d, sub |-> plain.sub, name |-> plain.name]
       [] plain = NULL /\ packed # NULL /\ packed.form = "packed" ->
            [dir |-> d, sub |-> packed.sub, name |-> packed.name]
       [] OTHER -> NULL

SourceFile(d, name, sub) ==
  [name |-> name, sub |-> sub, data |-> Read(d, sub, name)]

Missing(file) == file.data = NULL /\ Lower(file.name) \notin Win98

\* A list of source files, or that an exception was raised.
NoFiles == [ok |-> TRUE, files |-> <<>>]

\* addOrUpdateSourceFile: a known file gets the new directory, but not the
\* data there; two directories for one file are an exception.
AddOrUpdate(d, sofar, name, sub) ==
  LET known == {k \in DOMAIN sofar.files : Lower(sofar.files[k].name) = Lower(name)}
      new   == SourceFile(d, name, sub)
  IN IF ~sofar.ok THEN sofar
     ELSE IF known # {}
       THEN LET k == Min(known) IN
            [ok    |-> sofar.files[k].sub \in {"", sub},
             files |-> [sofar.files EXCEPT ![k].sub = sub]]
       ELSE [ok |-> ~Missing(new), files |-> Append(sofar.files, new)]

AddAll(d, sofar, items) ==
  LET after[k \in 0..Len(items)] ==
        IF k = 0 THEN sofar
                 ELSE AddOrUpdate(d, after[k - 1], items[k].name, items[k].sub)
  IN after[Len(items)]

Item(name, sub) == [name |-> name, sub |-> sub]

\* FAULT SourceDisksFiles is not looked at.
NoOverride(disks, name) == ""

\* The directory that SourceDisksFiles gives for a file.
Override(disks, name) ==
  LET hits == {k \in DOMAIN disks : Lower(disks[k].name) = Lower(name) /\ disks[k].sub # ""}
  IN IF hits = {} THEN "" ELSE disks[Min(hits)].sub

\* Files that CopyFiles names itself.
DirectFiles(inf) == [k \in DOMAIN inf.direct |-> Item(inf.direct[k], "")]

\* Files of the sections that CopyFiles names.
SectionFiles(inf) ==
  [k \in DOMAIN inf.sections |->
     Item(inf.sections[k], Override(inf.disks, inf.sections[k]))]

\* Entries of SourceDisksFiles that no CopyFiles section mentions.
InSections(inf, item) == \E k \in DOMAIN inf.sections : Lower(inf.sections[k]) = Lower(item.name)

LeftToProcess(inf) ==
  LET left[k \in 0..Len(inf.disks)] ==
        IF k = 0 THEN <<>>
        ELSE IF InSections(inf, inf.disks[k]) THEN left[k - 1]
        ELSE Append(left[k - 1], inf.disks[k])
  IN left[Len(inf.disks)]

\* All files an INF refers to, in the order the code meets them.
KnownFiles(d, inf) ==
  AddAll(d, NoFiles, DirectFiles(inf) \o SectionFiles(inf) \o LeftToProcess(inf))

(***************************************************************************)
(* Output.                                                                 *)
(***************************************************************************)
\* FAULT a name that is taken is used again.
SameName(out, name) == name

\* getUniqueFilename: the name, with the first counter that is free.
UniqueFilename(out, name) ==
  LET Numbered(k) == [name EXCEPT !.n = k] IN
  Numbered(Min({k \in 0..Cardinality(DOMAIN out) : Numbered(k) \notin DOMAIN out}))

Inf(d, inf, cabName, files) ==
  [kind |-> "inf", run |-> run, dir |-> d, inf |-> inf.name, cab |-> cabName,
   files |-> {Lower(files[k].name) : k \in DOMAIN files}]

\* A source file without data is not packed.
Cab(d, files) ==
  [kind |-> "cab", run |-> run, dir |-> d,
   files |-> [name \in {Lower(files[k].name) : k \in {j \in DOMAIN files : files[j].data # NULL}} |->
                files[CHOOSE k \in DOMAIN files : Lower(files[k].name) = name].data]]

\* A directory with one file more or changed.
Put(out, name, content) ==
  [x \in DOMAIN out \union {name} |-> IF x = name THEN content ELSE out[x]]

\* The directory that driverCopy writes to.
Out == IF phase = "base" THEN int ELSE ndis2

SetOut(out) == IF phase = "base" THEN int' = out /\ UNCHANGED ndis2
                                 ELSE ndis2' = out /\ UNCHANGED int

(***************************************************************************)
(* Stages of a run.                                                        *)
(***************************************************************************)
Running == phase \in {"base", "ndis"}

LeaveDir == dir' = NULL /\ infs' = {} /\ cab' = NULL /\ list' = NoFiles

\* sysprep.py starts with some library; driverCopy deletes .driver_int, and
\* may be interrupted over it.
Start(l) ==
  /\ phase \in {"idle", "failed"}
  /\ run < MaxRuns
  /\ run' = run + 1
  /\ library' = l
  /\ \/ phase' = "base" /\ int' = Empty
     \/ phase' = "failed" /\ \E rest \in SUBSET DOMAIN int : int' = [x \in rest |-> int[x]]
  /\ todo' = l.base /\ toCopy' = {}
  /\ LeaveDir
  /\ UNCHANGED <<ndis2, medium>>

EnterDir(d) ==
  /\ Running /\ dir = NULL
  /\ d \in todo
  /\ todo' = todo \ {d}
  /\ dir' = d
  /\ infs' = DirOf[d].infs
  /\ UNCHANGED <<run, library, phase, cab, list, int, ndis2, toCopy, medium>>

\* FAULT each INF gets a CAB name of its own.
CabOfItsOwn(inf) == UniqueFilename(Out, [inf.name EXCEPT !.ext = "cab"])

\* The first INF of the directory decides the name of the CAB.
OutCab(inf) ==
  IF cab # NULL THEN cab ELSE UniqueFilename(Out, [inf.name EXCEPT !.ext = "cab"])

\* handleInf.  An INF without Version section is skipped after the name of
\* the CAB has been chosen; an exception over an INF's own files comes before
\* the INF is saved, one over those of the directory after it.
HandleInf(inf) ==
  /\ Running /\ dir # NULL
  /\ inf \in infs
  /\ infs' = infs \ {inf}
  /\ LET outInf == UniqueFilename(Out, inf.name)
         outCab == OutCab(inf)
         known  == KnownFiles(dir, inf)
         merged == AddAll(dir, list, [k \in DOMAIN known.files |->
                                        Item(known.files[k].name, known.files[k].sub)])
     IN /\ cab' = outCab
        /\ IF ~inf.valid
             THEN UNCHANGED <<phase, list, int, ndis2>>
           ELSE IF ~known.ok
             THEN phase' = "failed" /\ UNCHANGED <<list, int, ndis2>>
             ELSE /\ SetOut(Put(Out, outInf, Inf(dir, inf, outCab, known.files)))
                  /\ list' = merged
                  /\ phase' = IF merged.ok THEN phase ELSE "failed"
  /\ UNCHANGED <<run, library, todo, dir, toCopy, medium>>

\* Listed files that are INF files of this directory and have a namesake in
\* the output directory: each gets the data of one of its namesakes.
Namesakes(name) == {x \in DOMAIN Out : Lower(x) = name}

Refreshed ==
  {name \in {Lower(inf.name) : inf \in DirOf[dir].infs} : Namesakes(name) # {}}

\* The end of handleDir: the CAB, if there was any INF.  A namesake that an
\* earlier run has written in part may be empty, and is not packed then.
WriteCab ==
  /\ Running /\ dir # NULL
  /\ infs = {}
  /\ IF cab = NULL
       THEN UNCHANGED <<int, ndis2>>
       ELSE \E source \in [Refreshed -> DOMAIN Out], empty \in SUBSET Refreshed :
              /\ \A name \in Refreshed : source[name] \in Namesakes(name)
              /\ \A name \in empty : Out[source[name]].kind = "part"
              /\ LET New(file) == CASE Lower(file.name) \in empty -> NULL
                                    [] Lower(file.name) \in Refreshed \ empty ->
                                         Out[source[Lower(file.name)]]
                                    [] OTHER -> file.data
                     files == [k \in DOMAIN list.files |->
                                 [list.files[k] EXCEPT !.data = New(list.files[k])]]
                 IN SetOut(Put(Out, cab, Cab(dir, files)))
  /\ LeaveDir
  /\ UNCHANGED <<run, library, phase, todo, toCopy, medium>>

\* If there is an NDIS2 directory, empty or not, its drivers are added to a
\* copy of the others; the copy goes on top of what is in its directory.
PreprocessNdis ==
  /\ phase = "base" /\ todo = {} /\ dir = NULL
  /\ IF library.ndis = NULL
       THEN phase' = "final" /\ UNCHANGED <<ndis2, toCopy>>
       ELSE /\ phase' = "copy"
            /\ ndis2' = IF ndis2 = NULL THEN Empty ELSE ndis2
            /\ toCopy' = DOMAIN int
  /\ UNCHANGED <<run, library, todo, dir, infs, cab, list, int, medium>>

\* copytree, one file after the other in the order of the directory.
CopyFile(name) ==
  /\ phase = "copy" /\ name \in toCopy
  /\ ndis2' = Put(ndis2, name, int[name])
  /\ toCopy' = toCopy \ {name}
  /\ UNCHANGED <<run, library, phase, todo, dir, infs, cab, list, int, medium>>

CopyDone ==
  /\ phase = "copy" /\ toCopy = {}
  /\ phase' = "ndis" /\ todo' = library.ndis
  /\ UNCHANGED <<run, library, dir, infs, cab, list, int, ndis2, toCopy, medium>>

NdisDone ==
  /\ phase = "ndis" /\ todo = {} /\ dir = NULL
  /\ phase' = "final"
  /\ UNCHANGED <<run, library, todo, dir, infs, cab, list, int, ndis2, toCopy, medium>>

\* FAULT drivers for NDIS2 on Windows Me as well.
ForAnySystem(isMe) == IF ndis2 # NULL THEN ndis2 ELSE int

\* finalize_drivers_for_osroot chooses the directory by what exists.
InputDirectory(isMe) == IF ~isMe /\ ndis2 # NULL THEN ndis2 ELSE int

\* One of the systems that go onto the medium; another one may follow.
Finalize(isMe) ==
  /\ phase = "final"
  /\ medium' = [isMe |-> isMe, files |-> InputDirectory(isMe)]
  /\ phase' \in {"final", "idle"}
  /\ UNCHANGED <<run, library, todo, dir, infs, cab, list, int, ndis2, toCopy>>

\* The file that may be being written now: an INF, or the CAB.
BeingWritten ==
  CASE Running /\ dir # NULL /\ infs # {} ->
         {UniqueFilename(Out, inf.name) : inf \in {i \in infs : i.valid /\ KnownFiles(dir, i).ok}}
    [] Running /\ dir # NULL /\ infs = {} /\ cab # NULL -> {cab}
    [] OTHER -> {}

\* A file of driver directory d that is written only in part.
Part(d) == [kind |-> "part", run |-> run, dir |-> d]

\* copytree goes on after an error and raises it at the end, so that any of
\* the files that are left may be there in part.
HalfCopied(names) ==
  [x \in DOMAIN ndis2 \union names |-> IF x \in names THEN Part(int[x].dir) ELSE ndis2[x]]

\* The user stops the script, or a file cannot be read or written.
Interrupt ==
  /\ phase \in {"base", "copy", "ndis", "final"}
  /\ phase' = "failed"
  /\ \/ UNCHANGED <<int, ndis2>>
     \/ \E name \in BeingWritten : SetOut(Put(Out, name, Part(dir)))
     \/ /\ phase = "copy"
        /\ \E names \in SUBSET toCopy : ndis2' = HalfCopied(names)
        /\ UNCHANGED int
  /\ UNCHANGED <<run, library, todo, dir, infs, cab, list, toCopy, medium>>

Init ==
  /\ run = 0
  /\ library = [base |-> {}, ndis |-> NULL]
  /\ phase = "idle"
  /\ todo = {} /\ dir = NULL /\ infs = {} /\ cab = NULL /\ list = NoFiles
  /\ int = Empty /\ ndis2 = NULL /\ toCopy = {}
  /\ medium = NULL

Next ==
  \/ \E l \in Libraries : Start(l)
  \/ \E d \in DOMAIN DirOf : EnterDir(d)
  \/ \E inf \in infs : HandleInf(inf)
  \/ WriteCab
  \/ PreprocessNdis \/ CopyDone \/ NdisDone
  \/ \E name \in toCopy : CopyFile(name)
  \/ \E isMe \in BOOLEAN : Finalize(isMe)
  \/ Interrupt

Spec == Init /\ [][Next]_vars

(***************************************************************************)
(* Properties.                                                             *)
(***************************************************************************)
\* The output directories that exist.
Outputs == {int} \union (IF ndis2 = NULL THEN {} ELSE {ndis2})

\* Names, in lower case, of the files that are there only in part.
Broken(out) == {Lower(name) : name \in {x \in DOMAIN out : out[x].kind = "part"}}

\* Once a directory is done, each of its INF files, under whatever name, is
\* accompanied by the CAB it refers to, made from the same directory, with
\* every file it lists that Windows does not bring along itself and for which
\* no broken file of that name lies in its place.  In the copy for NDIS2 the
\* CAB may still be to come, or not to come any more if the run broke off in
\* the copy; where a run gets to its end, toCopy is empty.
FilesPacked ==
  \A out \in Outputs : \A name \in DOMAIN out :
    LET inf == out[name] IN
    inf.kind = "inf" /\ inf.run = run /\ inf.dir # dir /\ ~(out = ndis2 /\ inf.cab \in toCopy) =>
      /\ inf.cab \in DOMAIN out
      /\ out[inf.cab].run = run /\ out[inf.cab].dir = inf.dir
      /\ inf.files \subseteq DOMAIN out[inf.cab].files \union Win98 \union Broken(out)

\* Files that an INF refers to, in whichever of the three ways.
Mentioned(inf) ==
  {Lower(inf.direct[k]) : k \in DOMAIN inf.direct}
    \union {Lower(inf.sections[k]) : k \in DOMAIN inf.sections}
    \union {Lower(inf.disks[k].name) : k \in DOMAIN inf.disks}

\* An INF that is put out lists every file that the original refers to.
FilesListed ==
  \A out \in Outputs : \A name \in DOMAIN out :
    out[name].kind = "inf" =>
      \A inf \in DirOf[out[name].dir].infs :
        inf.name = out[name].inf => out[name].files = Mentioned(inf)

\* Both: the original's files are listed and the listed ones are packed.
FilesComplete == FilesPacked /\ FilesListed

\* A packed file that is not an INF comes from the driver's own directory,
\* and from the subdirectory that one of the INF files that mention it gives
\* for it first, unless it does not exist there uncompressed.
PackedAsDesignated ==
  \A out \in Outputs : \A name \in DOMAIN out :
    out[name].kind = "cab" =>
      \A file \in {x \in DOMAIN out[name].files : x.ext # "inf"} :
        LET data == out[name].files[file] IN
        /\ data.dir = out[name].dir /\ data.name = file
        /\ \E inf \in DirOf[data.dir].infs :
             LET given == {k \in DOMAIN inf.disks : Lower(inf.disks[k].name) = file /\ inf.disks[k].sub # ""}
                 sub   == IF given = {} THEN "" ELSE inf.disks[Min(given)].sub
             IN  /\ file \in Mentioned(inf)
                 /\ data.sub = sub \/ ~\E f \in DirOf[data.dir].files :
                                        f.sub = sub /\ f.name = file /\ f.form = "plain"

\* No run overwrites or loses what it has already put out itself.
NothingOverwritten ==
  [][run' = run =>
       /\ \A name \in DOMAIN int : name \in DOMAIN int' /\ int'[name] = int[name]
       /\ ndis2 # NULL =>
            \A name \in DOMAIN ndis2 :
              ndis2[name].run = run => name \in DOMAIN ndis2' /\ ndis2'[name] = ndis2[name]]_vars

\* Windows Me gets no NDIS2 drivers, and nothing but this run's drivers.
MeGetsBase ==
  [][medium' # medium /\ medium'.isMe =>
       \A name \in DOMAIN medium'.files :
         medium'.files[name].dir \in library.base /\ medium'.files[name].run = run]_vars

\* The INF that a CAB contains is the one that was put out for its directory.
PackedInfIsOwn ==
  \A out \in Outputs : \A name \in DOMAIN out :
    out[name].kind = "cab" =>
      \A file \in DOMAIN out[name].files : out[name].files[file].dir = out[name].dir
=============================================================================
