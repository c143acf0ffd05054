------------------------------ MODULE TreeCopy ------------------------------
(***************************************************************************)
(* qi_copyFileTree of install.c with the file functions of util.c: copying *)
(* a directory of the medium to the destination, file by file, with a     *)
(* progress bar whose maximum was counted before.                          *)
(*                                                                         *)
(* The recursive function is a stack of calls, each with the entries that  *)
(* readdir has not returned yet.  A file is a sequence of blocks.  Each    *)
(* call of the system may fail.  The code looks at some of these failures, *)
(* and takes others for the end of a directory or of a file.               *)
(* Operators under a FAULT comment are plausible slips in the definition   *)
(* that follows them; only the mutation runs use them.                     *)
(***************************************************************************)
EXTENDS Naturals, Sequences, FiniteSets

CONSTANTS
  Kind,      \* the source: path -> "dir", "file" or "link"; << >> is its top
  Size,      \* blocks of each file
  OldFiles,  \* bound: what may be at the destination already
  MaxFaults  \* bound: calls that fail

Paths == DOMAIN Kind
Files == {p \in Paths : Kind[p] = "file"}
Dirs == {p \in Paths : Kind[p] = "dir"}

ASSUME SizeAssumption   == Size \in [Files -> Nat]
ASSUME FaultsAssumption == MaxFaults \in Nat

Absent   == <<"absent">>
Folder   == <<"folder">>
NoFile   == <<"no file">>
New(n)   == [i \in 1..n |-> "new"]
Whole(f) == New(Size[f])

Entries(d) == {p \in Paths : Len(p) = Len(d) + 1 /\ SubSeq(p, 1, Len(d)) = d}
Parent(p) == SubSeq(p, 1, Len(p) - 1)
Above(p) == {SubSeq(p, 1, n) : n \in 0..(Len(p) - 1)}

Names == UNION {{p[i] : i \in DOMAIN p} : p \in Paths}

ASSUME PathsAssumption == IsFiniteSet(Paths) /\ Paths \subseteq Seq(Names) /\ NoFile \notin Paths
ASSUME KindAssumption ==
  /\ << >> \in Paths /\ Kind[<< >>] = "dir"
  /\ \A p \in Paths : Kind[p] \in {"dir", "file", "link"} /\ Above(p) \subseteq Dirs

VARIABLES
  target,  \* what is at the destination, for each path
  calls,   \* the calls of qi_copyAllFilesInDirectoryRecursive
  file,    \* the file that is being copied, or NoFile
  how,     \* "sendfile", or "fallback" to reading and writing
  opened,  \* both files are open
  offset,  \* blocks copied of it
  max,     \* maximum of the progress bar
  count,   \* fileCount
  result,  \* "none" before, "running", and then "ok", "failed" or "hangs"
  faults,  \* calls that failed
  unread,  \* a call failed when files were counted
  hit,     \* the directories that were read or filled with a failure
  passed,  \* entries that were passed over: readdir or lstat failed
  copied,  \* the files for which util_fileCopy returned true
  cut      \* those of them of which the source gave too little

fileVars == << file, how, opened, offset >>
ghosts   == << unread, hit, passed, copied, cut >>
vars == << target, calls, fileVars, max, count, result, faults, ghosts >>

Init ==
  /\ \E old \in OldFiles :
       target = [p \in Paths |-> IF p \in DOMAIN old THEN old[p] ELSE Absent]
  /\ calls = << >> /\ file = NoFile /\ how = "sendfile" /\ opened = FALSE /\ offset = 0
  /\ max = 0 /\ count = 0 /\ result = "none" /\ faults = 0
  /\ unread = FALSE /\ hit = {} /\ passed = {} /\ copied = {} /\ cut = {}

Works == UNCHANGED faults
Fails == faults < MaxFaults /\ faults' = faults + 1

(***************************************************************************)
(* util_getFileCountRecursive (318-342): links are neither files nor       *)
(* directories.  It has no failures of its own: it counts nothing for an   *)
(* entry whose lstat, or a directory whose opendir, fails (`missed`), and  *)
(* nothing of what a failing readdir would still have returned (`rest`).   *)
(***************************************************************************)
\* FAULT: subdirectories are not looked into.
CountedTop(unseen) == {f \in Files : Len(f) = 1 /\ ({f} \union Above(f)) \intersect unseen = {}}
Counted(unseen) == {f \in Files : ({f} \union Above(f)) \intersect unseen = {}}

Start ==
  /\ result = "none" /\ result' = "running"
  /\ \E missed \in SUBSET Paths, torn \in SUBSET Dirs :
       /\ \E rest \in SUBSET UNION {Entries(d) : d \in torn} :
            max' = Cardinality(Counted(missed \union rest))
       /\ unread' = (missed \union torn # {})
       /\ faults' = faults + Cardinality(missed) + Cardinality(torn) /\ faults' <= MaxFaults
  /\ UNCHANGED << target, calls, fileVars, count, hit, passed, copied, cut >>

(***************************************************************************)
(* The call for directory d on top of the calls under it.  It returns at   *)
(* once if opendir fails.  util_mkDir makes a missing directory and sets   *)
(* its attributes; if one of the two fails, no entry is read.              *)
(***************************************************************************)
CallWith(d, ok, under) == calls' = Append(under, [dir |-> d, left |-> Entries(d), ok |-> ok])

Call(d, under) ==
  \/ /\ Works /\ CallWith(d, TRUE, under)
     /\ target' = [target EXCEPT ![d] = Folder] /\ UNCHANGED hit
  \/ /\ Fails /\ hit' = hit \union {d}
     /\ \/ /\ target[d] = Absent /\ CallWith(d, FALSE, under)
           /\ target' \in {target, [target EXCEPT ![d] = Folder]}
        \/ calls' = under /\ UNCHANGED target

CallTop ==
  /\ result = "running" /\ calls = << >>
  /\ Call(<< >>, << >>)
  /\ result' = IF calls' = << >> THEN "failed" ELSE result
  /\ UNCHANGED << fileVars, max, count, unread, passed, copied, cut >>

(***************************************************************************)
(* The loop over the entries of the last call's directory.                 *)
(***************************************************************************)
Current == calls[Len(calls)]
Reads   == calls # << >> /\ file = NoFile

Without(e) == [calls EXCEPT ![Len(calls)].left = @ \ {e}]

EntryFile ==
  /\ Reads /\ Current.ok
  /\ \E e \in Current.left \intersect Files : file' = e /\ calls' = Without(e)
  /\ how' = "sendfile" /\ opened' = FALSE /\ offset' = 0
  /\ UNCHANGED << target, max, count, result, faults, ghosts >>

\* The result of the inner call is dropped (253).
EntryDir ==
  /\ Reads /\ Current.ok
  /\ \E e \in Current.left \intersect Dirs : Call(e, Without(e))
  /\ UNCHANGED << fileVars, max, count, result, unread, passed, copied, cut >>

EntryLink ==
  /\ Reads /\ Current.ok
  /\ \E e \in Current.left \ (Files \union Dirs) : calls' = Without(e)
  /\ UNCHANGED << target, fileVars, max, count, result, faults, ghosts >>

\* An entry whose lstat fails is neither a file nor a directory, and skipped.
EntryPassed ==
  /\ Reads /\ Current.ok /\ Fails
  /\ \E e \in Current.left \intersect (Files \union Dirs) :
       calls' = Without(e) /\ passed' = passed \union {e}
  /\ UNCHANGED << target, fileVars, max, count, result, unread, hit, copied, cut >>

\* A failing readdir is taken for the end of the directory.
ReadFails ==
  /\ Reads /\ Current.ok /\ Current.left # {} /\ Fails
  /\ calls' = [calls EXCEPT ![Len(calls)].left = {}] /\ passed' = passed \union Current.left
  /\ UNCHANGED << target, fileVars, max, count, result, unread, hit, copied, cut >>

Return ==
  /\ Reads /\ (~Current.ok \/ Current.left = {})
  /\ calls' = SubSeq(calls, 1, Len(calls) - 1)
  /\ result' = IF Len(calls) > 1 THEN result ELSE IF Current.ok THEN "ok" ELSE "failed"
  /\ UNCHANGED << target, fileVars, max, count, faults, ghosts >>

(***************************************************************************)
(* util_fileCopy, and util_fileCopyReadWrite if it fails.  Both open the   *)
(* destination with O_TRUNC, whether the source can be opened or not.      *)
(***************************************************************************)

\* FAULT: the fallback opens the destination without O_TRUNC.
TruncatedOnce == IF how = "sendfile" \/ target[file] = Absent THEN << >> ELSE target[file]
Truncated == << >>

\* What is at the destination after n blocks more.
Written(n) ==
  LET old == target[file]
      len == IF offset + n > Len(old) THEN offset + n ELSE Len(old)
  IN  [i \in 1..len |-> IF i \in (offset + 1)..(offset + n) THEN "new" ELSE IF i <= Len(old) THEN old[i] ELSE "hole"]

\* FAULT: the loop goes on after a file that was not copied.
DoneAnyway(ok) ==
  /\ file' = NoFile /\ offset' = 0 /\ opened' = FALSE /\ how' = "sendfile"
  /\ count' = count + 1
  /\ copied' = (IF ok THEN copied \union {file} ELSE copied) /\ UNCHANGED calls
  /\ hit' = IF ok THEN hit ELSE hit \union {Parent(file)}
Done(ok) ==
  /\ file' = NoFile /\ offset' = 0 /\ opened' = FALSE /\ how' = "sendfile"
  /\ count' = count + 1
  /\ calls' = [calls EXCEPT ![Len(calls)].ok = ok]
  /\ copied' = IF ok THEN copied \union {file} ELSE copied
  /\ hit' = IF ok THEN hit ELSE hit \union {Parent(file)}

GiveUp ==
  /\ IF how = "fallback" THEN Done(FALSE)
     ELSE /\ how' = "fallback" /\ opened' = FALSE /\ offset' = 0
          /\ UNCHANGED << calls, file, count, copied, hit >>
  /\ UNCHANGED cut

\* The source has nothing more to give, and that is taken for its end.
TakeAsWhole == Fails /\ Done(TRUE) /\ cut' = cut \union {file}

Copies == file # NoFile /\ result = "running"

\* If lseek fails, the size is taken for 0 (348).
Open ==
  /\ Copies /\ ~opened
  /\ \/ /\ Works /\ target' = [target EXCEPT ![file] = Truncated] /\ opened' = TRUE
        /\ UNCHANGED << calls, file, how, offset, count, copied, hit, cut >>
     \/ /\ Fails /\ target' \in {target, [target EXCEPT ![file] = Truncated]}
        /\ GiveUp
     \/ /\ target' = [target EXCEPT ![file] = Truncated] /\ TakeAsWhole
  /\ UNCHANGED << max, result, unread, passed >>

\* sendfile may send less than is left, and so may write.
Transfer ==
  /\ Copies /\ opened /\ offset < Size[file]
  /\ \/ \E n \in 1..(Size[file] - offset) :
          /\ Works /\ target' = [target EXCEPT ![file] = Written(n)] /\ offset' = offset + n
          /\ UNCHANGED << calls, file, how, opened, count, copied, hit, cut >>
     \/ \E n \in 0..(Size[file] - offset - 1) :
          /\ Fails /\ target' = [target EXCEPT ![file] = Written(n)] /\ GiveUp
  /\ UNCHANGED << max, result, unread, passed >>

\* A source that ends before its size: the fallback leaves its loop (385), and
\* util_fileCopy calls sendfile again for ever (403).
EndsEarly ==
  /\ Copies /\ opened /\ offset < Size[file]
  /\ \/ how = "fallback" /\ TakeAsWhole /\ UNCHANGED result
     \/ /\ how = "sendfile" /\ Fails /\ result' = "hangs"
        /\ UNCHANGED << calls, fileVars, count, copied, hit, cut >>
  /\ UNCHANGED << target, max, unread, passed >>

FileEnd ==
  /\ Copies /\ opened /\ offset = Size[file] /\ Done(TRUE)
  /\ UNCHANGED << target, max, result, faults, unread, passed, cut >>

Stop == result \in {"ok", "failed", "hangs"} /\ UNCHANGED vars

Next ==
  \/ Start \/ CallTop \/ EntryFile \/ EntryDir \/ EntryLink \/ EntryPassed \/ ReadFails \/ Return
  \/ Open \/ Transfer \/ EndsEarly \/ FileEnd \/ Stop

Spec == Init /\ [][Next]_vars

-----------------------------------------------------------------------------
(***************************************************************************)
(* What it promises.                                                       *)
(***************************************************************************)
\* A file that util_fileCopy reported is the source's from its first block on
\* and nothing else, even over a longer file that was there, and after sendfile
\* had given up in the middle (396-419); and it is all of it, unless the source
\* gave no size or ended early.
CopiedIsSource ==
  \A f \in copied : \E n \in 0..Size[f] : target[f] = New(n) /\ (f \notin cut => n = Size[f])

\* If the copy is reported as done, nothing that the code looks at failed in
\* the top directory; and each file is there and whole, unless its source gave
\* too little, or it or a directory above it was passed over, or something
\* failed in such a directory, whose result is dropped (253).
FailureIsLocal ==
  result = "ok" =>
    /\ << >> \notin hit
    /\ \A f \in Files : \/ target[f] = Whole(f) \/ f \in cut \union passed
                        \/ \E d \in Above(f) : d \in hit \union passed

\* The two recursions agree: unless a call failed when files were counted, the
\* bar never passes its end, and it ends full if nothing failed or was passed
\* over.
BarFits ==
  ~unread => /\ count <= max
             /\ result \in {"ok", "failed"} /\ hit = {} /\ passed = {} => count = max

\* "Copy all files from sourceBase to targetBase" (install.c:225): a copy
\* that reports success has copied all files.  A source that gave too little
\* and entries that were passed over are left aside: this is about failures
\* that the code has noticed.
CopyComplete ==
  result = "ok" /\ passed = {} /\ cut = {} => \A f \in Files : target[f] = Whole(f)
=============================================================================
