----------------------------- MODULE MCTreeCopy -----------------------------
(* A file and a link at the top, and a directory with a file and another   *)
(* directory, which holds an empty file; the destination is empty, or has  *)
(* older and longer files.                                                 *)
EXTENDS TreeCopy

top   == << >>
f     == <<"f">>
link  == <<"link">>
d     == <<"d">>
df    == <<"d", "f">>
de    == <<"d", "e">>
def   == <<"d", "e", "f">>

MCKind == [p \in {top, f, link, d, df, de, def} |->
             CASE p \in {top, d, de} -> "dir" [] p = link -> "link" [] OTHER -> "file"]
MCSize == [p \in {f, df, def} |-> IF p = f THEN 2 ELSE IF p = df THEN 1 ELSE 0]

Old == [p \in {top, d, f, df} |-> IF p \in {top, d} THEN Folder ELSE <<"old", "old", "old">>]
MCOldFiles == { << >>, Old }
=============================================================================
