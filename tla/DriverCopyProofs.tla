-------------------------- MODULE DriverCopyProofs --------------------------
(***************************************************************************)
(* Theorems about DriverCopy, for every set of driver directories and      *)
(* libraries, any number of starts and interruptions.                      *)
(***************************************************************************)
EXTENDS DriverCopy, FiniteSetTheorems, SequenceTheorems, WellFoundedInduction, TLAPS

(***************************************************************************)
(* Induction on the naturals, and functions defined by recursion.          *)
(***************************************************************************)
\* A set of naturals has a least element.
LEMMA LeastNat ==
  ASSUME NEW T, T \subseteq Nat, T # {}
  PROVE  \E x \in T : \A y \in T : x <= y
  <1> DEFINE R == OpToRel(<, Nat)
  <1>1. IsWellFoundedOn(R, Nat)
    BY NatLessThanWellFounded
  <1>2. \A x, y \in Nat : <<x, y>> \in R <=> x < y
    BY DEF OpToRel
  <1> HIDE DEF R
  <1>3. PICK x \in T : \A y \in T : ~ (<<y, x>> \in R)
    BY <1>1, WFMin
  <1>4. ASSUME NEW y \in T PROVE x <= y
    <2>1. x \in Nat /\ y \in Nat /\ ~(y < x)
      BY <1>2, <1>3
    <2> QED
      BY <2>1
  <1> QED
    BY <1>4

\* Induction, with a set for what is to hold.
LEMMA NatInd ==
  ASSUME NEW T, 0 \in T, \A n \in Nat : n \in T => n + 1 \in T
  PROVE  Nat \subseteq T
  <1> SUFFICES ASSUME Nat \ T # {} PROVE FALSE
    OBVIOUS
  <1>1. PICK x \in Nat \ T : \A y \in Nat \ T : x <= y
    BY LeastNat
  <1>2. x # 0 /\ x - 1 \in Nat /\ x - 1 < x
    BY <1>1
  <1>3. x - 1 \in T
    BY <1>1, <1>2
  <1> QED
    BY <1>2, <1>3

\* The same up to a bound.
LEMMA UpToInd ==
  ASSUME NEW N \in Nat, NEW T, 0 \in T,
         \A k \in 1..N : k - 1 \in T => k \in T
  PROVE  0..N \subseteq T
  <1> DEFINE U == {k \in Nat : k <= N => k \in T}
  <1>1. 0 \in U
    OBVIOUS
  <1>2. ASSUME NEW n \in Nat, n \in U PROVE n + 1 \in U
    <2> SUFFICES ASSUME n + 1 <= N PROVE n + 1 \in T
      OBVIOUS
    <2>1. n + 1 \in 1..N /\ (n + 1) - 1 = n /\ n \in T
      BY <1>2
    <2> QED
      BY <2>1
  <1> HIDE DEF U
  <1>3. Nat \subseteq U
    BY <1>1, <1>2, NatInd
  <1> QED
    BY <1>3 DEF U

\* g is defined up to n by recursion, from c with the function D of the value
\* before and the argument.
IsRecursive(g, n, c, D) ==
  g[0] = c /\ \A i \in 1..n : g[i] = D[<<g[i - 1], i>>]

\* Such a function exists and has the right type.
LEMMA RecursiveExists ==
  ASSUME NEW V, NEW c \in V, NEW D \in [V \X Nat -> V], NEW n \in Nat
  PROVE  \E g \in [0..n -> V] : IsRecursive(g, n, c, D)
  <1> DEFINE T == {m \in 0..n : \E g \in [0..m -> V] : IsRecursive(g, m, c, D)}
  <1>1. 0 \in T
    <2> DEFINE g == [i \in 0..0 |-> c]
    <2>1. g \in [0..0 -> V] /\ g[0] = c
      OBVIOUS
    <2> HIDE DEF g
    <2>2. \A i \in 1..0 : g[i] = D[<<g[i - 1], i>>]
      OBVIOUS
    <2>3. IsRecursive(g, 0, c, D)
      BY <2>1, <2>2 DEF IsRecursive
    <2> QED
      BY <2>1, <2>3
  <1>2. ASSUME NEW m \in 1..n, m - 1 \in T PROVE m \in T
    <2>1. PICK g \in [0..(m - 1) -> V] : IsRecursive(g, m - 1, c, D)
      BY <1>2
    <2> DEFINE k == m - 1
    <2>2. k \in Nat /\ m = k + 1 /\ m \in Nat
      OBVIOUS
    <2> HIDE DEF k
    <2>3. g \in [0..k -> V] /\ IsRecursive(g, k, c, D)
      BY <2>1 DEF k
    <2>4. g[0] = c /\ \A i \in 1..k : g[i] = D[<<g[i - 1], i>>]
      BY <2>2, <2>3 DEF IsRecursive
    <2>5. D[<<g[k], m>>] \in V
      BY <2>2, <2>3
    <2> DEFINE h == [i \in 0..m |-> IF i = m THEN D[<<g[k], m>>] ELSE g[i]]
    <2>6. h \in [0..m -> V]
      BY <2>2, <2>3, <2>5
    <2>7. h[0] = c
      BY <2>2, <2>4
    <2>8. ASSUME NEW i \in 1..m PROVE h[i] = D[<<h[i - 1], i>>]
      <3>1. h[i - 1] = g[i - 1]
        BY <2>2
      <3>2. CASE i = m
        <4>1. h[i] = D[<<g[k], m>>] /\ i - 1 = k
          BY <3>2, <2>2
        <4> QED
          BY <3>1, <3>2, <4>1
      <3>3. CASE i # m
        <4>1. i \in 1..k /\ h[i] = g[i]
          BY <3>3, <2>2
        <4>2. g[i] = D[<<g[i - 1], i>>]
          BY <4>1, <2>4
        <4> QED
          BY <4>1, <3>1, <4>2
      <3> QED
        BY <3>2, <3>3
    <2> HIDE DEF h
    <2>9. IsRecursive(h, m, c, D)
      BY <2>7, <2>8 DEF IsRecursive
    <2> QED
      BY <2>6, <2>9
  <1> HIDE DEF T
  <1>3. n \in T
    BY <1>1, <1>2, UpToInd
  <1> QED
    BY <1>3 DEF T
(***************************************************************************)
(* Names.                                                                  *)
(***************************************************************************)
LEMMA MinOf ==
  ASSUME NEW S, S \subseteq Nat, S # {}
  PROVE  Min(S) \in S /\ \A y \in S : Min(S) <= y
  <1>1. \E x \in S : \A y \in S : x <= y
    BY LeastNat
  <1>2. Min(S) = CHOOSE x \in S : \A y \in S : x <= y
    BY DEF Min
  <1> QED
    BY <1>1, <1>2

\* A function to a smaller set takes one value twice.
LEMMA Pigeons ==
  ASSUME NEW D, IsFiniteSet(D), NEW f \in [0..Cardinality(D) -> D]
  PROVE  \E x, y \in 0..Cardinality(D) : x # y /\ f[x] = f[y]
  <1>1. PICK c \in Nat : c = Cardinality(D)
    BY FS_CardinalityType
  <1>2. IsFiniteSet(0..c)
    BY <1>1, FS_Interval
  <1>3. Cardinality(0..c) = IF 0 > c THEN 0 ELSE c - 0 + 1
    BY FS_Interval
  <1>4. c < Cardinality(0..c)
    BY <1>3
  <1>5. PICK I : I = 0..c
    OBVIOUS
  <1>6. /\ IsFiniteSet(I) /\ Cardinality(D) < Cardinality(I)
        /\ f \in [I -> D]
    BY <1>1, <1>2, <1>4, <1>5
  <1>7. \E x, y \in I : x # y /\ f[x] = f[y]
    BY ONLY <1>6, IsFiniteSet(D), FS_PigeonHole
  <1> QED
    BY <1>1, <1>5, <1>7

\* A counter that is free is found, since a directory has finitely many files.
LEMMA UniqueIsFree ==
  ASSUME NEW out, IsFiniteSet(DOMAIN out), NEW name \in Names
  PROVE  /\ UniqueFilename(out, name) \in Names
         /\ UniqueFilename(out, name) \notin DOMAIN out
         /\ UniqueFilename(out, name).ext = name.ext
  <1> DEFINE N(k) == [name EXCEPT !.n = k]
             c == Cardinality(DOMAIN out)
             S == {k \in 0..c : N(k) \notin DOMAIN out}
  <1>1. c \in Nat
    BY FS_CardinalityType
  <1>2. \A k \in Nat : N(k) \in Names /\ N(k).ext = name.ext /\ N(k).n = k
    BY DEF Names
  <1>3. S # {}
    <2> SUFFICES ASSUME S = {} PROVE FALSE
      OBVIOUS
    <2> DEFINE f == [k \in 0..c |-> N(k)]
    <2>1. f \in [0..c -> DOMAIN out]
      OBVIOUS
    <2>2. \A j, k \in 0..c : f[j] = f[k] => j = k
      <3> SUFFICES ASSUME NEW j \in 0..c, NEW k \in 0..c, f[j] = f[k] PROVE j = k
        OBVIOUS
      <3>1. N(j) = N(k) /\ j \in Nat /\ k \in Nat
        OBVIOUS
      <3> QED
        BY <3>1, <1>2
    <2> HIDE DEF f
    <2>5. \E x, y \in 0..c : x # y /\ f[x] = f[y]
      BY <2>1, Pigeons
    <2> QED
      BY <2>2, <2>5
  <1>4. S \subseteq Nat
    BY <1>1
  <1>5. UniqueFilename(out, name) = N(Min(S))
    BY DEF UniqueFilename
  <1> HIDE DEF S
  <1>6. Min(S) \in S
    BY <1>3, <1>4, MinOf
  <1>7. Min(S) \in Nat /\ N(Min(S)) \notin DOMAIN out
    BY <1>6, <1>4 DEF S
  <1> HIDE DEF N
  <1> QED
    BY <1>2, <1>5, <1>7

LEMMA LowerName ==
  ASSUME NEW name \in SourceNames
  PROVE  Lower(name) \in SourceNames /\ Lower(name).ext = name.ext /\ name \in Names
  BY DEF Lower, SourceNames, Names

(***************************************************************************)
(* Source files: what is read, and how the list of them grows.             *)
(***************************************************************************)
Items       == [name : SourceNames, sub : Subs]
SourceFiles == [name : SourceNames, sub : Subs, data : Data \union {NULL}]
Lists       == [ok : BOOLEAN, files : Seq(SourceFiles)]

\* The file is not at that place, or not uncompressed.
NoPlain(d, sub, name) ==
  ~\E f \in DirOf[d].files : f.sub = sub /\ f.name = name /\ f.form = "plain"

\* What Found finds.
LEMMA FoundIs ==
  ASSUME NEW d \in DOMAIN DirOf, NEW sub \in Subs, NEW name \in SourceNames, NEW forms
  PROVE  /\ Found(d, sub, name, forms) \in Files \union {NULL}
         /\ Found(d, sub, name, forms) # NULL => Found(d, sub, name, forms).name = Lower(name)
         /\ Found(d, sub, name, forms) # NULL =>
              \/ Found(d, sub, name, forms).sub = sub
              \/ FilesAt(d, sub, name, forms) = {}
         /\ Found(d, sub, name, forms) = NULL => FilesAt(d, sub, name, forms) = {}
  <1> DEFINE there == FilesAt(d, sub, name, forms)
             here  == FilesAt(d, "", name, forms)
  <1>1. /\ there \subseteq Files /\ here \subseteq Files
        /\ \A f \in there : f.name = Lower(name) /\ f.sub = sub
        /\ \A f \in here : f.name = Lower(name)
    BY DirOfAssumption DEF FilesAt
  <1>2. NULL \notin Files
    BY NullAssumption
  <1>3. Found(d, sub, name, forms) = IF there # {} THEN CHOOSE f \in there : TRUE
                                     ELSE IF here # {} THEN CHOOSE f \in here : TRUE ELSE NULL
    BY DEF Found
  <1> HIDE DEF there, here
  <1>4. there # {} => (CHOOSE f \in there : TRUE) \in there
    OBVIOUS
  <1>5. here # {} => (CHOOSE f \in here : TRUE) \in here
    OBVIOUS
  <1> DEFINE t == CHOOSE f \in there : TRUE
             h == CHOOSE f \in here : TRUE
             r == Found(d, sub, name, forms)
  <1> HIDE DEF t, h, r
  <1>6. /\ there # {} => r = t /\ t \in there
        /\ there = {} /\ here # {} => r = h /\ h \in here
        /\ there = {} /\ here = {} => r = NULL
    BY <1>3, <1>4, <1>5 DEF t, h, r
  <1>7. /\ r \in Files \union {NULL}
        /\ r # NULL => r.name = Lower(name)
        /\ r # NULL => r.sub = sub \/ there = {}
        /\ r = NULL => there = {}
    BY <1>1, <1>2, <1>6
  <1> QED
    BY <1>7 DEF r, there

\* Where the data of a source file comes from.
LEMMA ReadIs ==
  ASSUME NEW d \in DOMAIN DirOf, NEW sub \in Subs, NEW name \in SourceNames
  PROVE  /\ Read(d, sub, name) \in Data \union {NULL}
         /\ Read(d, sub, name) # NULL =>
              /\ Read(d, sub, name).dir = d /\ Read(d, sub, name).name = Lower(name)
              /\ Read(d, sub, name).sub = sub \/ NoPlain(d, sub, Lower(name))
  <1> DEFINE r == Read(d, sub, name)
  <1>1. PICK plain : plain = Found(d, sub, name, {"plain"})
    OBVIOUS
  <1>2. PICK packed : packed = Found(d, sub, name, {"packed", "broken"})
    OBVIOUS
  <1>3. r = CASE plain # NULL -> [dir |-> d, sub |-> plain.sub, name |-> plain.name]
              [] plain = NULL /\ packed # NULL /\ packed.form = "packed" ->
                   [dir |-> d, sub |-> packed.sub, name |-> packed.name]
              [] OTHER -> NULL
    BY <1>1, <1>2 DEF Read
  <1>4. /\ plain \in Files \union {NULL} /\ packed \in Files \union {NULL}
        /\ plain # NULL => plain.name = Lower(name)
        /\ packed # NULL => packed.name = Lower(name)
    BY <1>1, <1>2, FoundIs
  <1>5. \/ plain # NULL /\ plain.sub = sub
        \/ NoPlain(d, sub, Lower(name))
    <2>1. CASE FilesAt(d, sub, name, {"plain"}) = {}
      BY <2>1 DEF FilesAt, NoPlain
    <2>2. CASE FilesAt(d, sub, name, {"plain"}) # {}
      BY <2>2, <1>1, FoundIs
    <2> QED
      BY <2>1, <2>2
  <1>6. CASE plain # NULL
    <2>1. r = [dir |-> d, sub |-> plain.sub, name |-> plain.name] /\ plain \in Files
      BY <1>3, <1>4, <1>6
    <2>2. r \in Data /\ r.dir = d /\ r.name = Lower(name) /\ r.sub = plain.sub
      BY <2>1, <1>4, <1>6 DEF Data, Files
    <2> QED
      BY <2>2, <1>5
  <1>7. CASE plain = NULL /\ packed # NULL /\ packed.form = "packed"
    <2>1. r = [dir |-> d, sub |-> packed.sub, name |-> packed.name] /\ packed \in Files
      BY <1>3, <1>4, <1>7
    <2>2. r \in Data /\ r.dir = d /\ r.name = Lower(name)
      BY <2>1, <1>4, <1>7 DEF Data, Files
    <2> QED
      BY <2>2, <1>5, <1>7
  <1>8. CASE plain = NULL /\ ~(packed # NULL /\ packed.form = "packed")
    BY <1>3, <1>8
  <1> QED
    BY <1>6, <1>7, <1>8

\* The names in a list, in lower case; no two files have the same.
NamesOf(list0) == {Lower(list0.files[k].name) : k \in DOMAIN list0.files}

Distinct(list0) ==
  \A j, k \in DOMAIN list0.files :
    Lower(list0.files[j].name) = Lower(list0.files[k].name) => j = k

NoneMissing(list0) == \A k \in DOMAIN list0.files : ~Missing(list0.files[k])

LEMMA SourceFileIs ==
  ASSUME NEW d \in DOMAIN DirOf, NEW name \in SourceNames, NEW sub \in Subs
  PROVE  /\ SourceFile(d, name, sub) \in SourceFiles
         /\ SourceFile(d, name, sub).name = name /\ SourceFile(d, name, sub).sub = sub
         /\ SourceFile(d, name, sub).data = Read(d, sub, name)
  BY ReadIs DEF SourceFile, SourceFiles

\* The two ways in which a list takes a file.
Updated(old, new, name, sub) ==
  \E j \in DOMAIN old.files :
    /\ Lower(old.files[j].name) = Lower(name)
    /\ new.files = [old.files EXCEPT ![j].sub = sub]
    /\ new.ok <=> (old.files[j].sub \in {"", sub})

Appended(d, old, new, name, sub) ==
  /\ \A j \in DOMAIN old.files : Lower(old.files[j].name) # Lower(name)
  /\ new.files = Append(old.files, SourceFile(d, name, sub))
  /\ new.ok <=> ~Missing(SourceFile(d, name, sub))

LEMMA AddIs ==
  ASSUME NEW d \in DOMAIN DirOf, NEW old \in Lists, NEW name \in SourceNames, NEW sub \in Subs, old.ok
  PROVE  \/ Updated(old, AddOrUpdate(d, old, name, sub), name, sub)
         \/ Appended(d, old, AddOrUpdate(d, old, name, sub), name, sub)
  <1> DEFINE known == {k \in DOMAIN old.files : Lower(old.files[k].name) = Lower(name)}
             new   == SourceFile(d, name, sub)
             r     == AddOrUpdate(d, old, name, sub)
  <1>0. DOMAIN old.files \subseteq Nat
    BY DEF Lists
  <1>1. CASE known # {}
    <2>1. PICK k : k = Min(known)
      OBVIOUS
    <2>2. r = [ok |-> old.files[k].sub \in {"", sub}, files |-> [old.files EXCEPT ![k].sub = sub]]
      BY <1>1, <2>1 DEF AddOrUpdate
    <2>3. k \in known
      BY <1>0, <1>1, <2>1, MinOf
    <2>4. PICK b \in BOOLEAN : b <=> (old.files[k].sub \in {"", sub})
      OBVIOUS
    <2>5. r = [ok |-> b, files |-> [old.files EXCEPT ![k].sub = sub]]
      BY <2>2, <2>4
    <2>6. r.files = [old.files EXCEPT ![k].sub = sub] /\ r.ok = b
      BY ONLY <2>5
    <2>7. r.ok <=> (old.files[k].sub \in {"", sub})
      BY <2>4, <2>6
    <2> QED
      BY <2>3, <2>6, <2>7 DEF Updated
  <1>2. CASE known = {}
    <2>1. r = [ok |-> ~Missing(new), files |-> Append(old.files, new)]
      BY <1>2 DEF AddOrUpdate
    <2>2. PICK b \in BOOLEAN : b <=> ~Missing(new)
      OBVIOUS
    <2>3. r = [ok |-> b, files |-> Append(old.files, new)]
      BY <2>1, <2>2, Zenon
    <2>4. r.files = Append(old.files, new) /\ r.ok = b
      BY ONLY <2>3
    <2>5. \A j \in DOMAIN old.files : Lower(old.files[j].name) # Lower(name)
      BY <1>2
    <2> QED
      BY <2>2, <2>4, <2>5, Zenon DEF Appended
  <1> QED
    BY <1>1, <1>2

LEMMA AddType ==
  ASSUME NEW d \in DOMAIN DirOf, NEW old \in Lists, NEW name \in SourceNames, NEW sub \in Subs
  PROVE  AddOrUpdate(d, old, name, sub) \in Lists
  <1> DEFINE known == {k \in DOMAIN old.files : Lower(old.files[k].name) = Lower(name)}
             new   == SourceFile(d, name, sub)
             r     == AddOrUpdate(d, old, name, sub)
  <1>0. old.files \in Seq(SourceFiles) /\ DOMAIN old.files \subseteq Nat
    BY DEF Lists
  <1>1. CASE ~old.ok
    BY <1>1 DEF AddOrUpdate
  <1>2. CASE old.ok /\ known # {}
    <2>1. PICK k : k = Min(known)
      OBVIOUS
    <2>2. r = [ok |-> old.files[k].sub \in {"", sub}, files |-> [old.files EXCEPT ![k].sub = sub]]
      BY <1>2, <2>1 DEF AddOrUpdate
    <2>3. k \in DOMAIN old.files
      BY <1>0, <1>2, <2>1, MinOf
    <2>4. [old.files[k] EXCEPT !.sub = sub] \in SourceFiles
      <3>1. PICK x \in SourceFiles : x = old.files[k]
        BY <1>0, <2>3
      <3>2. [x EXCEPT !.sub = sub] \in SourceFiles
        BY DEF SourceFiles
      <3> QED
        BY <3>1, <3>2
    <2>5. [old.files EXCEPT ![k].sub = sub] \in Seq(SourceFiles)
      <3>1. PICK x \in SourceFiles : x = [old.files[k] EXCEPT !.sub = sub]
        BY <2>4
      <3>2. [old.files EXCEPT ![k] = x] \in Seq(SourceFiles)
        BY <1>0, <2>3
      <3>3. [old.files EXCEPT ![k].sub = sub] = [old.files EXCEPT ![k] = x]
        BY <3>1
      <3> QED
        BY <3>2, <3>3
    <2>6. PICK fs \in Seq(SourceFiles) : fs = [old.files EXCEPT ![k].sub = sub]
      BY <2>5
    <2>7. PICK b \in BOOLEAN : b <=> (old.files[k].sub \in {"", sub})
      OBVIOUS
    <2>8. r = [ok |-> b, files |-> fs]
      BY <2>2, <2>6, <2>7
    <2> QED
      BY <2>8 DEF Lists
  <1>3. CASE old.ok /\ known = {}
    <2>1. r = [ok |-> ~Missing(new), files |-> Append(old.files, new)]
      BY <1>3 DEF AddOrUpdate
    <2>2. PICK fs \in Seq(SourceFiles) : fs = Append(old.files, new)
      <3>1. PICK x \in SourceFiles : x = new
        BY SourceFileIs
      <3>2. Append(old.files, x) \in Seq(SourceFiles)
        BY <1>0
      <3> QED
        BY <3>1, <3>2
    <2>3. PICK b \in BOOLEAN : b <=> ~Missing(new)
      OBVIOUS
    <2>4. r = [ok |-> b, files |-> fs]
      BY <2>1, <2>2, <2>3, Zenon
    <2> QED
      BY <2>4 DEF Lists
  <1> QED
    BY <1>1, <1>2, <1>3

\* What a file that is taken leaves as it was.
Kept(d, old, name, sub, new) ==
  /\ NamesOf(new) = NamesOf(old) \union {Lower(name)}
  /\ Distinct(new)
  /\ NoneMissing(old) => NoneMissing(new)
  /\ \A k \in DOMAIN new.files :
       \/ /\ k \in DOMAIN old.files
          /\ new.files[k].name = old.files[k].name /\ new.files[k].data = old.files[k].data
       \/ new.files[k].name = name /\ new.files[k].data = Read(d, sub, name)
  /\ \A k \in DOMAIN new.files :
       \/ /\ Lower(new.files[k].name) = Lower(name) /\ new.files[k].sub = sub
          /\ \A j \in DOMAIN old.files :
               Lower(old.files[j].name) = Lower(name) => old.files[j].sub \in {"", sub}
       \/ /\ Lower(new.files[k].name) # Lower(name)
          /\ k \in DOMAIN old.files /\ new.files[k] = old.files[k]

LEMMA AddKeeps ==
  ASSUME NEW d \in DOMAIN DirOf, NEW old \in Lists, NEW name \in SourceNames, NEW sub \in Subs,
         old.ok, Distinct(old), NEW new \in Lists, new.ok, new = AddOrUpdate(d, old, name, sub)
  PROVE  Kept(d, old, name, sub, new)
  <1>0. PICK n \in Nat : DOMAIN old.files = 1..n /\ n = Len(old.files) /\ \A k \in 1..n : old.files[k] \in SourceFiles
    BY DEF Lists
  <1>1. CASE Updated(old, new, name, sub)
    <2>1. PICK j \in DOMAIN old.files :
            /\ Lower(old.files[j].name) = Lower(name)
            /\ new.files = [old.files EXCEPT ![j].sub = sub]
            /\ old.files[j].sub \in {"", sub}
      BY <1>1 DEF Updated
    <2>2. DOMAIN new.files = 1..n
      BY <1>0, <2>1
    <2>3. \A k \in 1..n : k # j => new.files[k] = old.files[k]
      BY <1>0, <2>1
    <2>4. /\ new.files[j].name = old.files[j].name /\ new.files[j].data = old.files[j].data
          /\ new.files[j].sub = sub
      <3>1. new.files[j] = [old.files[j] EXCEPT !.sub = sub]
        BY <1>0, <2>1
      <3>2. PICK x \in SourceFiles : x = old.files[j]
        BY <1>0
      <3> QED
        BY <3>1, <3>2 DEF SourceFiles
    <2>5. \A k \in 1..n : new.files[k].name = old.files[k].name /\ new.files[k].data = old.files[k].data
      BY <2>3, <2>4
    <2>6. NamesOf(new) = NamesOf(old) \union {Lower(name)}
      <3>1. \A k \in 1..n : Lower(new.files[k].name) = Lower(old.files[k].name)
        BY <2>5
      <3>2. NamesOf(new) = {Lower(old.files[k].name) : k \in 1..n}
        BY <2>2, <3>1, Zenon DEF NamesOf
      <3>3. Lower(name) \in NamesOf(old)
        BY <2>1, Zenon DEF NamesOf
      <3>4. NamesOf(old) = {Lower(old.files[k].name) : k \in 1..n}
        BY <1>0 DEF NamesOf
      <3> QED
        BY <3>2, <3>3, <3>4
    <2>7. Distinct(new)
      BY <1>0, <2>2, <2>5 DEF Distinct
    <2>8. NoneMissing(old) => NoneMissing(new)
      BY <1>0, <2>2, <2>5 DEF NoneMissing, Missing
    <2>9. \A i \in DOMAIN old.files : Lower(old.files[i].name) = Lower(name) => i = j
      BY <2>1 DEF Distinct
    <2>10. ASSUME NEW k \in DOMAIN new.files
           PROVE  \/ /\ Lower(new.files[k].name) = Lower(name) /\ new.files[k].sub = sub
                     /\ \A i \in DOMAIN old.files :
                          Lower(old.files[i].name) = Lower(name) => old.files[i].sub \in {"", sub}
                  \/ /\ Lower(new.files[k].name) # Lower(name)
                     /\ k \in DOMAIN old.files /\ new.files[k] = old.files[k]
      <3>1. CASE k = j
        BY <3>1, <2>1, <2>4, <2>9
      <3>2. CASE k # j
        <4>1. k \in DOMAIN old.files /\ new.files[k] = old.files[k]
          BY <3>2, <1>0, <2>2, <2>3
        <4>2. Lower(old.files[k].name) # Lower(name)
          BY <3>2, <4>1, <2>9
        <4> QED
          BY <4>1, <4>2
      <3> QED
        BY <3>1, <3>2
    <2> QED
      BY <1>0, <2>2, <2>5, <2>6, <2>7, <2>8, <2>10 DEF Kept
  <1>2. CASE Appended(d, old, new, name, sub)
    <2>1. PICK x \in SourceFiles : x = SourceFile(d, name, sub)
      BY SourceFileIs
    <2>2. x.name = name /\ x.sub = sub /\ x.data = Read(d, sub, name) /\ ~Missing(x)
      BY <1>2, <2>1, SourceFileIs DEF Appended
    <2>3. /\ \A j \in DOMAIN old.files : Lower(old.files[j].name) # Lower(name)
          /\ new.files = Append(old.files, x)
      BY <1>2, <2>1 DEF Appended
    <2>4. old.files \in Seq(SourceFiles)
      BY DEF Lists
    <2>5. /\ DOMAIN new.files = 1..(n + 1)
          /\ \A k \in 1..n : new.files[k] = old.files[k]
          /\ new.files[n + 1] = x
      BY <1>0, <2>3, <2>4
    <2>6. \A k \in DOMAIN new.files : (k \in 1..n /\ new.files[k] = old.files[k]) \/ (k = n + 1 /\ new.files[k] = x)
      BY <1>0, <2>5
    <2>7. n + 1 \in DOMAIN new.files /\ 1..n \subseteq DOMAIN new.files
      BY <1>0, <2>5
    <2>8. NamesOf(new) = NamesOf(old) \union {Lower(name)}
      <3>1. ASSUME NEW v \in NamesOf(new) PROVE v \in NamesOf(old) \/ v = Lower(name)
        <4>1. PICK k \in DOMAIN new.files : v = Lower(new.files[k].name)
          BY <3>1 DEF NamesOf
        <4>2. (k \in DOMAIN old.files /\ new.files[k] = old.files[k]) \/ v = Lower(name)
          BY <1>0, <2>2, <2>6, <4>1
        <4> QED
          BY <4>1, <4>2 DEF NamesOf
      <3>2. ASSUME NEW v \in NamesOf(old) PROVE v \in NamesOf(new)
        <4>1. PICK k \in DOMAIN old.files : v = Lower(old.files[k].name)
          BY <3>2 DEF NamesOf
        <4>2. k \in DOMAIN new.files /\ new.files[k] = old.files[k]
          BY <1>0, <2>5, <2>7
        <4> QED
          BY <4>1, <4>2 DEF NamesOf
      <3>3. Lower(name) \in NamesOf(new)
        BY <2>2, <2>5, <2>7, Zenon DEF NamesOf
      <3> QED
        BY <3>1, <3>2, <3>3
    <2>9. Distinct(new)
      <3> SUFFICES ASSUME NEW j \in DOMAIN new.files, NEW k \in DOMAIN new.files,
                          Lower(new.files[j].name) = Lower(new.files[k].name)
                   PROVE  j = k
        BY DEF Distinct
      <3> QED
        BY <1>0, <2>2, <2>3, <2>6 DEF Distinct
    <2>10. NoneMissing(old) => NoneMissing(new)
      BY <1>0, <2>2, <2>6 DEF NoneMissing
    <2>11. ASSUME NEW k \in DOMAIN new.files
           PROVE  \/ /\ Lower(new.files[k].name) = Lower(name) /\ new.files[k].sub = sub
                     /\ \A i \in DOMAIN old.files :
                          Lower(old.files[i].name) = Lower(name) => old.files[i].sub \in {"", sub}
                  \/ /\ Lower(new.files[k].name) # Lower(name)
                     /\ k \in DOMAIN old.files /\ new.files[k] = old.files[k]
      BY <1>0, <2>2, <2>3, <2>6
    <2> QED
      BY <1>0, <2>2, <2>6, <2>8, <2>9, <2>10, <2>11 DEF Kept
  <1> QED
    BY <1>1, <1>2, AddIs

AddedAfter(d, sofar, items) ==
  LET after[k \in 0..Len(items)] ==
        IF k = 0 THEN sofar
                 ELSE AddOrUpdate(d, after[k - 1], items[k].name, items[k].sub)
  IN after

\* AddAll is a function of how many items have been added.
LEMMA AddAllSteps ==
  ASSUME NEW d \in DOMAIN DirOf, NEW sofar \in Lists, NEW items \in Seq(Items)
  PROVE  \E f \in [0..Len(items) -> Lists] :
           /\ f[0] = sofar
           /\ \A k \in 1..Len(items) : f[k] = AddOrUpdate(d, f[k - 1], items[k].name, items[k].sub)
           /\ AddAll(d, sofar, items) = f[Len(items)]
  <1> DEFINE N == Len(items)
             D == [p \in Lists \X Nat |->
                     IF p[2] \in 1..N THEN AddOrUpdate(d, p[1], items[p[2]].name, items[p[2]].sub) ELSE sofar]
  <1>1. N \in Nat /\ \A i \in 1..N : items[i] \in Items
    OBVIOUS
  <1> HIDE DEF N
  <1>2. \A i \in 1..N : items[i].name \in SourceNames /\ items[i].sub \in Subs
    BY <1>1 DEF Items
  <1>3. D \in [Lists \X Nat -> Lists]
    <2> SUFFICES ASSUME NEW p \in Lists \X Nat
                 PROVE  (IF p[2] \in 1..N THEN AddOrUpdate(d, p[1], items[p[2]].name, items[p[2]].sub) ELSE sofar) \in Lists
      OBVIOUS
    <2>1. p[1] \in Lists
      OBVIOUS
    <2>2. CASE p[2] \in 1..N
      BY <2>1, <2>2, <1>2, AddType
    <2>3. CASE p[2] \notin 1..N
      BY <2>3
    <2> QED
      BY <2>2, <2>3
  <1>4. \A x \in Lists : \A i \in 1..N : D[<<x, i>>] = AddOrUpdate(d, x, items[i].name, items[i].sub)
    BY <1>1
  <1> HIDE DEF D
  <1>5. PICK g \in [0..N -> Lists] : IsRecursive(g, N, sofar, D)
    BY <1>1, <1>3, RecursiveExists
  <1>6. /\ g[0] = sofar
        /\ \A i \in 1..N : g[i] = AddOrUpdate(d, g[i - 1], items[i].name, items[i].sub)
    <2>1. \A i \in 1..N : g[i - 1] \in Lists
      BY <1>1
    <2> QED
      BY <2>1, <1>4, <1>5 DEF IsRecursive
  <1>7. g = [i \in 0..N |-> IF i = 0 THEN sofar ELSE AddOrUpdate(d, g[i - 1], items[i].name, items[i].sub)]
    <2>1. g = [i \in 0..N |-> g[i]]
      OBVIOUS
    <2>2. \A i \in 0..N : i = 0 \/ i \in 1..N
      BY <1>1
    <2>3. \A i \in 0..N : g[i] = IF i = 0 THEN sofar ELSE AddOrUpdate(d, g[i - 1], items[i].name, items[i].sub)
      BY <2>2, <1>6
    <2> QED
      BY <2>1, <2>3
  <1> DEFINE F == AddedAfter(d, sofar, items)
  <1>8. F = [i \in 0..N |-> IF i = 0 THEN sofar ELSE AddOrUpdate(d, F[i - 1], items[i].name, items[i].sub)]
    BY <1>7 DEF AddedAfter, N
  <1>9. AddAll(d, sofar, items) = F[N]
    BY DEF AddAll, AddedAfter, N
  <1> HIDE DEF F
  <1>10. F[0] = sofar
    BY <1>1, <1>8
  <1>11. \A i \in 1..N : F[i] = AddOrUpdate(d, F[i - 1], items[i].name, items[i].sub)
    BY <1>1, <1>8
  <1> DEFINE T == {k \in 0..N : F[k] = g[k]}
  <1>12. 0 \in T
    BY <1>1, <1>6, <1>10
  <1>13. ASSUME NEW k \in 1..N, k - 1 \in T PROVE k \in T
    BY <1>1, <1>6, <1>11, <1>13
  <1> HIDE DEF T
  <1>14. 0..N \subseteq T
    BY <1>1, <1>12, <1>13, UpToInd
  <1>15. F[N] = g[N]
    BY <1>1, <1>14 DEF T
  <1> QED
    BY <1>5, <1>6, <1>9, <1>15 DEF N

\* What holds of a list after m of the items have been added to it.
ItemNames(items, m) == {Lower(items[i].name) : i \in 1..m}

Grown(d, sofar, items, m, new) ==
  /\ sofar.ok
  /\ NamesOf(new) = NamesOf(sofar) \union ItemNames(items, m)
  /\ Distinct(new)
  /\ NoneMissing(sofar) => NoneMissing(new)
  /\ \A k \in DOMAIN new.files :
       \/ \E j \in DOMAIN sofar.files :
            new.files[k].name = sofar.files[j].name /\ new.files[k].data = sofar.files[j].data
       \/ \E i \in 1..m : new.files[k].name = items[i].name
                          /\ new.files[k].data = Read(d, items[i].sub, items[i].name)

\* And if there was nothing in the list: the directory of a file is that of
\* one item, and no other item has another one.
SubsOf(items, m, new) ==
  \A k \in DOMAIN new.files :
    /\ \E i \in 1..m : Lower(items[i].name) = Lower(new.files[k].name) /\ items[i].sub = new.files[k].sub
    /\ \A i \in 1..m : Lower(items[i].name) = Lower(new.files[k].name) => items[i].sub \in {"", new.files[k].sub}

LEMMA ItemNamesStep ==
  ASSUME NEW items \in Seq(Items), NEW m \in 1..Len(items)
  PROVE  ItemNames(items, m) = ItemNames(items, m - 1) \union {Lower(items[m].name)}
  <1>1. \A i \in 1..m : i \in 1..(m - 1) \/ i = m
    OBVIOUS
  <1>2. 1..(m - 1) \subseteq 1..m /\ m \in 1..m
    OBVIOUS
  <1>3. \A v : v \in ItemNames(items, m) <=> \E i \in 1..m : v = Lower(items[i].name)
    BY DEF ItemNames
  <1>4. \A v : v \in ItemNames(items, m - 1) <=> \E i \in 1..(m - 1) : v = Lower(items[i].name)
    BY DEF ItemNames
  <1>5. \A v : v \in ItemNames(items, m) <=> v \in ItemNames(items, m - 1) \/ v = Lower(items[m].name)
    BY ONLY <1>1, <1>2, <1>3, <1>4, Zenon
  <1> QED
    BY <1>5

\* One item more.
LEMMA GrownStep ==
  ASSUME NEW d \in DOMAIN DirOf, NEW sofar \in Lists, NEW items \in Seq(Items), NEW m \in 1..Len(items),
         NEW old \in Lists, Distinct(sofar), old.ok => Grown(d, sofar, items, m - 1, old),
         NEW new \in Lists, new = AddOrUpdate(d, old, items[m].name, items[m].sub), new.ok
  PROVE  /\ old.ok /\ Grown(d, sofar, items, m, new)
         /\ DOMAIN sofar.files = {} /\ SubsOf(items, m - 1, old) => SubsOf(items, m, new)
  <1>1. old.ok
    <2> SUFFICES ASSUME ~old.ok PROVE FALSE
      OBVIOUS
    <2>1. new = old
      BY DEF AddOrUpdate
    <2> QED
      BY <2>1
  <1>2. PICK name \in SourceNames, sub \in Subs : name = items[m].name /\ sub = items[m].sub
    <2>1. items[m] \in Items
      OBVIOUS
    <2> QED
      BY <2>1 DEF Items
  <1>3. new = AddOrUpdate(d, old, name, sub)
    BY <1>2
  <1>4. /\ NamesOf(new) = NamesOf(old) \union {Lower(name)}
        /\ Distinct(new)
        /\ NoneMissing(old) => NoneMissing(new)
        /\ \A k \in DOMAIN new.files :
             \/ /\ k \in DOMAIN old.files
                /\ new.files[k].name = old.files[k].name /\ new.files[k].data = old.files[k].data
             \/ new.files[k].name = name /\ new.files[k].data = Read(d, sub, name)
        /\ \A k \in DOMAIN new.files :
             \/ /\ Lower(new.files[k].name) = Lower(name) /\ new.files[k].sub = sub
                /\ \A j \in DOMAIN old.files :
                     Lower(old.files[j].name) = Lower(name) => old.files[j].sub \in {"", sub}
             \/ /\ Lower(new.files[k].name) # Lower(name)
                /\ k \in DOMAIN old.files /\ new.files[k] = old.files[k]
    <2>1. Distinct(old)
      BY <1>1 DEF Grown
    <2>2. Kept(d, old, name, sub, new)
      BY <1>1, <1>3, <2>1, AddKeeps
    <2> QED
      BY <2>2 DEF Kept
  <1>5. Grown(d, sofar, items, m - 1, old)
    BY <1>1
  <1>6. 1..(m - 1) \subseteq 1..m /\ m \in 1..m /\ \A i \in 1..m : i \in 1..(m - 1) \/ i = m
    OBVIOUS
  <1>7. NamesOf(new) = NamesOf(sofar) \union ItemNames(items, m)
    <2>1. NamesOf(old) = NamesOf(sofar) \union ItemNames(items, m - 1)
      BY <1>5 DEF Grown
    <2>2. ItemNames(items, m) = ItemNames(items, m - 1) \union {Lower(items[m].name)}
      BY ItemNamesStep
    <2>3. Lower(items[m].name) = Lower(name)
      BY <1>2
    <2> QED
      BY ONLY <1>4, <2>1, <2>2, <2>3
  <1>8. ASSUME NEW k \in DOMAIN new.files
        PROVE  \/ \E j \in DOMAIN sofar.files :
                    new.files[k].name = sofar.files[j].name /\ new.files[k].data = sofar.files[j].data
               \/ \E i \in 1..m : new.files[k].name = items[i].name
                                  /\ new.files[k].data = Read(d, items[i].sub, items[i].name)
    <2>1. CASE /\ k \in DOMAIN old.files
               /\ new.files[k].name = old.files[k].name /\ new.files[k].data = old.files[k].data
      <3>1. \/ \E j \in DOMAIN sofar.files :
                 old.files[k].name = sofar.files[j].name /\ old.files[k].data = sofar.files[j].data
            \/ \E i \in 1..(m - 1) : old.files[k].name = items[i].name
                                     /\ old.files[k].data = Read(d, items[i].sub, items[i].name)
        BY <1>5, <2>1 DEF Grown
      <3> QED
        BY <1>6, <2>1, <3>1
    <2>2. CASE new.files[k].name = name /\ new.files[k].data = Read(d, sub, name)
      BY <1>2, <1>6, <2>2
    <2> QED
      BY <1>4, <2>1, <2>2
  <1>9. Grown(d, sofar, items, m, new)
    <2>1. sofar.ok /\ (NoneMissing(sofar) => NoneMissing(old))
      BY <1>5 DEF Grown
    <2> QED
      BY <1>4, <1>7, <1>8, <2>1 DEF Grown
  <1>10. ASSUME DOMAIN sofar.files = {}, SubsOf(items, m - 1, old)
         PROVE  SubsOf(items, m, new)
    <2> SUFFICES ASSUME NEW k \in DOMAIN new.files
                 PROVE  /\ \E i \in 1..m : Lower(items[i].name) = Lower(new.files[k].name) /\ items[i].sub = new.files[k].sub
                        /\ \A i \in 1..m : Lower(items[i].name) = Lower(new.files[k].name)
                                             => items[i].sub \in {"", new.files[k].sub}
      BY DEF SubsOf
    <2>1. CASE /\ Lower(new.files[k].name) = Lower(name) /\ new.files[k].sub = sub
               /\ \A j \in DOMAIN old.files :
                    Lower(old.files[j].name) = Lower(name) => old.files[j].sub \in {"", sub}
      <3>1. ASSUME NEW i \in 1..(m - 1), Lower(items[i].name) = Lower(name)
            PROVE  items[i].sub \in {"", sub}
        <4>1. Lower(items[i].name) \in NamesOf(old)
          <5>1. Lower(items[i].name) \in ItemNames(items, m - 1)
            BY DEF ItemNames
          <5> QED
            BY <1>5, <5>1 DEF Grown
        <4>2. PICK j \in DOMAIN old.files : Lower(old.files[j].name) = Lower(items[i].name)
          BY <4>1 DEF NamesOf
        <4>3. items[i].sub \in {"", old.files[j].sub}
          BY <1>10, <4>2 DEF SubsOf
        <4>4. old.files[j].sub \in {"", sub}
          BY <2>1, <3>1, <4>2
        <4> QED
          BY <4>3, <4>4
      <3>2. \A i \in 1..m : Lower(items[i].name) = Lower(name) => items[i].sub \in {"", sub}
        BY <1>2, <1>6, <3>1
      <3> QED
        BY <1>2, <1>6, <2>1, <3>2
    <2>2. CASE /\ Lower(new.files[k].name) # Lower(name)
               /\ k \in DOMAIN old.files /\ new.files[k] = old.files[k]
      <3>1. PICK x : x = old.files[k]
        OBVIOUS
      <3>2. /\ \E i \in 1..(m - 1) : Lower(items[i].name) = Lower(x.name) /\ items[i].sub = x.sub
            /\ \A i \in 1..(m - 1) : Lower(items[i].name) = Lower(x.name) => items[i].sub \in {"", x.sub}
        BY <1>10, <2>2, <3>1 DEF SubsOf
      <3>3. Lower(items[m].name) # Lower(x.name)
        BY <1>2, <2>2, <3>1
      <3>4. /\ \E i \in 1..m : Lower(items[i].name) = Lower(x.name) /\ items[i].sub = x.sub
            /\ \A i \in 1..m : Lower(items[i].name) = Lower(x.name) => items[i].sub \in {"", x.sub}
        BY ONLY <1>6, <3>2, <3>3, Zenon
      <3>5. new.files[k] = x
        BY <2>2, <3>1
      <3> QED
        BY <3>4, <3>5
    <2> QED
      BY <1>4, <2>1, <2>2
  <1> QED
    BY <1>1, <1>9, <1>10

LEMMA AddAllGrows ==
  ASSUME NEW d \in DOMAIN DirOf, NEW sofar \in Lists, NEW items \in Seq(Items), Distinct(sofar)
  PROVE  /\ AddAll(d, sofar, items) \in Lists
         /\ AddAll(d, sofar, items).ok =>
              /\ Grown(d, sofar, items, Len(items), AddAll(d, sofar, items))
              /\ DOMAIN sofar.files = {} => SubsOf(items, Len(items), AddAll(d, sofar, items))
  <1>1. PICK N \in Nat : N = Len(items)
    OBVIOUS
  <1>2. PICK f \in [0..N -> Lists] :
           /\ f[0] = sofar
           /\ \A k \in 1..N : f[k] = AddOrUpdate(d, f[k - 1], items[k].name, items[k].sub)
           /\ AddAll(d, sofar, items) = f[N]
    BY <1>1, AddAllSteps
  <1> DEFINE P(k) == f[k].ok => /\ Grown(d, sofar, items, k, f[k])
                                /\ DOMAIN sofar.files = {} => SubsOf(items, k, f[k])
             T == {k \in 0..N : P(k)}
  <1>3. 0 \in T
    <2>1. ItemNames(items, 0) = {}
      BY DEF ItemNames
    <2>2. Grown(d, sofar, items, 0, sofar) <=> sofar.ok
      BY <2>1 DEF Grown
    <2>3. DOMAIN sofar.files = {} => SubsOf(items, 0, sofar)
      BY DEF SubsOf
    <2> QED
      BY <1>1, <1>2, <2>2, <2>3
  <1>4. ASSUME NEW k \in 1..N, k - 1 \in T PROVE k \in T
    <2>1. PICK old \in Lists : old = f[k - 1]
      BY <1>1
    <2>2. PICK new \in Lists : new = f[k]
      BY <1>1
    <2>3. new = AddOrUpdate(d, old, items[k].name, items[k].sub)
      BY <1>2, <2>1, <2>2
    <2>4. old.ok => Grown(d, sofar, items, k - 1, old)
      BY <1>4, <2>1
    <2>5. old.ok /\ DOMAIN sofar.files = {} => SubsOf(items, k - 1, old)
      BY <1>4, <2>1
    <2>6. ASSUME new.ok
          PROVE  /\ old.ok /\ Grown(d, sofar, items, k, new)
                 /\ DOMAIN sofar.files = {} /\ SubsOf(items, k - 1, old) => SubsOf(items, k, new)
      <3>1. k \in 1..Len(items)
        BY <1>1
      <3> QED
        BY ONLY <2>3, <2>4, <2>6, <3>1, Distinct(sofar), d \in DOMAIN DirOf, sofar \in Lists,
                items \in Seq(Items), old \in Lists, new \in Lists, GrownStep
    <2>7. P(k)
      BY <2>2, <2>5, <2>6
    <2> QED
      BY <2>7
  <1> HIDE DEF T
  <1>5. 0..N \subseteq T
    BY <1>3, <1>4, UpToInd
  <1>6. P(N)
    BY <1>5 DEF T
  <1> QED
    BY <1>1, <1>2, <1>6

(***************************************************************************)
(* What an INF refers to.                                                  *)
(***************************************************************************)
LeftAfter(inf) ==
  LET left[k \in 0..Len(inf.disks)] ==
        IF k = 0 THEN <<>>
        ELSE IF InSections(inf, inf.disks[k]) THEN left[k - 1]
        ELSE Append(left[k - 1], inf.disks[k])
  IN left

LEMMA InfIs ==
  ASSUME NEW d \in DOMAIN DirOf, NEW inf \in DirOf[d].infs
  PROVE  /\ inf \in Infs /\ inf.name \in SourceNames /\ inf.name.ext = "inf"
         /\ inf.direct \in Seq(SourceNames) /\ inf.sections \in Seq(SourceNames)
         /\ inf.disks \in Seq(Items)
  <1>1. inf \in Infs
    BY DirOfAssumption
  <1> QED
    BY <1>1 DEF Infs, Items

\* LeftToProcess is what is left after the last entry.
LEMMA LeftSteps ==
  ASSUME NEW inf, inf.disks \in Seq(Items)
  PROVE  \E f \in [0..Len(inf.disks) -> Seq(Items)] :
           /\ f[0] = <<>>
           /\ \A k \in 1..Len(inf.disks) :
                f[k] = IF InSections(inf, inf.disks[k]) THEN f[k - 1] ELSE Append(f[k - 1], inf.disks[k])
           /\ LeftToProcess(inf) = f[Len(inf.disks)]
  <1>1. PICK disks \in Seq(Items) : disks = inf.disks
    OBVIOUS
  <1>2. PICK N \in Nat : N = Len(disks)
    OBVIOUS
  <1>3. \A i \in 1..N : disks[i] \in Items
    BY <1>2
  <1> DEFINE In(i) == InSections(inf, disks[i])
             c == <<>>
             D == [p \in Seq(Items) \X Nat |->
                     IF p[2] \in 1..N THEN IF In(p[2]) THEN p[1] ELSE Append(p[1], disks[p[2]]) ELSE p[1]]
  <1> HIDE DEF In
  <1>4. c \in Seq(Items)
    OBVIOUS
  <1> HIDE DEF c
  <1>5. D \in [Seq(Items) \X Nat -> Seq(Items)]
    <2> SUFFICES ASSUME NEW p \in Seq(Items) \X Nat
                 PROVE  (IF p[2] \in 1..N THEN IF In(p[2]) THEN p[1] ELSE Append(p[1], disks[p[2]]) ELSE p[1]) \in Seq(Items)
      OBVIOUS
    <2>1. p[1] \in Seq(Items)
      OBVIOUS
    <2>2. CASE p[2] \in 1..N
      <3>1. disks[p[2]] \in Items
        BY <2>2, <1>3
      <3>2. Append(p[1], disks[p[2]]) \in Seq(Items)
        BY <2>1, <3>1
      <3> QED
        BY <2>1, <2>2, <3>2
    <2> QED
      BY <2>1, <2>2
  <1>6. \A x \in Seq(Items) : \A i \in 1..N : D[<<x, i>>] = IF In(i) THEN x ELSE Append(x, disks[i])
    BY <1>2
  <1> HIDE DEF D
  <1>7. PICK g \in [0..N -> Seq(Items)] : IsRecursive(g, N, c, D)
    BY <1>2, <1>4, <1>5, RecursiveExists
  <1>8. /\ g[0] = c
        /\ \A i \in 1..N : g[i] = IF In(i) THEN g[i - 1] ELSE Append(g[i - 1], disks[i])
    <2>1. \A i \in 1..N : g[i - 1] \in Seq(Items)
      BY <1>2
    <2> QED
      BY <2>1, <1>6, <1>7 DEF IsRecursive
  <1>9. g = [i \in 0..N |-> IF i = 0 THEN c ELSE IF In(i) THEN g[i - 1] ELSE Append(g[i - 1], disks[i])]
    <2>1. g = [i \in 0..N |-> g[i]]
      OBVIOUS
    <2>2. \A i \in 0..N : i = 0 \/ i \in 1..N
      BY <1>2
    <2>3. \A i \in 0..N : g[i] = IF i = 0 THEN c ELSE IF In(i) THEN g[i - 1] ELSE Append(g[i - 1], disks[i])
      BY <2>2, <1>8
    <2> QED
      BY <2>1, <2>3
  <1> DEFINE F == LeftAfter(inf)
  <1>10. F = [i \in 0..N |-> IF i = 0 THEN c ELSE IF In(i) THEN F[i - 1] ELSE Append(F[i - 1], disks[i])]
    BY <1>1, <1>2, <1>9 DEF LeftAfter, In, c
  <1>11. LeftToProcess(inf) = F[N]
    BY <1>1, <1>2 DEF LeftToProcess, LeftAfter
  <1> HIDE DEF F
  <1> DEFINE St(x, i) == IF In(i) THEN x ELSE Append(x, disks[i])
  <1>12a. F = [i \in 0..N |-> IF i = 0 THEN c ELSE St(F[i - 1], i)]
    BY <1>10
  <1>12b. \A i \in 1..N : g[i] = St(g[i - 1], i)
    BY <1>8
  <1> HIDE DEF St
  <1>12. F[0] = c
    BY <1>2, <1>12a
  <1>13. \A i \in 1..N : F[i] = St(F[i - 1], i)
    BY <1>2, <1>12a
  <1> DEFINE T == {k \in 0..N : F[k] = g[k]}
  <1>14. 0 \in T
    BY <1>2, <1>8, <1>12
  <1>15. ASSUME NEW k \in 1..N, k - 1 \in T PROVE k \in T
    BY <1>2, <1>12b, <1>13, <1>15
  <1> HIDE DEF T
  <1>16. 0..N \subseteq T
    BY <1>2, <1>14, <1>15, UpToInd
  <1>17. F[N] = g[N]
    BY <1>2, <1>16 DEF T
  <1>18. /\ g[0] = <<>>
         /\ \A i \in 1..N : g[i] = IF InSections(inf, disks[i]) THEN g[i - 1] ELSE Append(g[i - 1], disks[i])
         /\ LeftToProcess(inf) = g[N]
    BY <1>8, <1>11, <1>17 DEF In, c
  <1> QED
    BY <1>1, <1>2, <1>18

\* It holds the entries that are in no section, and nothing else.
LEMMA LeftIs ==
  ASSUME NEW inf, inf.disks \in Seq(Items)
  PROVE  /\ LeftToProcess(inf) \in Seq(Items)
         /\ \A j \in 1..Len(LeftToProcess(inf)) : \E k \in 1..Len(inf.disks) :
              LeftToProcess(inf)[j] = inf.disks[k] /\ ~InSections(inf, inf.disks[k])
         /\ \A k \in 1..Len(inf.disks) : ~InSections(inf, inf.disks[k]) =>
              \E j \in 1..Len(LeftToProcess(inf)) : LeftToProcess(inf)[j] = inf.disks[k]
  <1>1. PICK disks \in Seq(Items) : disks = inf.disks
    OBVIOUS
  <1>2. PICK N \in Nat : N = Len(disks)
    OBVIOUS
  <1>3. PICK f \in [0..N -> Seq(Items)] :
           /\ f[0] = <<>>
           /\ \A k \in 1..N : f[k] = IF InSections(inf, disks[k]) THEN f[k - 1] ELSE Append(f[k - 1], disks[k])
           /\ LeftToProcess(inf) = f[N]
    BY <1>1, <1>2, LeftSteps
  <1> DEFINE From(m) == \A j \in 1..Len(f[m]) : \E k \in 1..m : f[m][j] = disks[k] /\ ~InSections(inf, disks[k])
             All(m)  == \A k \in 1..m : ~InSections(inf, disks[k]) => \E j \in 1..Len(f[m]) : f[m][j] = disks[k]
             T == {m \in 0..N : From(m) /\ All(m)}
  <1>4. 0 \in T
    <2>1. Len(f[0]) = 0 /\ 0 \in 0..N
      BY <1>3
    <2> QED
      BY <2>1
  <1>5. ASSUME NEW m \in 1..N, m - 1 \in T PROVE m \in T
    <2>0. /\ 1..(m - 1) \subseteq 1..m /\ m \in 1..m
          /\ \A k \in 1..m : k \in 1..(m - 1) \/ k = m
      OBVIOUS
    <2>1. PICK old \in Seq(Items) : old = f[m - 1]
      BY <1>2
    <2>2. disks[m] \in Items
      BY <1>2
    <2>3. From(m - 1) /\ All(m - 1)
      BY <1>5
    <2>4. CASE InSections(inf, disks[m])
      <3>1. f[m] = f[m - 1]
        BY <1>3, <2>4
      <3>2. From(m)
        BY <2>0, <2>3, <3>1
      <3>3. All(m)
        BY <2>0, <2>3, <2>4, <3>1
      <3> QED
        BY <3>2, <3>3
    <2>5. CASE ~InSections(inf, disks[m])
      <3>1. PICK n \in Nat : n = Len(old)
        OBVIOUS
      <3>2. f[m] = Append(old, disks[m])
        BY <1>3, <2>1, <2>5
      <3>3. /\ Len(f[m]) = n + 1 /\ \A j \in 1..n : f[m][j] = old[j]
            /\ f[m][n + 1] = disks[m]
        BY <2>2, <3>1, <3>2
      <3>4. /\ \A j \in 1..Len(f[m]) : j \in 1..n \/ j = n + 1
            /\ 1..n \subseteq 1..Len(f[m]) /\ n + 1 \in 1..Len(f[m])
        BY <3>1, <3>3
      <3>5. From(m)
        <4> SUFFICES ASSUME NEW j \in 1..Len(f[m])
                     PROVE  \E k \in 1..m : f[m][j] = disks[k] /\ ~InSections(inf, disks[k])
          OBVIOUS
        <4>1. CASE j \in 1..n
          BY <2>0, <2>1, <2>3, <3>1, <3>3, <4>1
        <4>2. CASE j = n + 1
          BY <2>0, <2>5, <3>3, <4>2
        <4> QED
          BY <3>4, <4>1, <4>2
      <3>6. All(m)
        <4> SUFFICES ASSUME NEW k \in 1..m, ~InSections(inf, disks[k])
                     PROVE  \E j \in 1..Len(f[m]) : f[m][j] = disks[k]
          OBVIOUS
        <4>1. CASE k \in 1..(m - 1)
          <5>1. PICK j \in 1..n : old[j] = disks[k]
            BY <2>1, <2>3, <3>1, <4>1
          <5> QED
            BY <3>3, <3>4, <5>1
        <4>2. CASE k = m
          BY <3>3, <3>4, <4>2
        <4> QED
          BY <2>0, <4>1, <4>2
      <3> QED
        BY <3>5, <3>6
    <2> QED
      BY <2>4, <2>5
  <1> HIDE DEF T
  <1>6. 0..N \subseteq T
    BY <1>4, <1>5, UpToInd
  <1>7. From(N) /\ All(N)
    BY <1>6 DEF T
  <1>8. f[N] \in Seq(Items)
    OBVIOUS
  <1> QED
    BY <1>1, <1>2, <1>3, <1>7, <1>8

\* The directory that an INF gives first for a file.
Given(inf, file) ==
  LET given == {k \in DOMAIN inf.disks : Lower(inf.disks[k].name) = file /\ inf.disks[k].sub # ""}
  IN  IF given = {} THEN "" ELSE inf.disks[Min(given)].sub

LEMMA OverrideIsGiven ==
  ASSUME NEW inf, NEW name
  PROVE  Override(inf.disks, name) = Given(inf, Lower(name))
  BY DEF Override, Given

\* It is one of its entries, or there is none.
LEMMA GivenIs ==
  ASSUME NEW inf, inf.disks \in Seq(Items), NEW file
  PROVE  /\ Given(inf, file) \in Subs
         /\ \/ /\ Given(inf, file) = ""
               /\ \A k \in 1..Len(inf.disks) : Lower(inf.disks[k].name) = file => inf.disks[k].sub = ""
            \/ /\ Given(inf, file) # ""
               /\ \E k \in 1..Len(inf.disks) : Lower(inf.disks[k].name) = file /\ inf.disks[k].sub = Given(inf, file)
  <1> DEFINE given == {k \in DOMAIN inf.disks : Lower(inf.disks[k].name) = file /\ inf.disks[k].sub # ""}
  <1>1. /\ DOMAIN inf.disks = 1..Len(inf.disks) /\ DOMAIN inf.disks \subseteq Nat
        /\ \A k \in DOMAIN inf.disks : inf.disks[k].sub \in Subs
    <2>1. PICK disks \in Seq(Items) : disks = inf.disks
      OBVIOUS
    <2>2. DOMAIN disks = 1..Len(disks) /\ DOMAIN disks \subseteq Nat /\ \A k \in DOMAIN disks : disks[k] \in Items
      OBVIOUS
    <2>3. \A x \in Items : x.sub \in Subs
      BY DEF Items
    <2> QED
      BY <2>1, <2>2, <2>3
  <1>2. CASE given = {}
    <2>1. Given(inf, file) = ""
      BY <1>2 DEF Given
    <2> QED
      BY <1>1, <1>2, <2>1, NamesAssumption
  <1>3. CASE given # {}
    <2>1. given \subseteq Nat
      BY <1>1
    <2>2. PICK k : k = Min(given)
      OBVIOUS
    <2>3. k \in given
      BY <1>3, <2>1, <2>2, MinOf
    <2>4. Given(inf, file) = inf.disks[k].sub
      BY <1>3, <2>2 DEF Given
    <2> QED
      BY <1>1, <2>3, <2>4
  <1> QED
    BY <1>2, <1>3

\* Three sequences put together: every index is one of theirs.
ThreeParts(s, A, B, C) ==
  /\ Len(s) = Len(A) + Len(B) + Len(C)
  /\ \A i \in 1..Len(A) : i \in 1..Len(s) /\ s[i] = A[i]
  /\ \A i \in 1..Len(B) : Len(A) + i \in 1..Len(s) /\ s[Len(A) + i] = B[i]
  /\ \A i \in 1..Len(C) : Len(A) + Len(B) + i \in 1..Len(s) /\ s[Len(A) + Len(B) + i] = C[i]
  /\ \A i \in 1..Len(s) : \/ \E j \in 1..Len(A) : s[i] = A[j]
                          \/ \E j \in 1..Len(B) : s[i] = B[j]
                          \/ \E j \in 1..Len(C) : s[i] = C[j]

LEMMA Concat ==
  ASSUME NEW X, NEW A \in Seq(X), NEW B \in Seq(X), NEW C \in Seq(X)
  PROVE  A \o B \o C \in Seq(X) /\ ThreeParts(A \o B \o C, A, B, C)
  <1>1. PICK a \in Nat : a = Len(A)
    OBVIOUS
  <1>2. PICK b \in Nat : b = Len(B)
    OBVIOUS
  <1>3. PICK c \in Nat : c = Len(C)
    OBVIOUS
  <1>4. PICK AB \in Seq(X) : AB = A \o B
    BY ConcatProperties
  <1>5. /\ Len(AB) = a + b /\ \A i \in 1..a : AB[i] = A[i]
        /\ \A i \in 1..(a + b) : i > a => AB[i] = B[i - a]
    <2>1. \A i \in 1..(a + b) : AB[i] = IF i <= a THEN A[i] ELSE B[i - a]
      BY <1>1, <1>2, <1>4, ConcatProperties
    <2>2. Len(AB) = a + b
      BY <1>1, <1>2, <1>4, ConcatProperties
    <2> QED
      BY <2>1, <2>2
  <1>6. PICK s \in Seq(X) : s = AB \o C
    BY ConcatProperties
  <1>7. /\ Len(s) = a + b + c /\ \A i \in 1..(a + b) : s[i] = AB[i]
        /\ \A i \in 1..(a + b + c) : i > a + b => s[i] = C[i - (a + b)]
    <2>1. \A i \in 1..(a + b + c) : s[i] = IF i <= a + b THEN AB[i] ELSE C[i - (a + b)]
      BY <1>3, <1>5, <1>6, ConcatProperties
    <2>2. Len(s) = a + b + c
      BY <1>3, <1>5, <1>6, ConcatProperties
    <2> QED
      BY <2>1, <2>2
  <1>8. ASSUME NEW i \in 1..a PROVE i \in 1..(a + b + c) /\ s[i] = A[i]
    BY <1>5, <1>7
  <1>9. ASSUME NEW i \in 1..b PROVE a + i \in 1..(a + b + c) /\ s[a + i] = B[i]
    <2>1. a + i \in 1..(a + b) /\ a + i > a /\ (a + i) - a = i /\ a + i \in 1..(a + b + c)
      OBVIOUS
    <2>2. AB[a + i] = B[(a + i) - a]
      BY <1>5, <2>1
    <2> QED
      BY <1>7, <2>1, <2>2
  <1>10. ASSUME NEW i \in 1..c PROVE a + b + i \in 1..(a + b + c) /\ s[a + b + i] = C[i]
    <2>1. a + b + i \in 1..(a + b + c) /\ a + b + i > a + b /\ (a + b + i) - (a + b) = i
      OBVIOUS
    <2>2. s[a + b + i] = C[(a + b + i) - (a + b)]
      BY <1>7, <2>1
    <2> QED
      BY <2>1, <2>2
  <1>11. ASSUME NEW i \in 1..(a + b + c)
         PROVE  \/ \E j \in 1..a : s[i] = A[j]
                \/ \E j \in 1..b : s[i] = B[j]
                \/ \E j \in 1..c : s[i] = C[j]
    <2>1. CASE i \in 1..a
      BY <1>8, <2>1
    <2>2. CASE i \in (a + 1)..(a + b)
      <3>1. i - a \in 1..b /\ i \in 1..(a + b) /\ i > a
        BY <2>2
      <3>2. s[i] = B[i - a]
        BY <1>5, <1>7, <3>1
      <3> QED
        BY <3>1, <3>2
    <2>3. CASE i \in (a + b + 1)..(a + b + c)
      <3>1. i - (a + b) \in 1..c /\ i > a + b
        BY <2>3
      <3>2. s[i] = C[i - (a + b)]
        BY <1>7, <3>1
      <3> QED
        BY <3>1, <3>2
    <2>4. i \in 1..a \/ i \in (a + 1)..(a + b) \/ i \in (a + b + 1)..(a + b + c)
      OBVIOUS
    <2> QED
      BY <2>1, <2>2, <2>3, <2>4
  <1>12. ThreeParts(s, A, B, C)
    BY <1>1, <1>2, <1>3, <1>7, <1>8, <1>9, <1>10, <1>11 DEF ThreeParts
  <1> QED
    BY <1>4, <1>6, <1>12

LEMMA DirectIs ==
  ASSUME NEW inf, inf.direct \in Seq(SourceNames)
  PROVE  /\ DirectFiles(inf) \in Seq(Items) /\ Len(DirectFiles(inf)) = Len(inf.direct)
         /\ \A i \in 1..Len(inf.direct) :
              DirectFiles(inf)[i].name = inf.direct[i] /\ DirectFiles(inf)[i].sub = ""
  <1>1. PICK direct \in Seq(SourceNames) : direct = inf.direct
    OBVIOUS
  <1>2. PICK n \in Nat : n = Len(direct) /\ DOMAIN direct = 1..n
    OBVIOUS
  <1> DEFINE It(i) == Item(direct[i], "")
  <1>3. \A i \in 1..n : It(i) \in Items /\ It(i).name = direct[i] /\ It(i).sub = ""
    <2>1. \A i \in 1..n : direct[i] \in SourceNames
      BY <1>2
    <2> QED
      BY <2>1, NamesAssumption DEF Item, Items
  <1>4. DirectFiles(inf) = [i \in 1..n |-> It(i)]
    BY <1>1, <1>2 DEF DirectFiles
  <1> HIDE DEF It
  <1>5. PICK A \in Seq(Items) : A = [i \in 1..n |-> It(i)] /\ Len(A) = n /\ \A i \in 1..n : A[i] = It(i)
    <2>1. [i \in 1..n |-> It(i)] \in Seq(Items)
      <3>1. \A i \in 1..n : It(i) \in Items
        BY <1>3
      <3>2. PICK g : g = [i \in 1..n |-> It(i)]
        OBVIOUS
      <3>3. g \in [1..n -> Items]
        BY ONLY <3>1, <3>2
      <3> QED
        BY ONLY <3>2, <3>3, n \in Nat
    <2>2. PICK A : A = [i \in 1..n |-> It(i)]
      OBVIOUS
    <2>3. A \in Seq(Items) /\ DOMAIN A = 1..n /\ \A i \in 1..n : A[i] = It(i)
      BY <2>1, <2>2
    <2>4. Len(A) \in Nat /\ DOMAIN A = 1..Len(A)
      BY <2>3, LenProperties
    <2>5. Len(A) = n
      BY <2>3, <2>4
    <2> QED
      BY <2>2, <2>3, <2>5
  <1> QED
    BY <1>1, <1>2, <1>3, <1>4, <1>5

LEMMA SectionsIs ==
  ASSUME NEW inf, inf.sections \in Seq(SourceNames), inf.disks \in Seq(Items)
  PROVE  /\ SectionFiles(inf) \in Seq(Items) /\ Len(SectionFiles(inf)) = Len(inf.sections)
         /\ \A i \in 1..Len(inf.sections) :
              /\ SectionFiles(inf)[i].name = inf.sections[i]
              /\ SectionFiles(inf)[i].sub = Given(inf, Lower(inf.sections[i]))
  <1>1. PICK sections \in Seq(SourceNames) : sections = inf.sections
    OBVIOUS
  <1>2. PICK n \in Nat : n = Len(sections) /\ DOMAIN sections = 1..n
    OBVIOUS
  <1> DEFINE It(i) == Item(sections[i], Given(inf, Lower(sections[i])))
  <1>3. \A i \in 1..n : It(i) \in Items /\ It(i).name = sections[i] /\ It(i).sub = Given(inf, Lower(sections[i]))
    <2>1. \A i \in 1..n : sections[i] \in SourceNames
      BY <1>2
    <2>2. \A i \in 1..n : Given(inf, Lower(sections[i])) \in Subs
      BY GivenIs
    <2> QED
      BY <2>1, <2>2 DEF Item, Items
  <1>4. SectionFiles(inf) = [i \in 1..n |-> It(i)]
    <2>1. \A i \in 1..n : Override(inf.disks, sections[i]) = Given(inf, Lower(sections[i]))
      BY OverrideIsGiven
    <2>2. SectionFiles(inf) = [i \in 1..n |-> Item(sections[i], Override(inf.disks, sections[i]))]
      BY <1>1, <1>2 DEF SectionFiles
    <2> QED
      BY <2>1, <2>2
  <1> HIDE DEF It
  <1>5. PICK A \in Seq(Items) : A = [i \in 1..n |-> It(i)] /\ Len(A) = n /\ \A i \in 1..n : A[i] = It(i)
    <2>1. [i \in 1..n |-> It(i)] \in Seq(Items)
      <3>1. \A i \in 1..n : It(i) \in Items
        BY <1>3
      <3>2. PICK g : g = [i \in 1..n |-> It(i)]
        OBVIOUS
      <3>3. g \in [1..n -> Items]
        BY ONLY <3>1, <3>2
      <3> QED
        BY ONLY <3>2, <3>3, n \in Nat
    <2>2. PICK A : A = [i \in 1..n |-> It(i)]
      OBVIOUS
    <2>3. A \in Seq(Items) /\ DOMAIN A = 1..n /\ \A i \in 1..n : A[i] = It(i)
      BY <2>1, <2>2
    <2>4. Len(A) \in Nat /\ DOMAIN A = 1..Len(A)
      BY <2>3, LenProperties
    <2>5. Len(A) = n
      BY <2>3, <2>4
    <2> QED
      BY <2>2, <2>3, <2>5
  <1> QED
    BY <1>1, <1>2, <1>3, <1>4, <1>5

ItemsOf(inf) == DirectFiles(inf) \o SectionFiles(inf) \o LeftToProcess(inf)

\* The items of an INF are the files it mentions, and those that may be in
\* another directory say which.
ItemsFit(inf, items) ==
  /\ items \in Seq(Items)
  /\ ItemNames(items, Len(items)) = Mentioned(inf)
  /\ \A i \in 1..Len(items) :
       \/ items[i].sub = ""
       \/ \E k \in 1..Len(inf.disks) : items[i].sub = inf.disks[k].sub
                                       /\ Lower(inf.disks[k].name) = Lower(items[i].name)
  /\ \A k \in 1..Len(inf.disks) : \E i \in 1..Len(items) :
       /\ Lower(items[i].name) = Lower(inf.disks[k].name)
       /\ items[i].sub \in {inf.disks[k].sub, Given(inf, Lower(inf.disks[k].name))}

LEMMA ItemsIs ==
  ASSUME NEW d \in DOMAIN DirOf, NEW inf \in DirOf[d].infs
  PROVE  ItemsFit(inf, ItemsOf(inf))
  <1>1a. PICK direct \in Seq(SourceNames) : direct = inf.direct
    BY InfIs
  <1>1b. PICK sections \in Seq(SourceNames) : sections = inf.sections
    BY InfIs
  <1>1c. PICK disks \in Seq(Items) : disks = inf.disks
    BY InfIs
  <1>2a. PICK nd \in Nat : nd = Len(direct) /\ DOMAIN direct = 1..nd
    OBVIOUS
  <1>2b. PICK ns \in Nat : ns = Len(sections) /\ DOMAIN sections = 1..ns
    OBVIOUS
  <1>2c. PICK nk \in Nat : nk = Len(disks) /\ DOMAIN disks = 1..nk
    OBVIOUS
  <1>3. PICK A \in Seq(Items) :
          /\ A = DirectFiles(inf) /\ Len(A) = nd
          /\ \A i \in 1..nd : A[i].name = direct[i] /\ A[i].sub = ""
    BY <1>1a, <1>2a, DirectIs
  <1>4. PICK B \in Seq(Items) :
          /\ B = SectionFiles(inf) /\ Len(B) = ns
          /\ \A i \in 1..ns : B[i].name = sections[i] /\ B[i].sub = Given(inf, Lower(sections[i]))
    BY <1>1b, <1>1c, <1>2b, SectionsIs
  <1>5. PICK C \in Seq(Items) : C = LeftToProcess(inf)
    BY <1>1c, LeftIs
  <1>6. PICK nc \in Nat : nc = Len(C)
    BY LenProperties
  <1>7. /\ \A j \in 1..nc : \E k \in 1..nk : C[j] = disks[k] /\ ~InSections(inf, disks[k])
        /\ \A k \in 1..nk : ~InSections(inf, disks[k]) => \E j \in 1..nc : C[j] = disks[k]
    BY <1>1c, <1>2c, <1>5, <1>6, LeftIs
  <1>8. PICK items \in Seq(Items) : items = A \o B \o C /\ ThreeParts(items, A, B, C)
    BY Concat
  <1>8a. items = ItemsOf(inf)
    BY <1>3, <1>4, <1>5, <1>8 DEF ItemsOf
  <1>8b. PICK M \in Nat : M = Len(items)
    OBVIOUS
  <1>9. /\ \A i \in 1..nd : \E m \in 1..M : items[m] = A[i]
        /\ \A i \in 1..ns : \E m \in 1..M : items[m] = B[i]
        /\ \A i \in 1..nc : \E m \in 1..M : items[m] = C[i]
        /\ \A m \in 1..M : \/ \E i \in 1..nd : items[m] = A[i]
                           \/ \E i \in 1..ns : items[m] = B[i]
                           \/ \E i \in 1..nc : items[m] = C[i]
    BY ONLY <1>3, <1>4, <1>6, <1>8, <1>8b, Zenon DEF ThreeParts
  <1>10. \A k \in 1..nk : InSections(inf, disks[k]) <=> \E i \in 1..ns : Lower(sections[i]) = Lower(disks[k].name)
    BY <1>1b, <1>2b DEF InSections
  <1>11. Mentioned(inf) = {Lower(direct[k]) : k \in 1..nd}
                            \union {Lower(sections[k]) : k \in 1..ns}
                            \union {Lower(disks[k].name) : k \in 1..nk}
    BY <1>1a, <1>1b, <1>1c, <1>2a, <1>2b, <1>2c DEF Mentioned
  <1>12. ItemNames(items, M) = {Lower(items[i].name) : i \in 1..M}
    BY <1>8b DEF ItemNames
  <1>13. ASSUME NEW i \in 1..M PROVE Lower(items[i].name) \in Mentioned(inf)
    <2>1. CASE \E j \in 1..nd : items[i] = A[j]
      <3>1. PICK j \in 1..nd : items[i] = A[j]
        BY <2>1
      <3>2. Lower(items[i].name) = Lower(direct[j])
        BY <1>3, <3>1
      <3> QED
        BY <1>11, <3>2
    <2>2. CASE \E j \in 1..ns : items[i] = B[j]
      <3>1. PICK j \in 1..ns : items[i] = B[j]
        BY <2>2
      <3>2. Lower(items[i].name) = Lower(sections[j])
        BY <1>4, <3>1
      <3> QED
        BY <1>11, <3>2
    <2>3. CASE \E j \in 1..nc : items[i] = C[j]
      <3>1. PICK j \in 1..nc : items[i] = C[j]
        BY <2>3
      <3>2. PICK k \in 1..nk : C[j] = disks[k]
        BY <1>7
      <3>3. Lower(items[i].name) = Lower(disks[k].name)
        BY <3>1, <3>2
      <3> QED
        BY <1>11, <3>3
    <2> QED
      BY <1>9, <2>1, <2>2, <2>3
  \* A file of SourceDisksFiles is mentioned in a section, or left.
  <1>14. ASSUME NEW k \in 1..nk
         PROVE  \E i \in 1..M :
                  /\ Lower(items[i].name) = Lower(disks[k].name)
                  /\ items[i].sub \in {disks[k].sub, Given(inf, Lower(disks[k].name))}
    <2>1. CASE InSections(inf, disks[k])
      <3>1. PICK i \in 1..ns : Lower(sections[i]) = Lower(disks[k].name)
        BY <1>10, <2>1
      <3>2. PICK m \in 1..M : items[m] = B[i]
        BY <1>9
      <3>3. Lower(B[i].name) = Lower(disks[k].name) /\ B[i].sub = Given(inf, Lower(disks[k].name))
        BY <1>4, <3>1
      <3> QED
        BY <3>2, <3>3
    <2>2. CASE ~InSections(inf, disks[k])
      <3>1. PICK j \in 1..nc : C[j] = disks[k]
        BY <1>7, <2>2
      <3>2. PICK m \in 1..M : items[m] = C[j]
        BY <1>9
      <3> QED
        BY <3>1, <3>2
    <2> QED
      BY <2>1, <2>2
  <1>15. ASSUME NEW v \in Mentioned(inf) PROVE \E i \in 1..M : v = Lower(items[i].name)
    <2>1. ASSUME NEW j \in 1..nd, v = Lower(direct[j])
          PROVE  \E i \in 1..M : v = Lower(items[i].name)
      <3>1. PICK m \in 1..M : items[m] = A[j]
        BY <1>9
      <3> QED
        BY <1>3, <2>1, <3>1
    <2>2. ASSUME NEW j \in 1..ns, v = Lower(sections[j])
          PROVE  \E i \in 1..M : v = Lower(items[i].name)
      <3>1. PICK m \in 1..M : items[m] = B[j]
        BY <1>9
      <3> QED
        BY <1>4, <2>2, <3>1
    <2>3. ASSUME NEW k \in 1..nk, v = Lower(disks[k].name)
          PROVE  \E i \in 1..M : v = Lower(items[i].name)
      BY <1>14, <2>3
    <2> QED
      BY <1>11, <2>1, <2>2, <2>3
  <1>16. ASSUME NEW i \in 1..M
         PROVE  \/ items[i].sub = ""
                \/ \E k \in 1..nk : items[i].sub = disks[k].sub /\ Lower(disks[k].name) = Lower(items[i].name)
    <2>1. CASE \E j \in 1..nd : items[i] = A[j]
      BY <1>3, <2>1
    <2>2. CASE \E j \in 1..ns : items[i] = B[j]
      <3>1. PICK j \in 1..ns : items[i] = B[j]
        BY <2>2
      <3>2. items[i].name = sections[j] /\ items[i].sub = Given(inf, Lower(sections[j]))
        BY <1>4, <3>1
      <3>3. \/ Given(inf, Lower(sections[j])) = ""
            \/ \E k \in 1..nk : Lower(disks[k].name) = Lower(sections[j]) /\ disks[k].sub = Given(inf, Lower(sections[j]))
        BY <1>1c, <1>2c, GivenIs
      <3> QED
        BY <3>2, <3>3
    <2>3. CASE \E j \in 1..nc : items[i] = C[j]
      <3>1. PICK j \in 1..nc : items[i] = C[j]
        BY <2>3
      <3>2. PICK k \in 1..nk : C[j] = disks[k]
        BY <1>7
      <3> QED
        BY <3>1, <3>2
    <2> QED
      BY <1>9, <2>1, <2>2, <2>3
  <1>17. ItemNames(items, M) = Mentioned(inf)
    <2>1. \A v \in ItemNames(items, M) : v \in Mentioned(inf)
      BY <1>12, <1>13
    <2>2. \A v \in Mentioned(inf) : v \in ItemNames(items, M)
      BY <1>12, <1>15
    <2> QED
      BY <2>1, <2>2
  <1>18. ItemsFit(inf, items)
    BY <1>1c, <1>2c, <1>8b, <1>14, <1>16, <1>17 DEF ItemsFit
  <1> QED
    BY <1>8a, <1>18

\* All files that an INF mentions become known, each with the directory that
\* the INF gives for it.
LEMMA KnownIs ==
  ASSUME NEW d \in DOMAIN DirOf, NEW inf \in DirOf[d].infs,
         NEW known, known = KnownFiles(d, inf)
  PROVE  /\ known \in Lists
         /\ known.ok =>
              /\ NamesOf(known) = Mentioned(inf)
              /\ \A k \in DOMAIN known.files :
                   known.files[k].sub = Given(inf, Lower(known.files[k].name))
  <1>1. PICK items : items = ItemsOf(inf)
    OBVIOUS
  <1>2. /\ items \in Seq(Items)
        /\ ItemNames(items, Len(items)) = Mentioned(inf)
        /\ \A i \in 1..Len(items) :
              \/ items[i].sub = ""
              \/ \E k \in 1..Len(inf.disks) : items[i].sub = inf.disks[k].sub
                                              /\ Lower(inf.disks[k].name) = Lower(items[i].name)
        /\ \A k \in 1..Len(inf.disks) : \E i \in 1..Len(items) :
              /\ Lower(items[i].name) = Lower(inf.disks[k].name)
              /\ items[i].sub \in {inf.disks[k].sub, Given(inf, Lower(inf.disks[k].name))}
    <2>1. ItemsFit(inf, items)
      BY <1>1, ItemsIs
    <2> QED
      BY <2>1 DEF ItemsFit
  <1>3. known = AddAll(d, NoFiles, items)
    BY <1>1 DEF KnownFiles, ItemsOf
  <1>4. NoFiles \in Lists /\ Distinct(NoFiles) /\ DOMAIN NoFiles.files = {} /\ NamesOf(NoFiles) = {}
    BY DEF NoFiles, Lists, Distinct, NamesOf
  <1>5. known \in Lists
    BY <1>2, <1>3, <1>4, AddAllGrows
  <1>6. ASSUME known.ok
        PROVE  Grown(d, NoFiles, items, Len(items), known) /\ SubsOf(items, Len(items), known)
    BY <1>2, <1>3, <1>4, <1>6, AddAllGrows
  <1>7. ASSUME known.ok PROVE NamesOf(known) = Mentioned(inf)
    BY <1>2, <1>4, <1>6, <1>7 DEF Grown
  <1>8. ASSUME known.ok, NEW k \in DOMAIN known.files
        PROVE  known.files[k].sub = Given(inf, Lower(known.files[k].name))
    <2>1. PICK file, s : file = Lower(known.files[k].name) /\ s = known.files[k].sub
      OBVIOUS
    <2>2. PICK i \in 1..Len(items) : Lower(items[i].name) = file /\ items[i].sub = s
      BY <1>6, <1>8, <2>1 DEF SubsOf
    <2>3. \A j \in 1..Len(items) : Lower(items[j].name) = file => items[j].sub \in {"", s}
      BY <1>6, <1>8, <2>1 DEF SubsOf
    <2>4. inf.disks \in Seq(Items)
      BY InfIs
    <2>5. CASE /\ Given(inf, file) = ""
               /\ \A n \in 1..Len(inf.disks) : Lower(inf.disks[n].name) = file => inf.disks[n].sub = ""
      <3>1. s = ""
        BY <1>2, <2>2, <2>5
      <3> QED
        BY <2>1, <2>5, <3>1
    <2>6. CASE /\ Given(inf, file) # ""
               /\ \E n \in 1..Len(inf.disks) : Lower(inf.disks[n].name) = file /\ inf.disks[n].sub = Given(inf, file)
      <3>1. PICK n \in 1..Len(inf.disks) : Lower(inf.disks[n].name) = file /\ inf.disks[n].sub = Given(inf, file)
        BY <2>6
      <3>2. PICK j \in 1..Len(items) : Lower(items[j].name) = file /\ items[j].sub = Given(inf, file)
        BY <1>2, <3>1
      <3>3. Given(inf, file) \in {"", s}
        BY <2>3, <3>2
      <3> QED
        BY <2>1, <2>6, <3>3
    <2> QED
      BY <2>4, <2>5, <2>6, GivenIs
  <1> QED
    BY <1>5, <1>7, <1>8

(***************************************************************************)
(* The inductive invariant.                                                *)
(***************************************************************************)
\* An INF lists what its original mentions; a CAB holds what its directory's
\* INF files designate.
Listed(e) == \A inf \in DirOf[e.dir].infs : inf.name = e.inf => e.files = Mentioned(inf)

Designated(d, file, data) ==
  /\ data.dir = d /\ data.name = file
  /\ \E inf \in DirOf[d].infs :
       /\ file \in Mentioned(inf)
       /\ data.sub = Given(inf, file) \/ NoPlain(d, Given(inf, file), file)

AllDesignated(e) ==
  \A file \in {x \in DOMAIN e.files : x.ext # "inf"} : Designated(e.dir, file, e.files[file])

\* Files that are put out, by run r or before it.
SoundInf(e) == e.kind = "inf" /\ e \in InfsPutOut /\ Listed(e)
SoundCab(e) == e.kind = "cab" /\ AllDesignated(e)
Partial(e)  == e.kind = "part" /\ e \in Parts

Sound(r, out) ==
  /\ IsFiniteSet(DOMAIN out) /\ DOMAIN out \subseteq Names
  /\ \A x \in DOMAIN out :
       /\ out[x].run \in Nat /\ out[x].run <= r /\ out[x].dir \in DOMAIN DirOf
       /\ x.ext = "inf" => SoundInf(out[x]) \/ Partial(out[x])
       /\ x.ext # "inf" => SoundCab(out[x]) \/ Partial(out[x])

\* Each INF of run r has its CAB, but for those of directory d.
HasCab(r, out, e) ==
  /\ e.cab \in DOMAIN out
  /\ out[e.cab].run = r /\ out[e.cab].dir = e.dir
  /\ e.files \subseteq DOMAIN out[e.cab].files \union Win98 \union Broken(out)

Packed(r, d, out) ==
  \A x \in DOMAIN out :
    out[x].kind = "inf" /\ out[x].run = r /\ out[x].dir # d => HasCab(r, out, out[x])

\* The same in a copy that is not finished.
PackedBut(r, d, late, out) ==
  \A x \in DOMAIN out :
    out[x].kind = "inf" /\ out[x].run = r /\ out[x].dir # d /\ out[x].cab \notin late => HasCab(r, out, out[x])

\* The list of a directory, of files that were found.
Sourced(d, name, data) ==
  \E inf \in DirOf[d].infs :
    Lower(name) \in Mentioned(inf) /\ data = Read(d, Given(inf, Lower(name)), name)

ListFits(d, list0) ==
  /\ list0 \in Lists /\ list0.ok /\ Distinct(list0) /\ NoneMissing(list0)
  /\ \A k \in DOMAIN list0.files : Sourced(d, list0.files[k].name, list0.files[k].data)

Stages ==
  /\ run \in Nat
  /\ phase \in {"idle", "base", "copy", "ndis", "final", "failed"}
  /\ library.base \subseteq DOMAIN DirOf
  /\ library.ndis # NULL => library.ndis \subseteq DOMAIN DirOf /\ library.base \intersect library.ndis = {}
  /\ dir \in DOMAIN DirOf \union {NULL}
  /\ phase = "base" => todo \subseteq library.base /\ (dir # NULL => dir \in library.base \ todo)
  /\ phase \in {"copy", "ndis"} => library.ndis # NULL
  /\ phase = "copy" => toCopy \subseteq DOMAIN int /\ dir = NULL
  /\ Running \/ phase = "final" => toCopy = {}
  /\ phase = "ndis" => todo \subseteq library.ndis /\ (dir # NULL => dir \in library.ndis \ todo)
  /\ dir # NULL => infs \subseteq DirOf[dir].infs
  /\ (Running \/ phase = "copy") /\ dir = NULL => cab = NULL /\ list = NoFiles

\* .driver_int holds this run's base drivers, the other directory in the end
\* also those of NDIS2, and files of earlier runs.
BaseOut ==
  /\ Sound(run, int) /\ Packed(run, dir, int)
  /\ phase # "failed" =>
       \A x \in DOMAIN int :
         /\ int[x].run = run /\ int[x].dir \in library.base /\ int[x].kind # "part"
         /\ phase = "base" => int[x].dir \notin todo

\* While the files are copied, those of this run are the ones that were.
NdisOut ==
  ndis2 # NULL \/ phase \in {"copy", "ndis"} =>
    /\ Sound(run, ndis2) /\ PackedBut(run, dir, toCopy, ndis2)
    /\ phase = "copy" =>
         /\ \A x \in DOMAIN ndis2 : ndis2[x].run = run => x \in DOMAIN int \ toCopy
         /\ \A x \in DOMAIN int \ toCopy : x \in DOMAIN ndis2 /\ ndis2[x] = int[x]
    /\ \A x \in DOMAIN ndis2 :
         /\ phase = "base" => ndis2[x].run # run
         /\ phase = "ndis" /\ ndis2[x].run = run => ndis2[x].dir \notin todo

\* In a directory: the CAB to come fits the INF files that are there.
CabToCome(out) ==
  /\ cab # NULL => cab \in Names /\ cab.ext = "cab" /\ cab \notin DOMAIN out
  /\ \A x \in DOMAIN out :
       out[x].kind = "inf" /\ out[x].run = run /\ out[x].dir = dir =>
         cab # NULL /\ out[x].cab = cab /\ out[x].files \subseteq NamesOf(list)

InDir == Running /\ dir # NULL => ListFits(dir, list) /\ CabToCome(Out)

Inv == Stages /\ BaseOut /\ NdisOut /\ InDir
(***************************************************************************)
(* Directories with a file more.                                           *)
(***************************************************************************)
LEMMA SoundPut ==
  ASSUME NEW r \in Nat, NEW out, Sound(r, out), NEW x \in Names, NEW e,
         e.run = r, e.dir \in DOMAIN DirOf, x.ext = "inf" => SoundInf(e) \/ Partial(e),
         x.ext # "inf" => SoundCab(e) \/ Partial(e)
  PROVE  Sound(r, Put(out, x, e))
  <1>1. PICK new : new = Put(out, x, e)
    OBVIOUS
  <1>2. /\ DOMAIN new = DOMAIN out \union {x} /\ new[x] = e
        /\ \A y \in DOMAIN out : y # x => new[y] = out[y]
    BY <1>1 DEF Put
  <1>3. IsFiniteSet(DOMAIN new) /\ DOMAIN new \subseteq Names
    BY <1>2, FS_AddElement DEF Sound
  <1>4. ASSUME NEW y \in DOMAIN new
        PROVE  /\ new[y].run \in Nat /\ new[y].run <= r /\ new[y].dir \in DOMAIN DirOf
               /\ y.ext = "inf" => SoundInf(new[y]) \/ Partial(new[y])
               /\ y.ext # "inf" => SoundCab(new[y]) \/ Partial(new[y])
    <2>1. CASE y = x
      BY <1>2, <2>1
    <2>2. CASE y # x
      BY <1>2, <2>2 DEF Sound
    <2> QED
      BY <2>1, <2>2
  <1>5. Sound(r, new)
    BY <1>3, <1>4 DEF Sound
  <1> QED
    BY <1>1, <1>5

LEMMA HasCabPut ==
  ASSUME NEW r, NEW out, NEW x, x \notin DOMAIN out, NEW e, NEW i, HasCab(r, out, i)
  PROVE  HasCab(r, Put(out, x, e), i)
  <1>1. PICK new : new = Put(out, x, e)
    OBVIOUS
  <1>2. DOMAIN out \subseteq DOMAIN new /\ \A y \in DOMAIN out : new[y] = out[y]
    BY <1>1 DEF Put
  <1>3. i.cab \in DOMAIN new /\ new[i.cab] = out[i.cab]
    BY <1>2 DEF HasCab
  <1>5. Broken(out) \subseteq Broken(new)
    BY <1>2 DEF Broken
  <1>4. HasCab(r, new, i)
    BY <1>3, <1>5 DEF HasCab
  <1> QED
    BY <1>1, <1>4

\* An INF that is put out waits for the CAB of its directory.
LEMMA PackedPut ==
  ASSUME NEW r, NEW d, NEW out, Packed(r, d, out), NEW x, x \notin DOMAIN out, NEW e, e.dir = d
  PROVE  Packed(r, d, Put(out, x, e))
  <1>1. PICK new : new = Put(out, x, e)
    OBVIOUS
  <1>2. DOMAIN new = DOMAIN out \union {x} /\ new[x] = e /\ \A y \in DOMAIN out : new[y] = out[y]
    BY <1>1 DEF Put
  <1>3. ASSUME NEW y \in DOMAIN new, new[y].kind = "inf", new[y].run = r, new[y].dir # d
        PROVE  HasCab(r, new, new[y])
    <2>1. y \in DOMAIN out /\ new[y] = out[y]
      BY <1>2, <1>3
    <2>2. HasCab(r, out, out[y])
      BY <1>3, <2>1 DEF Packed
    <2> QED
      BY <1>1, <2>1, <2>2, HasCabPut
  <1>4. Packed(r, d, new)
    BY <1>3 DEF Packed
  <1> QED
    BY <1>1, <1>4

\* The CAB that is put out is the one its directory's INF files wait for.
LEMMA PackedCab ==
  ASSUME NEW r, NEW d, NEW d2, NEW out, Packed(r, d, out), NEW x, x \notin DOMAIN out,
         NEW e, e.kind = "cab", e.run = r, e.dir = d,
         \A y \in DOMAIN out : out[y].kind = "inf" /\ out[y].run = r /\ out[y].dir = d =>
           out[y].cab = x /\ out[y].files \subseteq DOMAIN e.files \union Win98 \union Broken(out)
  PROVE  Packed(r, d2, Put(out, x, e))
  <1>1. PICK new : new = Put(out, x, e)
    OBVIOUS
  <1>2. DOMAIN new = DOMAIN out \union {x} /\ new[x] = e /\ \A y \in DOMAIN out : new[y] = out[y]
    BY <1>1 DEF Put
  <1>3. ASSUME NEW y \in DOMAIN new, new[y].kind = "inf", new[y].run = r
        PROVE  HasCab(r, new, new[y])
    <2>1. y \in DOMAIN out /\ new[y] = out[y]
      BY <1>2, <1>3
    <2>2. CASE out[y].dir = d
      <3>1. out[y].cab = x /\ out[y].files \subseteq DOMAIN e.files \union Win98 \union Broken(out)
        BY <1>3, <2>1, <2>2
      <3>2. Broken(out) \subseteq Broken(new)
        BY <1>2 DEF Broken
      <3> QED
        BY <1>2, <2>1, <2>2, <3>1, <3>2 DEF HasCab
    <2>3. CASE out[y].dir # d
      <3>1. HasCab(r, out, out[y])
        BY <1>3, <2>1, <2>3 DEF Packed
      <3> QED
        BY <1>1, <2>1, <3>1, HasCabPut
    <2> QED
      BY <2>2, <2>3
  <1>4. Packed(r, d2, new)
    BY <1>3 DEF Packed
  <1> QED
    BY <1>1, <1>4

\* Within a run that stays in its stage or stops, the directory being written
\* may change in files of the directory at hand, which are whole unless it stops.
Extends(out, new) ==
  \A x \in DOMAIN new : \/ x \in DOMAIN out /\ new[x] = out[x]
                        \/ new[x].run = run /\ new[x].dir = dir

Whole(out, new) ==
  \A x \in DOMAIN new : \/ x \in DOMAIN out /\ new[x] = out[x]
                        \/ new[x].kind # "part"

\* Nothing is late.
LEMMA NoneLate ==
  ASSUME NEW r, NEW d, NEW out
  PROVE  PackedBut(r, d, {}, out) <=> Packed(r, d, out)
  BY DEF PackedBut, Packed

LEMMA NotBut ==
  ASSUME NEW r, NEW d, NEW late, NEW out, Packed(r, d, out)
  PROVE  PackedBut(r, d, late, out)
  BY DEF PackedBut, Packed

LEMMA SetOutKeeps ==
  ASSUME Inv, Running, dir # NULL, NEW new, SetOut(new), Sound(run, new), Packed(run, dir', new),
         Extends(Out, new), dir' \in {dir, NULL}, phase' \in {phase, "failed"},
         phase' = phase => Whole(Out, new),
         UNCHANGED <<run, library, todo, toCopy>>
  PROVE  BaseOut' /\ NdisOut'
  <1>1. run' = run /\ library' = library /\ todo' = todo /\ toCopy' = toCopy /\ toCopy = {}
    BY DEF Inv, Stages
  <1>2. CASE phase = "base"
    <2>1. int' = new /\ ndis2' = ndis2 /\ Out = int
      BY <1>2 DEF SetOut, Out
    <2>2. dir \in library.base /\ dir \notin todo
      BY <1>2 DEF Inv, Stages
    <2>3. \A x \in DOMAIN new : /\ new[x].run = run /\ new[x].dir \in library.base
                                /\ new[x].dir \notin todo
                                /\ phase' = phase => new[x].kind # "part"
      BY <1>2, <2>1, <2>2 DEF Extends, Whole, Inv, BaseOut
    <2>4. BaseOut'
      BY <1>1, <2>1, <2>3 DEF BaseOut
    <2>5. ASSUME ndis2' # NULL \/ phase' \in {"copy", "ndis"}
          PROVE  /\ Sound(run, ndis2) /\ PackedBut(run, dir', toCopy', ndis2)
                 /\ \A x \in DOMAIN ndis2 : ndis2[x].run # run
      <3>1. ndis2 # NULL
        BY <1>2, <2>1, <2>5
      <3>2. Sound(run, ndis2) /\ \A x \in DOMAIN ndis2 : ndis2[x].run # run
        BY <1>2, <3>1 DEF Inv, NdisOut
      <3> QED
        BY <3>2 DEF PackedBut
    <2>6. NdisOut'
      BY <1>1, <1>2, <2>1, <2>5 DEF NdisOut
    <2> QED
      BY <2>4, <2>6
  <1>3. CASE phase = "ndis"
    <2>1. ndis2' = new /\ int' = int /\ Out = ndis2
      BY <1>3 DEF SetOut, Out
    <2>2. dir \in library.ndis /\ dir \notin todo /\ dir \notin library.base
      BY <1>3 DEF Inv, Stages
    <2>3. \A x \in DOMAIN new : new[x].run = run => new[x].dir \notin todo
      BY <1>3, <2>1, <2>2 DEF Extends, Inv, NdisOut
    <2>8. PackedBut(run, dir', {}, new)
      BY NoneLate
    <2>4. NdisOut'
      BY <1>1, <1>3, <2>1, <2>3, <2>8 DEF NdisOut
    <2>5. /\ Sound(run, int)
          /\ \A x \in DOMAIN int : /\ int[x].run = run /\ int[x].dir \in library.base
                                   /\ int[x].dir # dir /\ int[x].kind # "part"
      BY <1>3, <2>2 DEF Inv, BaseOut
    <2>6. Packed(run, dir', int)
      BY <2>5 DEF Inv, BaseOut, Packed
    <2>7. BaseOut'
      BY <1>1, <1>3, <2>1, <2>5, <2>6 DEF BaseOut
    <2> QED
      BY <2>4, <2>7
  <1> QED
    BY <1>2, <1>3 DEF Running
(***************************************************************************)
(* The list of a directory's files, and the CAB that is made from it.      *)
(***************************************************************************)
LEMMA NoFilesFit ==
  ASSUME NEW d
  PROVE  ListFits(d, NoFiles) /\ NamesOf(NoFiles) = {}
  BY DEF ListFits, NoFiles, Lists, Distinct, NoneMissing, NamesOf

\* Files of one more INF are added to the list.
LEMMA MergedIs ==
  ASSUME NEW d \in DOMAIN DirOf, NEW inf \in DirOf[d].infs, NEW old, ListFits(d, old),
         NEW known, known = KnownFiles(d, inf), known.ok,
         NEW items, items = [k \in DOMAIN known.files |-> Item(known.files[k].name, known.files[k].sub)],
         NEW new, new = AddAll(d, old, items), new.ok
  PROVE  ListFits(d, new) /\ NamesOf(new) = NamesOf(old) \union NamesOf(known)
  <1>1. known \in Lists /\ NamesOf(known) = Mentioned(inf)
    BY KnownIs
  <1>2. \A k \in DOMAIN known.files : known.files[k].sub = Given(inf, Lower(known.files[k].name))
    BY KnownIs
  <1>3. PICK files \in Seq(SourceFiles) : files = known.files
    BY <1>1 DEF Lists
  <1>4. PICK n \in Nat : n = Len(files) /\ DOMAIN files = 1..n
    BY LenProperties
  <1>5. \A k \in 1..n : files[k] \in SourceFiles
    BY <1>3, <1>4
  <1>6. DOMAIN items = 1..n /\ \A k \in 1..n : items[k] = Item(files[k].name, files[k].sub)
    BY <1>3, <1>4
  <1>7. \A k \in 1..n : /\ items[k] \in Items /\ items[k].name = files[k].name
                        /\ items[k].sub = Given(inf, Lower(files[k].name))
    <2> SUFFICES ASSUME NEW k \in 1..n
                 PROVE  /\ items[k] \in Items /\ items[k].name = files[k].name
                        /\ items[k].sub = Given(inf, Lower(files[k].name))
      OBVIOUS
    <2>1. PICK f \in SourceFiles : f = files[k]
      BY <1>5
    <2>2. f.sub = Given(inf, Lower(f.name)) /\ items[k] = Item(f.name, f.sub)
      BY <1>2, <1>3, <1>4, <1>6, <2>1
    <2> QED
      BY <2>1, <2>2 DEF Item, Items, SourceFiles
  <1>8. items \in Seq(Items) /\ Len(items) = n
    <2>1. items = [k \in 1..n |-> items[k]]
      BY <1>3, <1>4
    <2>2. items \in [1..n -> Items]
      BY <1>7, <2>1
    <2> QED
      BY ONLY <2>2, n \in Nat
  <1>9. old \in Lists /\ Distinct(old) /\ NoneMissing(old)
    BY DEF ListFits
  <1>10. new \in Lists /\ Grown(d, old, items, n, new)
    BY <1>8, <1>9, AddAllGrows
  <1>11. NamesOf(new) = NamesOf(old) \union NamesOf(known)
    <2>1. ItemNames(items, n) = NamesOf(known)
      <3>1. ItemNames(items, n) = {Lower(files[k].name) : k \in 1..n}
        BY <1>7 DEF ItemNames
      <3>2. NamesOf(known) = {Lower(files[k].name) : k \in 1..n}
        BY <1>3, <1>4 DEF NamesOf
      <3> QED
        BY <3>1, <3>2
    <2> QED
      BY <1>10, <2>1 DEF Grown
  <1>12. ASSUME NEW k \in DOMAIN new.files PROVE Sourced(d, new.files[k].name, new.files[k].data)
    <2>1. CASE \E j \in DOMAIN old.files :
                 new.files[k].name = old.files[j].name /\ new.files[k].data = old.files[j].data
      BY <2>1 DEF ListFits
    <2>2. ASSUME NEW i \in 1..n, new.files[k].name = items[i].name,
                 new.files[k].data = Read(d, items[i].sub, items[i].name)
          PROVE  Sourced(d, new.files[k].name, new.files[k].data)
      <3>1. PICK name : name = items[i].name
        OBVIOUS
      <3>2. Lower(name) \in Mentioned(inf)
        BY <1>1, <1>3, <1>4, <1>7, <3>1 DEF NamesOf
      <3>3. items[i].sub = Given(inf, Lower(name))
        BY <1>7, <3>1
      <3> QED
        BY <2>2, <3>1, <3>2, <3>3 DEF Sourced
    <2> QED
      BY <1>10, <2>1, <2>2 DEF Grown
  <1>13. ListFits(d, new)
    BY <1>9, <1>10, <1>12 DEF ListFits, Grown
  <1> QED
    BY <1>11, <1>13

\* A CAB from the list, in which INF files may have been refreshed.
LEMMA CabIs ==
  ASSUME NEW d \in DOMAIN DirOf, NEW list0, ListFits(d, list0), NEW lost,
         NEW files, DOMAIN files = DOMAIN list0.files,
         \A k \in DOMAIN files :
           /\ files[k].name = list0.files[k].name
           /\ \/ files[k].data = list0.files[k].data
              \/ Lower(files[k].name).ext = "inf" /\ files[k].data # NULL
              \/ Lower(files[k].name) \in lost /\ files[k].data = NULL
  PROVE  /\ Cab(d, files).run = run /\ Cab(d, files).dir = d /\ SoundCab(Cab(d, files))
         /\ NamesOf(list0) \subseteq DOMAIN Cab(d, files).files \union Win98 \union lost
  <1> DEFINE there == {j \in DOMAIN files : files[j].data # NULL}
             names == {Lower(files[k].name) : k \in there}
             In(name) == CHOOSE k \in DOMAIN files : Lower(files[k].name) = name
  <1>1. PICK e : e = Cab(d, files)
    OBVIOUS
  <1>2. PICK packed : packed = [name \in names |-> files[In(name)].data]
    OBVIOUS
  <1>3. e = [kind |-> "cab", run |-> run, dir |-> d, files |-> packed]
    BY <1>1, <1>2 DEF Cab
  <1>4. e.kind = "cab" /\ e.run = run /\ e.dir = d /\ e.files = packed
    BY <1>3
  <1>5. \A j, k \in DOMAIN files : Lower(files[j].name) = Lower(files[k].name) => j = k
    BY DEF ListFits, Distinct
  <1>6. ASSUME NEW k \in there PROVE Lower(files[k].name) \in DOMAIN packed /\ packed[Lower(files[k].name)] = files[k].data
    <2>1. PICK name : name = Lower(files[k].name)
      OBVIOUS
    <2>2. In(name) \in DOMAIN files /\ Lower(files[In(name)].name) = name
      BY <2>1
    <2>3. In(name) = k
      BY <1>5, <2>1, <2>2
    <2>4. name \in names
      BY <2>1
    <2> QED
      BY <1>2, <2>1, <2>3, <2>4
  <1>7. ASSUME NEW file \in DOMAIN packed, file.ext # "inf" PROVE Designated(d, file, packed[file])
    <2>1. PICK k \in there : file = Lower(files[k].name)
      BY <1>2
    <2>2. PICK data : data = packed[file]
      OBVIOUS
    <2>3. data = list0.files[k].data /\ data # NULL
      BY <1>6, <1>7, <2>1, <2>2
    <2>4. PICK name : name = list0.files[k].name
      OBVIOUS
    <2>5. Lower(name) = file /\ name \in SourceNames
      <3>1. list0.files[k] \in SourceFiles
        BY DEF ListFits, Lists
      <3> QED
        BY <2>1, <2>4, <3>1 DEF SourceFiles
    <2>6. PICK inf \in DirOf[d].infs : file \in Mentioned(inf) /\ data = Read(d, Given(inf, file), name)
      BY <2>3, <2>4, <2>5 DEF ListFits, Sourced
    <2>7. Given(inf, file) \in Subs
      BY InfIs, GivenIs
    <2>8. data.dir = d /\ data.name = file /\ (data.sub = Given(inf, file) \/ NoPlain(d, Given(inf, file), file))
      BY <2>3, <2>5, <2>6, <2>7, ReadIs
    <2> QED
      BY <2>2, <2>6, <2>8 DEF Designated
  <1>8. SoundCab(e)
    BY <1>4, <1>7 DEF SoundCab, AllDesignated
  <1>9. ASSUME NEW v \in NamesOf(list0) PROVE v \in DOMAIN packed \union Win98 \union lost
    <2>1. PICK k \in DOMAIN files : v = Lower(files[k].name) /\ v = Lower(list0.files[k].name)
      BY DEF NamesOf
    <2>2. CASE files[k].data # NULL
      BY <1>6, <2>1, <2>2
    <2>3. CASE files[k].data = NULL /\ v \notin lost
      <3>1. list0.files[k].data = NULL
        BY <2>1, <2>3
      <3>2. ~Missing(list0.files[k])
        BY DEF ListFits, NoneMissing
      <3> QED
        BY <2>1, <3>1, <3>2 DEF Missing
    <2> QED
      BY <2>2, <2>3
  <1> QED
    BY <1>1, <1>4, <1>8, <1>9
(***************************************************************************)
(* Every step preserves the invariant.                                     *)
(***************************************************************************)
LEMMA NothingPutOut ==
  ASSUME NEW r, NEW d
  PROVE  Sound(r, Empty) /\ Packed(r, d, Empty) /\ PackedBut(r, d, {}, Empty) /\ DOMAIN Empty = {}
  <1>1. DOMAIN Empty = {}
    BY DEF Empty
  <1> QED
    BY <1>1, FS_EmptySet DEF Sound, Packed, PackedBut

\* What a run finds is of earlier runs.
LEMMA NextRun ==
  ASSUME NEW r \in Nat, NEW d, NEW out, Sound(r, out)
  PROVE  /\ Sound(r + 1, out) /\ Packed(r + 1, d, out) /\ PackedBut(r + 1, d, {}, out)
         /\ \A x \in DOMAIN out : out[x].run # r + 1
  <1>1. \A x \in DOMAIN out : out[x].run \in Nat /\ out[x].run <= r + 1 /\ out[x].run # r + 1
    BY DEF Sound
  <1> QED
    BY <1>1 DEF Sound, Packed, PackedBut

\* What is left of a directory that was being deleted.
LEMMA RestIsSound ==
  ASSUME NEW r, NEW out, Sound(r, out), NEW rest, rest \subseteq DOMAIN out
  PROVE  Sound(r, [x \in rest |-> out[x]])
  <1>1. PICK new : new = [x \in rest |-> out[x]]
    OBVIOUS
  <1>2. DOMAIN new = rest /\ \A x \in rest : new[x] = out[x]
    BY <1>1
  <1>3. IsFiniteSet(rest)
    BY FS_Subset DEF Sound
  <1>4. Sound(r, new)
    BY <1>2, <1>3 DEF Sound
  <1> QED
    BY <1>1, <1>4

LEMMA InitInv == Init => Inv
  <1> SUFFICES ASSUME Init PROVE Inv
    OBVIOUS
  <1>1. Stages
    BY DEF Init, Stages, Running
  <1>2. BaseOut
    BY NothingPutOut DEF Init, BaseOut
  <1>3. NdisOut
    BY DEF Init, NdisOut
  <1>4. InDir
    BY DEF Init, InDir, Running
  <1> QED
    BY <1>1, <1>2, <1>3, <1>4 DEF Inv

LEMMA StartInv ==
  ASSUME Inv, NEW l \in Libraries, Start(l)
  PROVE  Inv'
  <1>1. /\ run' = run + 1 /\ library' = l /\ todo' = l.base
        /\ ndis2' = ndis2 /\ toCopy' = {}
        /\ \/ phase' = "base" /\ int' = Empty
           \/ phase' = "failed" /\ \E rest \in SUBSET DOMAIN int : int' = [x \in rest |-> int[x]]
        /\ dir' = NULL /\ infs' = {} /\ cab' = NULL /\ list' = NoFiles
        /\ phase \in {"idle", "failed"} /\ run \in Nat
    BY DEF Start, LeaveDir, Inv, Stages
  <1>2. Stages'
    BY <1>1, LibrariesAssumption DEF LibrariesAssumption, Stages, Running
  <1>3. BaseOut'
    <2>1. CASE phase' = "base" /\ int' = Empty
      BY <1>1, <2>1, NothingPutOut DEF BaseOut
    <2>2. CASE phase' = "failed" /\ \E rest \in SUBSET DOMAIN int : int' = [x \in rest |-> int[x]]
      <3>1. Sound(run, int')
        BY <2>2, RestIsSound DEF Inv, BaseOut
      <3>2. Sound(run + 1, int') /\ Packed(run + 1, NULL, int')
        BY <1>1, <3>1, NextRun
      <3> QED
        BY <1>1, <2>2, <3>2 DEF BaseOut
    <2> QED
      BY <1>1, <2>1, <2>2
  <1>4. NdisOut'
    <2> SUFFICES ASSUME ndis2 # NULL
                 PROVE  Sound(run + 1, ndis2) /\ PackedBut(run + 1, NULL, {}, ndis2)
                        /\ \A x \in DOMAIN ndis2 : ndis2[x].run # run + 1
      BY <1>1 DEF NdisOut
    <2>1. Sound(run, ndis2)
      BY DEF Inv, NdisOut
    <2> QED
      BY <1>1, <2>1, NextRun
  <1>5. InDir'
    BY <1>1 DEF InDir
  <1> QED
    BY <1>2, <1>3, <1>4, <1>5 DEF Inv

LEMMA EnterDirInv ==
  ASSUME Inv, NEW d \in DOMAIN DirOf, EnterDir(d)
  PROVE  Inv'
  <1>1. /\ Running /\ dir = NULL /\ d \in todo
        /\ todo' = todo \ {d} /\ dir' = d /\ infs' = DirOf[d].infs
        /\ run' = run /\ library' = library /\ phase' = phase /\ cab' = cab /\ list' = list
        /\ int' = int /\ ndis2' = ndis2 /\ toCopy' = toCopy /\ toCopy = {}
    BY DEF EnterDir, Inv, Stages
  <1>2. cab = NULL /\ list = NoFiles
    BY <1>1 DEF Inv, Stages
  <1>3. d # NULL
    BY NullAssumption
  <1>4. Stages'
    BY <1>1, <1>3 DEF Inv, Stages, Running
  <1>5. ASSUME NEW out, Sound(run, out), Packed(run, dir, out) PROVE Packed(run, d, out)
    <2>1. \A x \in DOMAIN out : out[x].dir # NULL
      BY <1>5, NullAssumption DEF Sound
    <2> QED
      BY <1>1, <1>5, <2>1 DEF Packed
  <1>6. BaseOut'
    BY <1>1, <1>5 DEF Inv, BaseOut
  <1>7. NdisOut'
    BY <1>1, <1>5, NoneLate DEF Inv, NdisOut, Running
  <1>8. InDir'
    <2>1. Out' = Out
      BY <1>1 DEF Out
    <2>2. \A x \in DOMAIN Out : Out[x].run = run => Out[x].dir # d
      BY <1>1 DEF Inv, BaseOut, NdisOut, Out, Running
    <2>3. CabToCome(Out)'
      BY <1>1, <1>2, <2>1, <2>2 DEF CabToCome
    <2>4. ListFits(dir, list)'
      BY <1>1, <1>2, NoFilesFit
    <2> QED
      BY <2>3, <2>4 DEF InDir
  <1> QED
    BY <1>4, <1>6, <1>7, <1>8 DEF Inv

\* The directory being written is sound.
LEMMA OutIs ==
  ASSUME Inv, Running
  PROVE  /\ Sound(run, Out) /\ Packed(run, dir, Out) /\ run \in Nat
         /\ Extends(Out, Out) /\ Whole(Out, Out)
  <1>1. Extends(Out, Out) /\ Whole(Out, Out) /\ run \in Nat /\ toCopy = {}
    BY DEF Extends, Whole, Inv, Stages
  <1>2. CASE phase = "base"
    BY <1>1, <1>2 DEF Inv, BaseOut, Out
  <1>3. CASE phase = "ndis"
    BY <1>1, <1>3, NoneLate DEF Inv, NdisOut, Out
  <1> QED
    BY <1>1, <1>2, <1>3 DEF Running

\* What handleInf adds for an INF, the directory's CAB being outCab.
LEMMA InfIsSound ==
  ASSUME Inv, NEW d \in DOMAIN DirOf, NEW inf \in DirOf[d].infs, NEW outCab \in Names,
         NEW known \in Lists, NamesOf(known) = Mentioned(inf),
         NEW e, e = Inf(d, inf, outCab, known.files)
  PROVE  /\ SoundInf(e) /\ e.run = run /\ e.dir = d /\ e.cab = outCab
         /\ e.files = NamesOf(known)
  <1>1. e = [kind |-> "inf", run |-> run, dir |-> d, inf |-> inf.name, cab |-> outCab, files |-> NamesOf(known)]
    BY DEF Inf, NamesOf
  <1>2. inf.name \in SourceNames /\ run \in Nat
    BY InfIs DEF Inv, Stages
  <1>3. NamesOf(known) \subseteq SourceNames
    <2>1. \A k \in DOMAIN known.files : known.files[k] \in SourceFiles
      BY DEF Lists
    <2>2. \A k \in DOMAIN known.files : Lower(known.files[k].name) \in SourceNames
      BY <2>1, LowerName DEF SourceFiles
    <2> QED
      BY <2>2 DEF NamesOf
  <1>4. PICK files : files = NamesOf(known)
    OBVIOUS
  <1>5. e = [kind |-> "inf", run |-> run, dir |-> d, inf |-> inf.name, cab |-> outCab, files |-> files]
    BY <1>1, <1>4
  <1>6. files \in SUBSET SourceNames
    BY <1>3, <1>4
  <1>7. e \in InfsPutOut
    BY <1>2, <1>5, <1>6 DEF InfsPutOut
  <1>8. e.kind = "inf" /\ e.run = run /\ e.dir = d /\ e.inf = inf.name /\ e.cab = outCab /\ e.files = files
    BY <1>5
  <1>9. \A other \in DirOf[d].infs : other.name = inf.name => other = inf
    BY DirOfAssumption
  <1>10. Listed(e)
    BY <1>4, <1>8, <1>9 DEF Listed
  <1> QED
    BY <1>4, <1>7, <1>8, <1>10 DEF SoundInf

LEMMA HandleInfInv ==
  ASSUME Inv, NEW inf \in infs, HandleInf(inf)
  PROVE  Inv'
  <1>1. PICK outInf : outInf = UniqueFilename(Out, inf.name)
    OBVIOUS
  <1>2. PICK outCab : outCab = OutCab(inf)
    OBVIOUS
  <1>3. PICK known : known = KnownFiles(dir, inf)
    OBVIOUS
  <1>4. PICK items : items = [k \in DOMAIN known.files |-> Item(known.files[k].name, known.files[k].sub)]
    OBVIOUS
  <1>5. PICK merged : merged = AddAll(dir, list, items)
    OBVIOUS
  <1>6. PICK new : new = Put(Out, outInf, Inf(dir, inf, outCab, known.files))
    OBVIOUS
  <1>7. /\ Running /\ dir # NULL /\ infs' = infs \ {inf} /\ cab' = outCab
        /\ run' = run /\ library' = library /\ todo' = todo /\ dir' = dir /\ toCopy' = toCopy
    BY <1>2 DEF HandleInf
  <1>8. \/ ~inf.valid /\ phase' = phase /\ list' = list /\ int' = int /\ ndis2' = ndis2
        \/ ~known.ok /\ phase' = "failed" /\ int' = int /\ ndis2' = ndis2
        \/ known.ok /\ SetOut(new) /\ list' = merged /\ phase' = IF merged.ok THEN phase ELSE "failed"
    BY <1>1, <1>2, <1>3, <1>4, <1>5, <1>6 DEF HandleInf
  <1>9. phase' \in {phase, "failed"}
    BY <1>8
  <1>10. dir \in DOMAIN DirOf /\ inf \in DirOf[dir].infs
    BY <1>7 DEF Inv, Stages
  <1>11. inf.name \in SourceNames /\ inf.name \in Names /\ inf.name.ext = "inf"
    BY <1>10, InfIs, LowerName
  <1>12. ListFits(dir, list) /\ CabToCome(Out)
    BY <1>7 DEF Inv, InDir
  <1>13. /\ Sound(run, Out) /\ Packed(run, dir, Out) /\ run \in Nat /\ Extends(Out, Out) /\ Whole(Out, Out)
    BY <1>7, OutIs
  <1>14. outCab \in Names /\ outCab.ext = "cab" /\ outCab \notin DOMAIN Out /\ (cab # NULL => outCab = cab)
    <2>1. CASE cab # NULL
      BY <1>2, <1>12, <2>1 DEF OutCab, CabToCome
    <2>2. CASE cab = NULL
      <3>1. PICK name : name = [inf.name EXCEPT !.ext = "cab"]
        OBVIOUS
      <3>2. name \in Names /\ name.ext = "cab"
        BY <1>11, <3>1, NamesAssumption DEF Names
      <3>3. outCab = UniqueFilename(Out, name)
        BY <1>2, <2>2, <3>1 DEF OutCab
      <3> QED
        BY <1>13, <2>2, <3>2, <3>3, UniqueIsFree DEF Sound
    <2> QED
      BY <2>1, <2>2
  <1>15. outCab # NULL
    BY <1>14, NullAssumption
  <1>16. Stages'
    BY <1>7, <1>9, <1>10 DEF Inv, Stages, Running
  <1>17. CASE int' = int /\ ndis2' = ndis2 /\ phase' = phase /\ list' = list
    <2>1. SetOut(Out)
      BY <1>17 DEF SetOut, Out
    <2>2. BaseOut' /\ NdisOut'
      BY <1>7, <1>13, <1>17, <2>1, SetOutKeeps
    <2>3. Out' = Out
      BY <1>17 DEF Out
    <2>4. ListFits(dir, list)'
      BY <1>7, <1>12, <1>17 DEF ListFits
    <2>5. CabToCome(Out)'
      BY <1>7, <1>12, <1>14, <1>15, <1>17, <2>3 DEF CabToCome
    <2>6. InDir'
      BY <2>4, <2>5 DEF InDir
    <2> QED
      BY <1>16, <2>2, <2>6 DEF Inv
  <1>18. CASE int' = int /\ ndis2' = ndis2 /\ phase' = "failed"
    <2>1. SetOut(Out)
      BY <1>18 DEF SetOut, Out
    <2>2. BaseOut' /\ NdisOut'
      BY <1>7, <1>9, <1>13, <2>1, SetOutKeeps
    <2>3. InDir'
      BY <1>18 DEF InDir, Running
    <2> QED
      BY <1>16, <2>2, <2>3 DEF Inv
  <1>19. CASE known.ok /\ SetOut(new) /\ list' = merged /\ phase' = IF merged.ok THEN phase ELSE "failed"
    <2>1. known \in Lists /\ NamesOf(known) = Mentioned(inf)
      BY <1>3, <1>10, <1>19, KnownIs
    <2>2. PICK e : e = Inf(dir, inf, outCab, known.files)
      OBVIOUS
    <2>3. /\ SoundInf(e) /\ e.run = run /\ e.dir = dir /\ e.cab = outCab
          /\ e.files = NamesOf(known)
      BY <1>10, <1>14, <2>1, <2>2, InfIsSound
    <2>4. outInf \in Names /\ outInf \notin DOMAIN Out /\ outInf.ext = "inf"
      BY <1>1, <1>11, <1>13, UniqueIsFree DEF Sound
    <2>5. new = Put(Out, outInf, e)
      BY <1>6, <2>2
    <2>6. Sound(run, new)
      BY <1>10, <1>13, <2>3, <2>4, <2>5, SoundPut
    <2>7. Packed(run, dir, new)
      BY <1>13, <2>3, <2>4, <2>5, PackedPut
    <2>8. Extends(Out, new) /\ Whole(Out, new)
      BY <2>3, <2>5 DEF Put, Extends, Whole, SoundInf
    <2>9. BaseOut' /\ NdisOut'
      BY <1>7, <1>9, <1>19, <2>6, <2>7, <2>8, SetOutKeeps
    <2>10. ASSUME merged.ok PROVE InDir'
      <3>1. phase' = phase /\ Out' = new
        BY <1>7, <1>19, <2>10 DEF SetOut, Out, Running
      <3>2. ListFits(dir, merged) /\ NamesOf(merged) = NamesOf(list) \union NamesOf(known)
        BY <1>3, <1>4, <1>5, <1>10, <1>12, <1>19, <2>10, MergedIs
      <3>3. ListFits(dir, list)'
        BY <1>7, <1>19, <3>2
      <3>4. DOMAIN new = DOMAIN Out \union {outInf} /\ new[outInf] = e /\ \A x \in DOMAIN Out : new[x] = Out[x]
        BY <2>4, <2>5 DEF Put
      <3>5. outCab \notin DOMAIN new
        BY <1>14, <2>4, <3>4
      <3>6. ASSUME NEW x \in DOMAIN new, new[x].kind = "inf", new[x].run = run, new[x].dir = dir
            PROVE  new[x].cab = outCab /\ new[x].files \subseteq NamesOf(merged)
        <4>1. CASE x = outInf
          BY <2>3, <3>2, <3>4, <4>1
        <4>2. CASE x \in DOMAIN Out
          <5>1. cab # NULL /\ Out[x].cab = cab /\ Out[x].files \subseteq NamesOf(list)
            BY <1>12, <3>4, <3>6, <4>2 DEF CabToCome
          <5> QED
            BY <1>14, <3>2, <3>4, <4>2, <5>1
        <4> QED
          BY <3>4, <4>1, <4>2
      <3>7. CabToCome(Out)'
        BY <1>7, <1>14, <1>15, <1>19, <3>1, <3>5, <3>6 DEF CabToCome
      <3> QED
        BY <3>3, <3>7 DEF InDir
    <2>11. ASSUME ~merged.ok PROVE InDir'
      BY <1>19, <2>11 DEF InDir, Running
    <2> QED
      BY <1>16, <2>9, <2>10, <2>11 DEF Inv
  <1> QED
    BY <1>8, <1>17, <1>18, <1>19

LEMMA WriteCabInv ==
  ASSUME Inv, WriteCab
  PROVE  Inv'
  <1>1. /\ Running /\ dir # NULL
        /\ dir' = NULL /\ infs' = {} /\ cab' = NULL /\ list' = NoFiles
        /\ run' = run /\ library' = library /\ phase' = phase /\ todo' = todo /\ toCopy' = toCopy
    BY DEF WriteCab, LeaveDir
  <1>2. dir \in DOMAIN DirOf
    BY <1>1 DEF Inv, Stages
  <1>3. ListFits(dir, list) /\ CabToCome(Out)
    BY <1>1 DEF Inv, InDir
  <1>4. Sound(run, Out) /\ Packed(run, dir, Out) /\ run \in Nat /\ Extends(Out, Out) /\ Whole(Out, Out)
    BY <1>1, OutIs
  <1>5. Stages'
    BY <1>1 DEF Inv, Stages, Running
  <1>6. InDir'
    BY <1>1 DEF InDir
  <1>7. CASE cab = NULL
    <2>1. int' = int /\ ndis2' = ndis2
      BY <1>7 DEF WriteCab
    <2>2. SetOut(Out)
      BY <2>1 DEF SetOut, Out
    <2>3. Packed(run, NULL, Out)
      BY <1>3, <1>4, <1>7 DEF Packed, CabToCome
    <2>4. BaseOut' /\ NdisOut'
      BY <1>1, <1>4, <2>2, <2>3, SetOutKeeps
    <2> QED
      BY <1>5, <1>6, <2>4 DEF Inv
  <1>8. CASE cab # NULL
    <2>1. PICK source \in [Refreshed -> DOMAIN Out], empty \in SUBSET Refreshed :
            /\ \A name \in Refreshed : source[name] \in Namesakes(name)
            /\ \A name \in empty : Out[source[name]].kind = "part"
            /\ LET New(file) == CASE Lower(file.name) \in empty -> NULL
                                  [] Lower(file.name) \in Refreshed \ empty ->
                                       Out[source[Lower(file.name)]]
                                  [] OTHER -> file.data
                   files == [k \in DOMAIN list.files |->
                               [list.files[k] EXCEPT !.data = New(list.files[k])]]
               IN SetOut(Put(Out, cab, Cab(dir, files)))
      BY <1>8 DEF WriteCab
    <2> DEFINE New(file) == CASE Lower(file.name) \in empty -> NULL
                              [] Lower(file.name) \in Refreshed \ empty ->
                                   Out[source[Lower(file.name)]]
                              [] OTHER -> file.data
    <2>2. PICK files : files = [k \in DOMAIN list.files |-> [list.files[k] EXCEPT !.data = New(list.files[k])]]
      OBVIOUS
    <2>3. SetOut(Put(Out, cab, Cab(dir, files)))
      BY <2>1, <2>2
    <2>4. ASSUME NEW name \in Refreshed
          PROVE  /\ name.ext = "inf" /\ Out[source[name]] # NULL
                 /\ name \in empty => name \in Broken(Out)
      <3>1. PICK inf \in DirOf[dir].infs : name = Lower(inf.name)
        BY DEF Refreshed
      <3>2. name.ext = "inf"
        BY <1>2, <3>1, InfIs, LowerName
      <3>3. PICK x \in DOMAIN Out : x = source[name] /\ Lower(x) = name
        BY <2>1 DEF Namesakes
      <3>4. x \in Names /\ x.ext = "inf"
        <4>1. x \in Names
          BY <1>4 DEF Sound
        <4> QED
          BY <3>2, <3>3, <4>1 DEF Lower, Names
      <3>5. Out[x] \in InfsPutOut \union Parts
        BY <1>4, <3>4 DEF Sound, SoundInf, Partial
      <3>6. name \in empty => name \in Broken(Out)
        BY <2>1, <3>3 DEF Broken
      <3> QED
        BY <3>2, <3>3, <3>5, <3>6, NullAssumption DEF NullAssumption
    <2>5. \A k \in DOMAIN list.files : list.files[k] \in SourceFiles
      BY <1>3 DEF ListFits, Lists
    <2>6. DOMAIN files = DOMAIN list.files
      BY <2>2
    <2>7. ASSUME NEW k \in DOMAIN files
          PROVE  /\ files[k].name = list.files[k].name
                 /\ \/ files[k].data = list.files[k].data
                    \/ Lower(files[k].name).ext = "inf" /\ files[k].data # NULL
                    \/ Lower(files[k].name) \in Broken(Out) /\ files[k].data = NULL
      <3>1. PICK f \in SourceFiles : f = list.files[k]
        BY <2>5, <2>6
      <3>2. files[k] = [f EXCEPT !.data = New(f)]
        BY <2>2, <2>6, <3>1
      <3>3. files[k].name = f.name /\ files[k].data = New(f)
        BY <3>1, <3>2 DEF SourceFiles
      <3>4. CASE Lower(f.name) \in Refreshed \ empty
        BY <2>4, <3>1, <3>3, <3>4
      <3>5. CASE Lower(f.name) \notin Refreshed
        BY <3>1, <3>3, <3>5
      <3>6. CASE Lower(f.name) \in empty
        BY <2>4, <3>1, <3>3, <3>6
      <3> QED
        BY <3>4, <3>5, <3>6
    <2>8. PICK e : e = Cab(dir, files)
      OBVIOUS
    <2>9. /\ e.run = run /\ e.dir = dir /\ SoundCab(e)
          /\ NamesOf(list) \subseteq DOMAIN e.files \union Win98 \union Broken(Out)
      <3>1. PICK lost : lost = Broken(Out)
        OBVIOUS
      <3>2. \A k \in DOMAIN files :
              /\ files[k].name = list.files[k].name
              /\ \/ files[k].data = list.files[k].data
                 \/ Lower(files[k].name).ext = "inf" /\ files[k].data # NULL
                 \/ Lower(files[k].name) \in lost /\ files[k].data = NULL
        BY <2>7, <3>1
      <3>3. /\ Cab(dir, files).run = run /\ Cab(dir, files).dir = dir /\ SoundCab(Cab(dir, files))
            /\ NamesOf(list) \subseteq DOMAIN Cab(dir, files).files \union Win98 \union lost
        BY <1>2, <1>3, <2>6, <3>2, CabIs
      <3> QED
        BY <2>8, <3>1, <3>3
    <2>10. cab \in Names /\ cab.ext = "cab" /\ cab \notin DOMAIN Out
      BY <1>3, <1>8 DEF CabToCome
    <2>11. PICK new : new = Put(Out, cab, e)
      OBVIOUS
    <2>12. Sound(run, new)
      BY <1>2, <1>4, <2>9, <2>10, <2>11, SoundPut
    <2>13. Packed(run, NULL, new)
      <3>1. \A y \in DOMAIN Out : Out[y].kind = "inf" /\ Out[y].run = run /\ Out[y].dir = dir =>
              Out[y].cab = cab /\ Out[y].files \subseteq DOMAIN e.files \union Win98 \union Broken(Out)
        BY <1>3, <2>9 DEF CabToCome
      <3>2. e.kind = "cab"
        BY <2>9 DEF SoundCab
      <3> QED
        BY <1>4, <2>9, <2>10, <2>11, <3>1, <3>2, PackedCab
    <2>14. Extends(Out, new) /\ Whole(Out, new)
      BY <2>9, <2>11 DEF Put, Extends, Whole, SoundCab
    <2>15. SetOut(new)
      BY <2>3, <2>8, <2>11
    <2>16. BaseOut' /\ NdisOut'
      BY <1>1, <2>12, <2>13, <2>14, <2>15, SetOutKeeps
    <2> QED
      BY <1>5, <1>6, <2>16 DEF Inv
  <1> QED
    BY <1>7, <1>8
\* What is being written has a name that is not taken.
LEMMA BeingWrittenIs ==
  ASSUME Inv, NEW name \in BeingWritten
  PROVE  name \in Names /\ name \notin DOMAIN Out
  <1>1. Running /\ dir # NULL
    BY DEF BeingWritten
  <1>2. CASE infs # {}
    <2>1. PICK inf \in infs : name = UniqueFilename(Out, inf.name)
      BY <1>1, <1>2 DEF BeingWritten
    <2>2. inf.name \in Names
      <3>1. dir \in DOMAIN DirOf /\ inf \in DirOf[dir].infs
        BY <1>1 DEF Inv, Stages
      <3> QED
        BY <3>1, InfIs, LowerName
    <2>3. IsFiniteSet(DOMAIN Out)
      BY <1>1, OutIs DEF Sound
    <2> QED
      BY <2>1, <2>2, <2>3, UniqueIsFree
  <1>3. CASE infs = {}
    <2>1. cab # NULL /\ name = cab
      BY <1>1, <1>3 DEF BeingWritten
    <2> QED
      BY <1>1, <2>1 DEF Inv, InDir, CabToCome
  <1> QED
    BY <1>2, <1>3

LEMMA PreprocessNdisInv ==
  ASSUME Inv, PreprocessNdis
  PROVE  Inv'
  <1>1. /\ phase = "base" /\ dir = NULL /\ toCopy = {}
        /\ run' = run /\ library' = library /\ dir' = dir /\ infs' = infs /\ cab' = cab
        /\ list' = list /\ int' = int /\ todo' = todo
    BY DEF PreprocessNdis, Inv, Stages, Running
  <1>2. InDir'
    BY <1>1 DEF InDir
  <1>3. BaseOut' /\ Stages'
    <2>1. \/ phase' = "final" /\ toCopy' = toCopy
          \/ phase' = "copy" /\ toCopy' = DOMAIN int /\ library.ndis # NULL
      BY DEF PreprocessNdis
    <2> QED
      BY <1>1, <2>1 DEF Inv, BaseOut, Stages, Running
  <1>4. CASE phase' = "final" /\ ndis2' = ndis2 /\ toCopy' = toCopy
    <2>1. NdisOut'
      BY <1>1, <1>4 DEF Inv, NdisOut
    <2> QED
      BY <1>2, <1>3, <2>1 DEF Inv
  <1>5. CASE /\ phase' = "copy" /\ toCopy' = DOMAIN int
             /\ ndis2' = IF ndis2 = NULL THEN Empty ELSE ndis2
    <2>1. PICK old : old = ndis2'
      OBVIOUS
    <2>2. Sound(run, old) /\ \A x \in DOMAIN old : old[x].run # run
      BY <1>1, <1>5, <2>1, NothingPutOut DEF Inv, NdisOut
    <2>3. PackedBut(run, NULL, DOMAIN int, old)
      BY <2>2 DEF PackedBut
    <2>4. NdisOut'
      BY <1>1, <1>5, <2>1, <2>2, <2>3 DEF NdisOut
    <2> QED
      BY <1>2, <1>3, <2>4 DEF Inv
  <1> QED
    BY <1>4, <1>5 DEF PreprocessNdis

\* One file more is copied; the INF files whose CAB has come have it now.
LEMMA CopyFileInv ==
  ASSUME Inv, NEW name \in toCopy, CopyFile(name)
  PROVE  Inv'
  <1>1. /\ phase = "copy" /\ dir = NULL /\ name \in DOMAIN int /\ toCopy \subseteq DOMAIN int
        /\ run \in Nat /\ library.ndis # NULL
        /\ run' = run /\ library' = library /\ phase' = phase /\ todo' = todo /\ dir' = dir
        /\ infs' = infs /\ cab' = cab /\ list' = list /\ int' = int
        /\ toCopy' = toCopy \ {name}
    BY DEF CopyFile, Inv, Stages
  <1>2. PICK new : new = Put(ndis2, name, int[name])
    OBVIOUS
  <1>3. ndis2' = new
    BY <1>2 DEF CopyFile
  <1>4. /\ DOMAIN new = DOMAIN ndis2 \union {name} /\ new[name] = int[name]
        /\ \A x \in DOMAIN ndis2 : x # name => new[x] = ndis2[x]
    BY <1>2 DEF Put
  <1>5. /\ Sound(run, int) /\ Packed(run, NULL, int)
        /\ \A x \in DOMAIN int : int[x].run = run /\ int[x].kind # "part"
    BY <1>1 DEF Inv, BaseOut
  <1>6. /\ Sound(run, ndis2)
        /\ \A x \in DOMAIN ndis2 : ndis2[x].run = run => x \in DOMAIN int \ toCopy
        /\ \A x \in DOMAIN int \ toCopy : x \in DOMAIN ndis2 /\ ndis2[x] = int[x]
    BY <1>1 DEF Inv, NdisOut
  <1>7. Sound(run, new)
    <2>1. PICK e : e = int[name]
      OBVIOUS
    <2>2. /\ name \in Names /\ e.run = run /\ e.dir \in DOMAIN DirOf
          /\ name.ext = "inf" => SoundInf(e) \/ Partial(e)
          /\ name.ext # "inf" => SoundCab(e) \/ Partial(e)
      BY <1>1, <1>5, <2>1 DEF Sound
    <2> QED
      BY <1>1, <1>2, <1>6, <2>1, <2>2, SoundPut
  <1>8. ASSUME NEW x \in DOMAIN new, new[x].run = run PROVE x \in DOMAIN int \ toCopy'
    BY <1>1, <1>4, <1>6, <1>8
  <1>9. ASSUME NEW x \in DOMAIN int \ toCopy' PROVE x \in DOMAIN new /\ new[x] = int[x]
    BY <1>1, <1>4, <1>6, <1>9
  <1>10. PackedBut(run, NULL, toCopy', new)
    <2> SUFFICES ASSUME NEW x \in DOMAIN new, new[x].kind = "inf", new[x].run = run, new[x].dir # NULL,
                        new[x].cab \notin toCopy'
                 PROVE  HasCab(run, new, new[x])
      BY DEF PackedBut
    <2>1. x \in DOMAIN int /\ new[x] = int[x]
      BY <1>8, <1>9
    <2>2. HasCab(run, int, new[x])
      BY <1>5, <2>1 DEF Packed
    <2>3. new[x].cab \in DOMAIN new /\ new[new[x].cab] = int[new[x].cab]
      BY <1>9, <2>2 DEF HasCab
    <2>4. Broken(int) = {}
      BY <1>5 DEF Broken
    <2> QED
      BY <2>2, <2>3, <2>4 DEF HasCab
  <1>11. NdisOut'
    BY <1>1, <1>3, <1>7, <1>8, <1>9, <1>10 DEF NdisOut
  <1>12. Stages' /\ BaseOut' /\ InDir'
    BY <1>1 DEF Inv, Stages, BaseOut, InDir, Running
  <1> QED
    BY <1>11, <1>12 DEF Inv

LEMMA CopyDoneInv ==
  ASSUME Inv, CopyDone
  PROVE  Inv'
  <1>1. /\ phase = "copy" /\ toCopy = {} /\ dir = NULL /\ library.ndis # NULL
        /\ run' = run /\ library' = library /\ phase' = "ndis" /\ todo' = library.ndis
        /\ dir' = dir /\ infs' = infs /\ cab' = cab /\ list' = list
        /\ int' = int /\ ndis2' = ndis2 /\ toCopy' = toCopy
    BY DEF CopyDone, Inv, Stages
  <1>2. Stages'
    BY <1>1 DEF Inv, Stages, Running
  <1>3. BaseOut'
    BY <1>1 DEF Inv, BaseOut
  <1>4. \A x \in DOMAIN ndis2 : ndis2[x].run = run => ndis2[x].dir \notin library.ndis
    <2>1. library.base \intersect library.ndis = {}
      BY <1>1 DEF Inv, Stages
    <2>2. ASSUME NEW x \in DOMAIN ndis2, ndis2[x].run = run PROVE ndis2[x].dir \in library.base
      <3>1. x \in DOMAIN int /\ ndis2[x] = int[x]
        BY <1>1, <2>2 DEF Inv, NdisOut
      <3> QED
        BY <1>1, <3>1 DEF Inv, BaseOut
    <2> QED
      BY <2>1, <2>2
  <1>5. NdisOut'
    BY <1>1, <1>4 DEF Inv, NdisOut
  <1>6. InDir'
    BY <1>1 DEF InDir
  <1> QED
    BY <1>2, <1>3, <1>5, <1>6 DEF Inv

\* A file that is there in part hurts no INF that is whole.
LEMMA InterruptInv ==
  ASSUME Inv, Interrupt
  PROVE  Inv'
  <1>1. /\ run' = run /\ library' = library /\ phase' = "failed" /\ todo' = todo /\ dir' = dir
        /\ infs' = infs /\ cab' = cab /\ list' = list /\ toCopy' = toCopy
        /\ run \in Nat
    BY DEF Interrupt, Inv, Stages
  <1>2. Stages' /\ InDir'
    BY <1>1 DEF Inv, Stages, InDir, Running
  <1>3. CASE int' = int /\ ndis2' = ndis2
    <2>1. BaseOut'
      BY <1>1, <1>3 DEF Inv, BaseOut
    <2>2. NdisOut'
      BY <1>1, <1>3 DEF Inv, NdisOut
    <2> QED
      BY <1>2, <2>1, <2>2 DEF Inv
  <1>4. ASSUME NEW name \in BeingWritten, SetOut(Put(Out, name, Part(dir))) PROVE Inv'
    <2>1. PICK e : e = Part(dir)
      OBVIOUS
    <2>2. PICK new : new = Put(Out, name, e)
      OBVIOUS
    <2>3. Running /\ dir # NULL
      BY DEF BeingWritten
    <2>4. dir \in DOMAIN DirOf
      BY <2>3 DEF Inv, Stages
    <2>5. Sound(run, Out) /\ Packed(run, dir, Out)
      BY <2>3, OutIs
    <2>6. name \in Names /\ name \notin DOMAIN Out
      BY <2>3, BeingWrittenIs
    <2>7. e.run = run /\ e.dir = dir /\ Partial(e)
      BY <1>1, <2>1, <2>4 DEF Part, Partial, Parts
    <2>8. Sound(run, new)
      BY <1>1, <2>2, <2>4, <2>5, <2>6, <2>7, SoundPut
    <2>9. Packed(run, dir, new)
      BY <2>2, <2>5, <2>6, <2>7, PackedPut
    <2>10. Extends(Out, new)
      BY <2>2, <2>7 DEF Put, Extends
    <2>11. SetOut(new)
      BY <1>4, <2>1, <2>2
    <2>12. BaseOut' /\ NdisOut'
      <3>1. phase' # phase /\ phase' \in {phase, "failed"} /\ dir' \in {dir, NULL}
        BY <1>1, <2>3 DEF Running
      <3> QED
        BY <1>1, <2>3, <2>8, <2>9, <2>10, <2>11, <3>1, SetOutKeeps
    <2> QED
      BY <1>2, <2>12 DEF Inv
  <1>5. ASSUME phase = "copy", NEW names \in SUBSET toCopy, ndis2' = HalfCopied(names), int' = int
        PROVE  Inv'
    <2>1. PICK new : new = ndis2'
      OBVIOUS
    <2>2. /\ DOMAIN new = DOMAIN ndis2 \union names
          /\ \A x \in names : new[x] = Part(int[x].dir)
          /\ \A x \in DOMAIN ndis2 : x \notin names => new[x] = ndis2[x]
      BY <1>5, <2>1 DEF HalfCopied
    <2>3. /\ dir = NULL /\ toCopy \subseteq DOMAIN int /\ Sound(run, int)
          /\ Sound(run, ndis2) /\ PackedBut(run, dir, toCopy, ndis2)
      BY <1>5 DEF Inv, Stages, BaseOut, NdisOut
    <2>4. ASSUME NEW x \in names
          PROVE  /\ x \in Names /\ Partial(new[x]) /\ new[x].run = run /\ new[x].dir \in DOMAIN DirOf
                 /\ new[x].kind = "part"
      <3>1. x \in Names /\ int[x].dir \in DOMAIN DirOf
        BY <2>3 DEF Sound
      <3>2. PICK d \in DOMAIN DirOf : d = int[x].dir
        BY <3>1
      <3>3. new[x] = [kind |-> "part", run |-> run, dir |-> d]
        BY <2>2, <3>2 DEF Part
      <3> QED
        BY <1>1, <3>1, <3>3 DEF Partial, Parts
    <2>5. Sound(run, new)
      <3>1. IsFiniteSet(DOMAIN new)
        <4>1. IsFiniteSet(DOMAIN ndis2) /\ IsFiniteSet(DOMAIN int) /\ names \subseteq DOMAIN int
          BY <2>3 DEF Sound
        <4>2. IsFiniteSet(names)
          BY <4>1, FS_Subset
        <4>3. IsFiniteSet(DOMAIN ndis2 \union names)
          BY ONLY <4>1, <4>2, FS_Union
        <4> QED
          BY <2>2, <4>3
      <3>2. DOMAIN new \subseteq Names
        BY <2>2, <2>3, <2>4 DEF Sound
      <3>3. ASSUME NEW x \in DOMAIN new
            PROVE  /\ new[x].run \in Nat /\ new[x].run <= run /\ new[x].dir \in DOMAIN DirOf
                   /\ x.ext = "inf" => SoundInf(new[x]) \/ Partial(new[x])
                   /\ x.ext # "inf" => SoundCab(new[x]) \/ Partial(new[x])
        <4>1. CASE x \in names
          BY <1>1, <2>4, <4>1
        <4>2. CASE x \notin names
          BY <2>2, <2>3, <4>2 DEF Sound
        <4> QED
          BY <4>1, <4>2
      <3> QED
        BY <3>1, <3>2, <3>3 DEF Sound
    <2>6. PackedBut(run, NULL, toCopy, new)
      <3> SUFFICES ASSUME NEW x \in DOMAIN new, new[x].kind = "inf", new[x].run = run,
                          new[x].dir # NULL, new[x].cab \notin toCopy
                   PROVE  HasCab(run, new, new[x])
        BY DEF PackedBut
      <3>1. x \notin names
        BY <2>4
      <3>2. x \in DOMAIN ndis2 /\ new[x] = ndis2[x]
        BY <2>2, <3>1
      <3>3. HasCab(run, ndis2, new[x])
        BY <2>3, <3>2 DEF PackedBut
      <3>4. new[x].cab \in DOMAIN new /\ new[new[x].cab] = ndis2[new[x].cab]
        BY <2>2, <3>3 DEF HasCab
      <3>5. Broken(ndis2) \subseteq Broken(new)
        BY <2>2, <2>4 DEF Broken
      <3> QED
        BY <3>3, <3>4, <3>5 DEF HasCab
    <2>7. NdisOut'
      BY <1>1, <2>1, <2>3, <2>5, <2>6 DEF NdisOut
    <2>8. BaseOut'
      BY <1>1, <1>5 DEF Inv, BaseOut
    <2> QED
      BY <1>2, <2>7, <2>8 DEF Inv
  <1> QED
    BY <1>3, <1>4, <1>5 DEF Interrupt

\* A step to a stage in which nothing is packed, and the stuttering step.
LEMMA StageInv ==
  ASSUME Inv, phase \in {"ndis", "final"}, phase' \in {"idle", "final"},
         UNCHANGED <<run, library, todo, dir, infs, cab, list, int, ndis2, toCopy>>
  PROVE  Inv'
  <1>1. Stages'
    BY DEF Inv, Stages, Running
  <1>2. BaseOut'
    BY DEF Inv, BaseOut
  <1>3. NdisOut'
    BY DEF Inv, NdisOut
  <1>4. InDir'
    BY DEF InDir, Running
  <1> QED
    BY <1>1, <1>2, <1>3, <1>4 DEF Inv

LEMMA StutterInv ==
  ASSUME Inv, UNCHANGED vars
  PROVE  Inv'
  <1>1. Stages'
    BY DEF vars, Inv, Stages, Running
  <1>2. BaseOut'
    BY DEF vars, Inv, BaseOut
  <1>3. NdisOut'
    BY DEF vars, Inv, NdisOut
  <1>4. InDir'
    <2>1. Out' = Out
      BY DEF vars, Out
    <2>2. CabToCome(Out)' <=> CabToCome(Out)
      BY <2>1 DEF vars, CabToCome
    <2>3. ListFits(dir, list)' <=> ListFits(dir, list)
      BY DEF vars
    <2> QED
      BY <2>2, <2>3 DEF vars, Inv, InDir, Running
  <1> QED
    BY <1>1, <1>2, <1>3, <1>4 DEF Inv

\* What is in the output directories, in the list and in the CAB's name always
\* fits together, whatever the drivers are and wherever a run breaks off.
THEOREM SpecInv == Spec => []Inv
  <1>1. Inv /\ [Next]_vars => Inv'
    <2> SUFFICES ASSUME Inv, [Next]_vars PROVE Inv'
      OBVIOUS
    <2>1. ASSUME NEW l \in Libraries, Start(l) PROVE Inv'
      BY <2>1, StartInv
    <2>2. ASSUME NEW d \in DOMAIN DirOf, EnterDir(d) PROVE Inv'
      BY <2>2, EnterDirInv
    <2>3. ASSUME NEW inf \in infs, HandleInf(inf) PROVE Inv'
      BY <2>3, HandleInfInv
    <2>4. CASE WriteCab
      BY <2>4, WriteCabInv
    <2>5. CASE PreprocessNdis
      BY <2>5, PreprocessNdisInv
    <2>6. CASE NdisDone
      BY <2>6, StageInv DEF NdisDone
    <2>7. ASSUME NEW isMe \in BOOLEAN, Finalize(isMe) PROVE Inv'
      BY <2>7, StageInv DEF Finalize
    <2>8. CASE Interrupt
      BY <2>8, InterruptInv
    <2>10. ASSUME NEW name \in toCopy, CopyFile(name) PROVE Inv'
      BY <2>10, CopyFileInv
    <2>11. CASE CopyDone
      BY <2>11, CopyDoneInv
    <2>9. CASE UNCHANGED vars
      BY <2>9, StutterInv
    <2> QED
      BY <2>1, <2>2, <2>3, <2>4, <2>5, <2>6, <2>7, <2>8, <2>9, <2>10, <2>11 DEF Next
  <1> QED
    BY InitInv, <1>1, PTL DEF Spec

(***************************************************************************)
(* What follows.                                                           *)
(***************************************************************************)
LEMMA OutputsAre ==
  ASSUME Inv, NEW out \in Outputs
  PROVE  /\ Sound(run, out)
         /\ \/ out = ndis2 /\ PackedBut(run, dir, toCopy, out)
            \/ Packed(run, dir, out)
  BY DEF Outputs, Inv, BaseOut, NdisOut

\* Once a directory is done, each of its INF files has the CAB that it names,
\* with every file the original mentions that Windows does not bring along,
\* however many runs were made before and wherever they were interrupted.
THEOREM SpecFilesComplete == Spec => []FilesComplete
  <1>1. Inv => FilesComplete
    <2> SUFFICES ASSUME Inv PROVE FilesPacked /\ FilesListed
      BY DEF FilesComplete
    <2>1. FilesPacked
      <3> SUFFICES ASSUME NEW out \in Outputs, NEW name \in DOMAIN out,
                          out[name].kind = "inf", out[name].run = run, out[name].dir # dir,
                          ~(out = ndis2 /\ out[name].cab \in toCopy)
                   PROVE  /\ out[name].cab \in DOMAIN out
                          /\ out[out[name].cab].run = run /\ out[out[name].cab].dir = out[name].dir
                          /\ out[name].files \subseteq DOMAIN out[out[name].cab].files \union Win98
                               \union Broken(out)
        BY DEF FilesPacked
      <3>1. HasCab(run, out, out[name])
        BY OutputsAre DEF Packed, PackedBut
      <3> QED
        BY <3>1 DEF HasCab
    <2>2. FilesListed
      <3> SUFFICES ASSUME NEW out \in Outputs, NEW name \in DOMAIN out, out[name].kind = "inf",
                          NEW inf \in DirOf[out[name].dir].infs, inf.name = out[name].inf
                   PROVE  out[name].files = Mentioned(inf)
        BY DEF FilesListed
      <3>1. SoundInf(out[name])
        BY OutputsAre DEF Sound, SoundCab, Partial
      <3> QED
        BY <3>1 DEF SoundInf, Listed
    <2> QED
      BY <2>1, <2>2
  <1> QED
    BY SpecInv, <1>1, PTL

\* Every packed file is the one that an INF of its own directory designates.
THEOREM SpecPackedAsDesignated == Spec => []PackedAsDesignated
  <1>1. Inv => PackedAsDesignated
    <2> SUFFICES ASSUME Inv, NEW out \in Outputs, NEW name \in DOMAIN out, out[name].kind = "cab",
                        NEW file \in {x \in DOMAIN out[name].files : x.ext # "inf"}
                 PROVE  LET data == out[name].files[file] IN
                        /\ data.dir = out[name].dir /\ data.name = file
                        /\ \E inf \in DirOf[data.dir].infs :
                             LET given == {k \in DOMAIN inf.disks : Lower(inf.disks[k].name) = file /\ inf.disks[k].sub # ""}
                                 sub   == IF given = {} THEN "" ELSE inf.disks[Min(given)].sub
                             IN  /\ file \in Mentioned(inf)
                                 /\ data.sub = sub \/ ~\E f \in DirOf[data.dir].files :
                                                        f.sub = sub /\ f.name = file /\ f.form = "plain"
      BY DEF PackedAsDesignated
    <2> DEFINE data == out[name].files[file]
    <2>1. SoundCab(out[name])
      BY OutputsAre DEF Sound, SoundInf, Partial
    <2>2. Designated(out[name].dir, file, data)
      BY <2>1 DEF SoundCab, AllDesignated
    <2>3. data.dir = out[name].dir /\ data.name = file
      BY <2>2 DEF Designated
    <2>4. PICK inf \in DirOf[data.dir].infs :
            /\ file \in Mentioned(inf)
            /\ data.sub = Given(inf, file) \/ NoPlain(data.dir, Given(inf, file), file)
      BY <2>2, <2>3 DEF Designated
    <2> QED
      BY <2>3, <2>4 DEF Given, NoPlain
  <1> QED
    BY SpecInv, <1>1, PTL

\* Whatever a run has put out stays as it is until the next run starts: no
\* name is given twice, and the CAB replaces nothing.
THEOREM SpecNothingOverwritten == Spec => NothingOverwritten
  <1> DEFINE Keeps == run' = run =>
        /\ \A name \in DOMAIN int : name \in DOMAIN int' /\ int'[name] = int[name]
        /\ ndis2 # NULL =>
             \A name \in DOMAIN ndis2 :
               ndis2[name].run = run => name \in DOMAIN ndis2' /\ ndis2'[name] = ndis2[name]
  <1>1. Inv /\ [Next]_vars => [Keeps]_vars
    <2> SUFFICES ASSUME Inv, Next, run' = run PROVE Keeps
      BY DEF vars
    <2>1. ASSUME int' = int, ndis2' = ndis2 PROVE Keeps
      BY <2>1
    <2>2. ASSUME Running, NEW x, x \notin DOMAIN Out, NEW e, SetOut(Put(Out, x, e)) PROVE Keeps
      BY <2>2 DEF SetOut, Put, Out
    <2>3. ASSUME NEW l \in Libraries, Start(l) PROVE Keeps
      BY <2>3 DEF Start, Inv, Stages
    <2>4. ASSUME NEW inf \in infs, HandleInf(inf) PROVE Keeps
      <3>1. inf.name \in Names
        <4>1. dir \in DOMAIN DirOf /\ inf \in DirOf[dir].infs
          BY <2>4 DEF HandleInf, Inv, Stages
        <4> QED
          BY <4>1, InfIs, LowerName
      <3>2. Running
        BY <2>4 DEF HandleInf
      <3>3. UniqueFilename(Out, inf.name) \notin DOMAIN Out
        BY <3>1, <3>2, OutIs, UniqueIsFree DEF Sound
      <3>4. \/ int' = int /\ ndis2' = ndis2
            \/ \E e : SetOut(Put(Out, UniqueFilename(Out, inf.name), e))
        BY <2>4 DEF HandleInf
      <3> QED
        BY <2>1, <2>2, <3>2, <3>3, <3>4
    <2>5. CASE WriteCab
      <3>1. Running /\ dir # NULL
        BY <2>5 DEF WriteCab
      <3>2. cab # NULL => cab \notin DOMAIN Out
        BY <3>1 DEF Inv, InDir, CabToCome
      <3>3. \/ int' = int /\ ndis2' = ndis2
            \/ cab # NULL /\ \E e : SetOut(Put(Out, cab, e))
        BY <2>5 DEF WriteCab
      <3> QED
        BY <2>1, <2>2, <3>1, <3>2, <3>3
    <2>6. CASE PreprocessNdis
      <3>1. phase = "base" /\ int' = int
        BY <2>6 DEF PreprocessNdis
      <3>2. ndis2 # NULL => \A name \in DOMAIN ndis2 : ndis2[name].run # run
        BY <3>1 DEF Inv, NdisOut
      <3> QED
        BY <3>1, <3>2
    <2>7. CASE \/ \E d \in DOMAIN DirOf : EnterDir(d)
               \/ CopyDone \/ NdisDone
               \/ \E isMe \in BOOLEAN : Finalize(isMe)
      BY <2>1, <2>7 DEF EnterDir, CopyDone, NdisDone, Finalize
    <2>8. ASSUME phase = "copy", int' = int, NEW names \in SUBSET toCopy,
                 DOMAIN ndis2 \subseteq DOMAIN ndis2',
                 \A x \in DOMAIN ndis2 \ names : ndis2'[x] = ndis2[x]
          PROVE  Keeps
      <3>1. \A x \in DOMAIN ndis2 : ndis2[x].run = run => x \notin names
        BY <2>8 DEF Inv, NdisOut
      <3> QED
        BY <2>8, <3>1
    <2>9. ASSUME NEW name \in toCopy, CopyFile(name) PROVE Keeps
      <3>1. PICK names \in SUBSET toCopy : names = {name}
        OBVIOUS
      <3>2. phase = "copy" /\ int' = int /\ ndis2' = Put(ndis2, name, int[name])
        BY <2>9 DEF CopyFile
      <3>3. DOMAIN ndis2 \subseteq DOMAIN ndis2' /\ \A x \in DOMAIN ndis2 \ names : ndis2'[x] = ndis2[x]
        BY <3>1, <3>2 DEF Put
      <3> QED
        BY <2>8, <3>2, <3>3
    <2>10. CASE Interrupt
      <3>1. ASSUME NEW name \in BeingWritten, SetOut(Put(Out, name, Part(dir))) PROVE Keeps
        <4>1. Running
          BY <3>1 DEF BeingWritten
        <4>2. name \notin DOMAIN Out
          BY <3>1, BeingWrittenIs
        <4> QED
          BY <2>2, <3>1, <4>1, <4>2
      <3>2. ASSUME phase = "copy", NEW names \in SUBSET toCopy, ndis2' = HalfCopied(names), int' = int
            PROVE  Keeps
        <4>1. DOMAIN ndis2 \subseteq DOMAIN ndis2' /\ \A x \in DOMAIN ndis2 \ names : ndis2'[x] = ndis2[x]
          BY <3>2 DEF HalfCopied
        <4> QED
          BY <2>8, <3>2, <4>1
      <3> QED
        BY <2>1, <2>10, <3>1, <3>2 DEF Interrupt
    <2> QED
      BY <2>3, <2>4, <2>5, <2>6, <2>7, <2>9, <2>10 DEF Next
  <1> QED
    BY SpecInv, <1>1, PTL DEF Spec, NothingOverwritten

\* Windows Me is finalized with .driver_int, which holds base drivers of the
\* run that finalizes it and nothing else.
THEOREM SpecMeGetsBase == Spec => MeGetsBase
  <1> DEFINE Base == medium' # medium /\ medium'.isMe =>
        \A name \in DOMAIN medium'.files :
          medium'.files[name].dir \in library.base /\ medium'.files[name].run = run
  <1>1. Inv /\ [Next]_vars => [Base]_vars
    <2> SUFFICES ASSUME Inv, Next, medium' # medium, medium'.isMe
                 PROVE  \A name \in DOMAIN medium'.files :
                          medium'.files[name].dir \in library.base /\ medium'.files[name].run = run
      BY DEF vars
    <2>1. PICK isMe \in BOOLEAN : Finalize(isMe)
      BY DEF Next, Start, EnterDir, HandleInf, WriteCab, PreprocessNdis, CopyFile, CopyDone, NdisDone, Interrupt
    <2>2. medium' = [isMe |-> isMe, files |-> InputDirectory(isMe)]
      BY <2>1 DEF Finalize
    <2>3. medium'.files = int /\ phase = "final"
      BY <2>1, <2>2 DEF InputDirectory, Finalize
    <2> QED
      BY <2>3 DEF Inv, BaseOut
  <1> QED
    BY SpecInv, <1>1, PTL DEF Spec, MeGetsBase
=============================================================================
