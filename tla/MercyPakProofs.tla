--------------------------- MODULE MercyPakProofs ---------------------------
(***************************************************************************)
(* Theorems about MercyPak, for every tree that is packed and every call   *)
(* that may fail.                                                          *)
(***************************************************************************)
EXTENDS MercyPak, FiniteSetTheorems, WellFoundedInduction, TLAPS

(***************************************************************************)
(* Where the groups of an archive begin and how many files are in those    *)
(* before.                                                                 *)
(***************************************************************************)
Starts(in) ==
  LET start[k \in 0..Len(Groups(in))] ==
        IF k = 0 THEN 1 + Len(in.dirs) ELSE start[k - 1] + Len(Cells(in)[k])
  IN start

Before(in) ==
  LET n[k \in 0..Len(Groups(in))] ==
        IF k = 0 THEN 0 ELSE n[k - 1] + Len(Groups(in)[k].files)
  IN n

(***************************************************************************)
(* Descriptors.                                                            *)
(***************************************************************************)
Used(m, n) == {slots[i] : i \in m..n}

\* The slots m..n are the open descriptors, each a file of its own.
Opened(m, n) ==
  /\ m \in 1..(MaxIdentical + 1) /\ n \in 0..MaxIdentical
  /\ DOMAIN fds = Foreign \union Used(m, n)
  /\ \A i, j \in m..n : slots[i] = slots[j] => i = j
  /\ \A i \in m..n : slots[i] >= 2

StreamInv ==
  /\ input \in Inputs /\ medium = Pack(input)
  /\ rd \in Nat /\ end \in Nat /\ rd <= end /\ end <= Len(medium)
  /\ success \in BOOLEAN /\ failed \in BOOLEAN

FdsInv ==
  /\ slots \in [1..MaxIdentical -> Int]
  /\ DOMAIN fds \subseteq Nat /\ IsFiniteSet(DOMAIN fds)
  /\ pc \in {"header", "dirs", "next", "open", "copy", "copyFailed", "finish",
             "close", "done", "aborted", "hung"}
  /\ pc \in {"header", "dirs"} => success
  /\ pc \in {"header", "dirs"} \/ (pc = "next" /\ (success \/ Version = 1))
       => DOMAIN fds = Foreign
  /\ pc \in {"next", "close"} => DOMAIN fds \subseteq Foreign \union Used(1, MaxIdentical)
  /\ pc = "open" => /\ Version = 2 /\ success
                    /\ count \in 0..MaxIdentical /\ sub \in 0..count
                    /\ Opened(1, sub)
                    /\ \A i \in 1..sub : fds[slots[i]].off = 0
  /\ pc \in {"copy", "copyFailed", "finish"} =>
       /\ count \in 0..MaxIdentical
       /\ Version = 1 => count = 1
  /\ pc \in {"copy", "copyFailed"} => sub = 0 /\ Opened(1, count)
  /\ pc = "copy" => \A i, j \in 1..count : fds[slots[i]].off = fds[slots[j]].off
  /\ pc = "finish" => /\ sub \in 0..(count - 1) /\ Opened(sub + 1, count)
                      /\ Version = 1 \/ success
  /\ pc = "done" => DOMAIN fds \subseteq Foreign

(***************************************************************************)
(* The place in the archive, and what is on the partition then.            *)
(***************************************************************************)
NameOf(in, k, i) == Groups(in)[k].files[i].name

NamesIn(in, k, n) == {NameOf(in, k, i) : i \in 1..n}
NamesUpTo(in, k) == UNION {NamesIn(in, g, Len(Groups(in)[g].files)) : g \in 1..k}

\* No file of the name of file i of group g comes after it, up to group k.
LastOne(in, k, g, i) ==
  \A h \in g..k : \A j \in DOMAIN Groups(in)[h].files :
    h > g \/ j > i => NameOf(in, h, j) # NameOf(in, g, i)

IsPacked(in, files, g, i) ==
  files[NameOf(in, g, i)] =
    [data |-> Groups(in)[g].data, meta |-> Groups(in)[g].files[i].meta]

\* The partition holds the first k groups.
Holds(in, files, k) ==
  /\ DOMAIN files = NamesUpTo(in, k)
  /\ \A g \in 1..k : \A i \in DOMAIN Groups(in)[g].files :
       LastOne(in, k, g, i) => IsPacked(in, files, g, i)

\* The partition holds the groups before k, and of k the files up to n with
\* the data up to off; of these m have their time and attributes.
Partly(in, files, k, n, m, off) ==
  /\ DOMAIN files = NamesUpTo(in, k - 1) \union NamesIn(in, k, n)
  /\ \A g \in 1..(k - 1) : \A i \in DOMAIN Groups(in)[g].files :
       LastOne(in, k - 1, g, i) /\ NameOf(in, g, i) \notin NamesIn(in, k, n)
         => IsPacked(in, files, g, i)
  /\ \A i \in 1..n : files[NameOf(in, k, i)].data = SubSeq(Groups(in)[k].data, 1, off)
  /\ \A i \in 1..m : (\A j \in (i + 1)..m : NameOf(in, k, j) # NameOf(in, k, i)) =>
       files[NameOf(in, k, i)].meta = Groups(in)[k].files[i].meta

\* The slots from m to n are those of group k.
SlotsOf(k, m, n) ==
  \A i \in m..n : /\ fds[slots[i]].name = NameOf(input, k, i)
                  /\ heads[i][1] = Groups(input)[k].files[i].meta

\* The unpacker is in group k, which ends in the given number of cells.
InGroup(k, ahead) ==
  /\ k \in 1..Len(Groups(input))
  /\ ~garbled
  /\ rd = Starts(input)[k] - ahead
  /\ f = Before(input)[k - 1]
  /\ count = Len(Groups(input)[k].files)

AtOpen(k) ==
  /\ InGroup(k, 1 + 2 * (count - sub) + Len(Groups(input)[k].data))
  /\ SlotsOf(k, 1, sub)
  /\ Partly(input, disk, k, sub, 0, 0)

AtCopy(k) ==
  /\ InGroup(k, left)
  /\ left \in 0..Len(Groups(input)[k].data)
  /\ SlotsOf(k, 1, count)
  /\ \A i \in 1..count : fds[slots[i]].off = Len(Groups(input)[k].data) - left
  /\ Partly(input, disk, k, count, 0, Len(Groups(input)[k].data) - left)

AtFinish(k) ==
  /\ InGroup(k, 0)
  /\ SlotsOf(k, sub + 1, count)
  /\ Partly(input, disk, k, count, sub, Len(Groups(input)[k].data))

AtNext(k) ==
  /\ k \in 0..Len(Groups(input))
  /\ ~garbled
  /\ rd = Starts(input)[k]
  /\ f = Before(input)[k]
  /\ Holds(input, disk, k)

AtDirs ==
  /\ d \in 0..DirCount /\ f = 0 /\ DOMAIN disk = {}
  /\ pc = "header" => rd = 0 /\ d = 0 /\ ~garbled /\ end = Len(medium)
  /\ pc = "dirs" /\ end = Len(medium) => ~garbled /\ rd = 1 + d

EmptyEnd == Last(medium).kind # "byte"

\* What is left of a success when the last file is empty.
AtEmptyEnd ==
  /\ EmptyEnd
  /\ pc \in {"copyFailed", "finish"} => f + count = FileCount
  /\ pc = "next" => f = FileCount
  /\ pc \in {"copyFailed", "finish", "next", "close", "done"}

\* Slots have heads, and files data, and time and attributes.
ShapeInv ==
  /\ DOMAIN heads = 1..MaxIdentical
  /\ \A n \in DOMAIN disk : disk[n] = [data |-> disk[n].data, meta |-> disk[n].meta]

AtPlace ==
  /\ pc = "next" => \E k \in 0..Len(Groups(input)) : AtNext(k)
  /\ pc = "open" => \E k \in 1..Len(Groups(input)) : AtOpen(k)
  /\ pc = "copy" => \E k \in 1..Len(Groups(input)) : AtCopy(k)
  /\ pc = "finish" => \E k \in 1..Len(Groups(input)) : AtFinish(k)
  /\ pc = "done" => Holds(input, disk, Len(Groups(input)))

\* What a failure, or a read error that was cancelled, leads to.
FaultInv ==
  /\ success /\ end # Len(medium) => warned \/ pc \in {"copyFailed", "hung"}
  /\ ~failed => /\ end = Len(medium)
                /\ pc \notin {"aborted", "hung"}
                /\ ~success \/ pc = "copyFailed" => AtEmptyEnd
  /\ Version = 2 /\ pc = "copy" /\ end = Len(medium) => success
  /\ pc = "hung" => Version = 1
  /\ success => pc # "close"

PlaceInv ==
  /\ ShapeInv
  /\ pc \in {"header", "dirs"} => AtDirs
  /\ success /\ end = Len(medium) => AtPlace
  /\ FaultInv


(***************************************************************************)
(* Induction.  The naturals are well founded, so that what holds of the    *)
(* first argument of a recursive function and passes on from one argument  *)
(* to the next holds of all of them; and a function that is defined by     *)
(* recursion exists.                                                       *)
(***************************************************************************)
\* A set of naturals has a least element.
LEMMA LeastNat ==
  ASSUME NEW T, T \subseteq Nat, T # {}
  PROVE  \E x \in T : \A y \in T : x <= y
  <1> DEFINE R == OpToRel(<, Nat)
  <1>1. IsWellFoundedOn(R, Nat)
    BY NatLessThanWellFounded
  <1>2. \A x, y \in Nat : <<x, y>> \in R <=> x < y
    BY DEF OpToRel
  <1> HIDE DEF R
  <1>3. PICK x \in T : \A y \in T : ~ (<<y, x>> \in R)
    BY <1>1, WFMin
  <1>4. ASSUME NEW y \in T PROVE x <= y
    <2>1. x \in Nat /\ y \in Nat /\ ~(y < x)
      BY <1>2, <1>3
    <2> QED
      BY <2>1
  <1> QED
    BY <1>4

\* Induction, with a set for what is to hold.
LEMMA NatInd ==
  ASSUME NEW T, 0 \in T, \A n \in Nat : n \in T => n + 1 \in T
  PROVE  Nat \subseteq T
  <1> SUFFICES ASSUME Nat \ T # {} PROVE FALSE
    OBVIOUS
  <1>1. PICK x \in Nat \ T : \A y \in Nat \ T : x <= y
    BY LeastNat
  <1>2. x # 0 /\ x - 1 \in Nat /\ x - 1 < x
    BY <1>1
  <1>3. x - 1 \in T
    BY <1>1, <1>2
  <1> QED
    BY <1>2, <1>3

\* The same up to a bound.
LEMMA UpToInd ==
  ASSUME NEW N \in Nat, NEW T, 0 \in T,
         \A k \in 1..N : k - 1 \in T => k \in T
  PROVE  0..N \subseteq T
  <1> DEFINE U == {k \in Nat : k <= N => k \in T}
  <1>1. 0 \in U
    OBVIOUS
  <1>2. ASSUME NEW n \in Nat, n \in U PROVE n + 1 \in U
    <2> SUFFICES ASSUME n + 1 <= N PROVE n + 1 \in T
      OBVIOUS
    <2>1. n + 1 \in 1..N /\ (n + 1) - 1 = n /\ n \in T
      BY <1>2
    <2> QED
      BY <2>1
  <1> HIDE DEF U
  <1>3. Nat \subseteq U
    BY <1>1, <1>2, NatInd
  <1> QED
    BY <1>3 DEF U

\* g is defined up to n by recursion, from c with the function D of the value
\* before and the argument.
IsRecursive(g, n, c, D) ==
  g[0] = c /\ \A i \in 1..n : g[i] = D[<<g[i - 1], i>>]

\* Such a function exists and has the right type.
LEMMA RecursiveExists ==
  ASSUME NEW V, NEW c \in V, NEW D \in [V \X Nat -> V], NEW n \in Nat
  PROVE  \E g \in [0..n -> V] : IsRecursive(g, n, c, D)
  <1> DEFINE T == {m \in 0..n : \E g \in [0..m -> V] : IsRecursive(g, m, c, D)}
  <1>1. 0 \in T
    <2> DEFINE g == [i \in 0..0 |-> c]
    <2>1. g \in [0..0 -> V] /\ g[0] = c
      OBVIOUS
    <2> HIDE DEF g
    <2>2. \A i \in 1..0 : g[i] = D[<<g[i - 1], i>>]
      OBVIOUS
    <2>3. IsRecursive(g, 0, c, D)
      BY <2>1, <2>2 DEF IsRecursive
    <2> QED
      BY <2>1, <2>3
  <1>2. ASSUME NEW m \in 1..n, m - 1 \in T PROVE m \in T
    <2>1. PICK g \in [0..(m - 1) -> V] : IsRecursive(g, m - 1, c, D)
      BY <1>2
    <2> DEFINE k == m - 1
    <2>2. k \in Nat /\ m = k + 1 /\ m \in Nat
      OBVIOUS
    <2> HIDE DEF k
    <2>3. g \in [0..k -> V] /\ IsRecursive(g, k, c, D)
      BY <2>1 DEF k
    <2>4. g[0] = c /\ \A i \in 1..k : g[i] = D[<<g[i - 1], i>>]
      BY <2>2, <2>3 DEF IsRecursive
    <2>5. D[<<g[k], m>>] \in V
      BY <2>2, <2>3
    <2> DEFINE h == [i \in 0..m |-> IF i = m THEN D[<<g[k], m>>] ELSE g[i]]
    <2>6. h \in [0..m -> V]
      BY <2>2, <2>3, <2>5
    <2>7. h[0] = c
      BY <2>2, <2>4
    <2>8. ASSUME NEW i \in 1..m PROVE h[i] = D[<<h[i - 1], i>>]
      <3>1. h[i - 1] = g[i - 1]
        BY <2>2
      <3>2. CASE i = m
        <4>1. h[i] = D[<<g[k], m>>] /\ i - 1 = k
          BY <3>2, <2>2
        <4> QED
          BY <3>1, <3>2, <4>1
      <3>3. CASE i # m
        <4>1. i \in 1..k /\ h[i] = g[i]
          BY <3>3, <2>2
        <4>2. g[i] = D[<<g[i - 1], i>>]
          BY <4>1, <2>4
        <4> QED
          BY <4>1, <3>1, <4>2
      <3> QED
        BY <3>2, <3>3
    <2> HIDE DEF h
    <2>9. IsRecursive(h, m, c, D)
      BY <2>7, <2>8 DEF IsRecursive
    <2> QED
      BY <2>6, <2>9
  <1> HIDE DEF T
  <1>3. n \in T
    BY <1>1, <1>2, UpToInd
  <1> QED
    BY <1>3 DEF T

FlattenUpTo(seqs) ==
  LET flatten[i \in 1..Len(seqs)] == IF i = 1 THEN seqs[i] ELSE flatten[i-1] \o seqs[i]
  IN flatten

(***************************************************************************)
(* Sequences of sequences.  FlattenSeq puts every one of them behind those *)
(* before it.                                                              *)
(***************************************************************************)
LEMMA FlattenIsLast ==
  ASSUME NEW seqs, Len(seqs) # 0
  PROVE FlattenSeq(seqs) = FlattenUpTo(seqs)[Len(seqs)]
  BY DEF FlattenSeq, FlattenUpTo

\* The steps of FlattenSeq, for sequences of sequences of S.
LEMMA FlattenSteps ==
  ASSUME NEW S, NEW seqs \in Seq(Seq(S))
  PROVE /\ FlattenUpTo(seqs) \in [1..Len(seqs) -> Seq(S)]
        /\ \A i \in 1..Len(seqs) : FlattenUpTo(seqs)[i] = IF i = 1 THEN seqs[i] ELSE FlattenUpTo(seqs)[i-1] \o seqs[i]
  <1> DEFINE N == Len(seqs)
             D == [p \in Seq(S) \X Nat |-> IF p[2] \in 2..N THEN p[1] \o seqs[p[2]] ELSE IF p[2] \in 1..N THEN seqs[p[2]] ELSE << >>]
  <1>0. N \in Nat /\ \A i \in 1..N : seqs[i] \in Seq(S)
    OBVIOUS
  <1> HIDE DEF N
  <1>1. D \in [Seq(S) \X Nat -> Seq(S)]
    <2> SUFFICES ASSUME NEW p \in Seq(S) \X Nat PROVE (IF p[2] \in 2..N THEN p[1] \o seqs[p[2]] ELSE IF p[2] \in 1..N THEN seqs[p[2]] ELSE << >>) \in Seq(S)
      OBVIOUS
    <2>1. CASE p[2] \in 2..N
      BY <2>1, <1>0
    <2>2. CASE ~(p[2] \in 2..N)
      BY <2>2, <1>0
    <2> QED BY <2>1, <2>2
  <1>2. \A x \in Seq(S) : \A i \in 1..N : D[<<x, i>>] = IF i = 1 THEN seqs[i] ELSE x \o seqs[i]
    BY <1>0
  <1> HIDE DEF D
  <1> DEFINE c == << >>
  <1>3. c \in Seq(S)
    OBVIOUS
  <1> HIDE DEF c
  <1>4. PICK g \in [0..N -> Seq(S)] : IsRecursive(g, N, c, D)
    BY <1>0, <1>1, <1>3, RecursiveExists
  <1> DEFINE h == [i \in 1..N |-> g[i]]
  <1>5. h \in [1..N -> Seq(S)]
    BY <1>0
  <1>6. ASSUME NEW i \in 1..N PROVE h[i] = IF i = 1 THEN seqs[i] ELSE h[i - 1] \o seqs[i]
    <2>1. h[i] = D[<<g[i - 1], i>>] /\ g[i - 1] \in Seq(S)
      BY <1>0, <1>4 DEF IsRecursive
    <2>2. i # 1 => h[i - 1] = g[i - 1]
      BY <1>0
    <2> QED
      BY <2>1, <2>2, <1>2
  <1>7. h = [i \in 1..N |-> h[i]]
    OBVIOUS
  <1> HIDE DEF h
  <1>8. h = [i \in 1..N |-> IF i = 1 THEN seqs[i] ELSE h[i - 1] \o seqs[i]]
    BY <1>6, <1>7
  <1>9. FlattenUpTo(seqs) = [i \in 1..N |-> IF i = 1 THEN seqs[i] ELSE FlattenUpTo(seqs)[i - 1] \o seqs[i]]
    BY <1>8 DEF FlattenUpTo, N
  <1> DEFINE F == FlattenUpTo(seqs)
  <1> HIDE DEF F
  <1>10. F = [i \in 1..N |-> IF i = 1 THEN seqs[i] ELSE F[i - 1] \o seqs[i]]
    BY <1>9 DEF F
  <1>11. ASSUME NEW i \in 1..N PROVE F[i] = IF i = 1 THEN seqs[i] ELSE F[i - 1] \o seqs[i]
    BY <1>10
  <1> DEFINE T == {k \in 0..N : k # 0 => F[k] \in Seq(S)}
  <1>12. 0 \in T
    BY <1>0
  <1>13. ASSUME NEW k \in 1..N, k - 1 \in T PROVE k \in T
    <2>1. CASE k = 1
      <3>1. F[k] = seqs[k] /\ k \in 0..N
        BY <2>1, <1>0, <1>11
      <3>2. seqs[k] \in Seq(S)
        BY <1>0
      <3> QED
        BY <3>1, <3>2
    <2>2. CASE k # 1
      <3>1. F[k - 1] \in Seq(S)
        BY <2>2, <1>0, <1>13
      <3>2. seqs[k] \in Seq(S)
        BY <1>0
      <3>3. F[k] = F[k - 1] \o seqs[k]
        BY <2>2, <1>11
      <3>4. F[k - 1] \o seqs[k] \in Seq(S)
        BY <3>1, <3>2
      <3>5. k \in 0..N
        BY <1>0
      <3> QED
        BY <3>3, <3>4, <3>5
    <2> QED
      BY <2>1, <2>2
  <1> HIDE DEF T
  <1>14. 0..N \subseteq T
    BY <1>0, <1>12, <1>13, UpToInd
  <1>15. \A k \in 1..N : F[k] \in Seq(S)
    BY <1>14, <1>0 DEF T
  <1>16. DOMAIN F = 1..N /\ F = [i \in 1..N |-> F[i]]
    BY <1>10
  <1>17. F \in [1..N -> Seq(S)]
    BY <1>15, <1>16
  <1> QED
    BY <1>17, <1>11 DEF F, N

\* t is a followed by b.
Joined(S, t, a, b) ==
  /\ t \in Seq(S)
  /\ Len(t) = Len(a) + Len(b)
  /\ \A i \in 1..Len(a) : t[i] = a[i]
  /\ \A j \in 1..Len(b) : t[Len(a) + j] = b[j]

LEMMA Concat ==
  ASSUME NEW S, NEW a \in Seq(S), NEW b \in Seq(S)
  PROVE  Joined(S, a \o b, a, b)
  BY DEF Joined

\* FlattenSeq as a function of how many sequences it has taken.
LEMMA FlattenFcn ==
  ASSUME NEW S, NEW seqs \in Seq(Seq(S))
  PROVE  \E F \in [0..Len(seqs) -> Seq(S)] :
           /\ F[0] = << >>
           /\ \A i \in 1..Len(seqs) : F[i] = F[i - 1] \o seqs[i]
           /\ FlattenSeq(seqs) = F[Len(seqs)]
  <1> DEFINE N == Len(seqs)
             G == FlattenUpTo(seqs)
             F == [k \in 0..N |-> IF k = 0 THEN << >> ELSE G[k]]
  <1>1. N \in Nat /\ seqs \in [1..N -> Seq(S)]
    OBVIOUS
  <1>2. G \in [1..N -> Seq(S)] /\ \A i \in 1..N : G[i] = IF i = 1 THEN seqs[i] ELSE G[i-1] \o seqs[i]
    BY FlattenSteps
  <1>3. N # 0 => FlattenSeq(seqs) = G[N]
    BY FlattenIsLast
  <1>4. N = 0 => FlattenSeq(seqs) = << >>
    BY DEF FlattenSeq
  <1> HIDE DEF N, G
  <1>5. F \in [0..N -> Seq(S)]
    BY <1>1, <1>2
  <1>6. F[0] = << >>
    BY <1>1
  <1>7. ASSUME NEW i \in 1..N PROVE F[i] = F[i - 1] \o seqs[i]
    <2>1. F[i] = G[i] /\ seqs[i] \in Seq(S)
      BY <1>1
    <2>2. CASE i = 1
      <3>1. F[i - 1] = << >> /\ G[i] = seqs[i]
        BY <2>2, <1>1, <1>2
      <3>2. << >> \o seqs[i] = seqs[i]
        BY <2>1
      <3> QED
        BY <3>1, <3>2, <2>1
    <2>3. CASE i # 1
      <3>1. F[i - 1] = G[i - 1]
        BY <2>3, <1>1
      <3>2. G[i] = G[i - 1] \o seqs[i]
        BY <2>3, <1>2
      <3> QED
        BY <3>1, <3>2, <2>1
    <2> QED
      BY <2>2, <2>3
  <1>8. FlattenSeq(seqs) = F[N]
    BY <1>1, <1>3, <1>4
  <1> HIDE DEF F
  <1> QED
    BY <1>5, <1>6, <1>7, <1>8 DEF N

\* st says where each sequence begins in s, to which they are put together up to k.
Layout(seqs, st, s, k) ==
  /\ Len(s) = st[k] - st[0]
  /\ \A i \in 0..k : st[0] <= st[i] /\ st[i] <= st[k]
  /\ \A i \in 1..k : \A j \in 1..Len(seqs[i]) : s[st[i - 1] - st[0] + j] = seqs[i][j]
  /\ \A p \in 1..Len(s) : \E i \in 1..k : \E j \in 1..Len(seqs[i]) : p = st[i - 1] - st[0] + j

\* One more sequence goes behind the others.
LEMMA LayoutStep ==
  ASSUME NEW S, NEW seqs \in Seq(Seq(S)), NEW st \in [0..Len(seqs) -> Nat],
         NEW k \in 1..Len(seqs), st[k] = st[k - 1] + Len(seqs[k]),
         NEW s \in Seq(S), Layout(seqs, st, s, k - 1),
         \A i \in 1..Len(seqs) : st[i] = st[i - 1] + Len(seqs[i])
  PROVE  Layout(seqs, st, s \o seqs[k], k)
  <1> DEFINE t == s \o seqs[k]
             b == seqs[k]
  <1>0. b \in Seq(S) /\ Len(b) \in Nat /\ Len(s) \in Nat
    OBVIOUS
  <1>1. /\ t \in Seq(S) /\ Len(t) = Len(s) + Len(b)
        /\ \A i \in 1..Len(s) : t[i] = s[i]
        /\ \A j \in 1..Len(b) : t[Len(s) + j] = b[j]
    BY <1>0
  <1>2. /\ Len(s) = st[k - 1] - st[0]
        /\ \A i \in 0..(k - 1) : st[0] <= st[i] /\ st[i] <= st[k - 1]
        /\ \A i \in 1..(k - 1) : \A j \in 1..Len(seqs[i]) : s[st[i - 1] - st[0] + j] = seqs[i][j]
        /\ \A p \in 1..Len(s) : \E i \in 1..(k - 1) : \E j \in 1..Len(seqs[i]) : p = st[i - 1] - st[0] + j
    BY DEF Layout
  <1>3. st[k] = st[k - 1] + Len(b) /\ \A i \in 0..k : st[i] \in Nat
    <2>1. k <= Len(seqs) /\ Len(seqs) \in Nat
      OBVIOUS
    <2>2. \A i \in 0..k : i \in 0..Len(seqs)
      BY <2>1
    <2> QED
      BY <2>2
  <1>30. ASSUME NEW i \in 1..k PROVE Len(seqs[i]) \in Nat
    <2>1. i \in 1..Len(seqs)
      OBVIOUS
    <2>2. seqs[i] \in Seq(S)
      BY <2>1
    <2> QED
      BY <2>2
  <1> HIDE DEF t, b
  <1>4. Len(t) = st[k] - st[0]
    <2>1. Len(t) = Len(s) + Len(b) /\ Len(s) = st[k - 1] - st[0] /\ st[k] = st[k - 1] + Len(b)
      BY <1>1, <1>2, <1>3
    <2>2. k - 1 \in 0..k /\ 0 \in 0..k
      OBVIOUS
    <2>3. st[k - 1] \in Nat /\ st[0] \in Nat /\ Len(b) \in Nat
      BY <1>0, <1>3, <2>2
    <2> QED
      BY <2>1, <2>3
  <1>5. ASSUME NEW i \in 0..k PROVE st[0] <= st[i] /\ st[i] <= st[k]
    <2>1. CASE i = k
      <3>1. k - 1 \in 0..(k - 1) /\ st[k - 1] \in Nat /\ st[0] \in Nat /\ st[k] \in Nat
        BY <1>3
      <3>2. st[0] <= st[k - 1]
        BY <3>1, <1>2
      <3>3. st[k - 1] <= st[k]
        BY <3>1, <1>0, <1>3
      <3> QED
        BY <2>1, <3>1, <3>2, <3>3
    <2>2. CASE i # k
      <3>1. i \in 0..(k - 1) /\ st[k - 1] \in Nat /\ st[i] \in Nat /\ st[k] \in Nat
        BY <2>2, <1>3
      <3>2. st[0] <= st[i] /\ st[i] <= st[k - 1]
        BY <3>1, <1>2
      <3>3. st[k - 1] <= st[k]
        BY <3>1, <1>0, <1>3
      <3> QED
        BY <3>1, <3>2, <3>3
    <2> QED
      BY <2>1, <2>2
  <1>6. ASSUME NEW i \in 1..k, NEW j \in 1..Len(seqs[i])
        PROVE  t[st[i - 1] - st[0] + j] = seqs[i][j]
    <2>1. CASE i = k
      BY <2>1, <1>1, <1>2 DEF b
    <2>2. CASE i # k
      <3>1. i \in 1..(k - 1) /\ i \in 0..(k - 1) /\ i - 1 \in 0..(k - 1)
        BY <2>2
      <3>2. s[st[i - 1] - st[0] + j] = seqs[i][j]
        BY <3>1, <1>2
      <3>3. st[i] = st[i - 1] + Len(seqs[i]) /\ st[i] <= st[k - 1] /\ st[0] <= st[i - 1]
        BY <3>1, <1>2
      <3>4. st[i] \in Nat /\ st[i - 1] \in Nat /\ st[0] \in Nat /\ st[k - 1] \in Nat
        <4>1. i \in 0..k /\ i - 1 \in 0..k /\ 0 \in 0..k /\ k - 1 \in 0..k
          BY <3>1
        <4> QED
          BY <4>1, <1>3
      <3>5. Len(seqs[i]) \in Nat /\ j \in Nat /\ 1 <= j /\ j <= Len(seqs[i])
        BY <1>30
      <3>6. Len(s) = st[k - 1] - st[0]
        BY <1>2
      <3> DEFINE x == st[i - 1]
                 y == st[i]
                 z == st[0]
                 w == st[k - 1]
                 l == Len(seqs[i])
      <3>7. /\ x \in Nat /\ y \in Nat /\ z \in Nat /\ w \in Nat /\ l \in Nat
            /\ y = x + l /\ y <= w /\ z <= x /\ j \in Nat /\ 1 <= j /\ j <= l
            /\ Len(s) = w - z
        BY <3>3, <3>4, <3>5, <3>6
      <3> HIDE DEF x, y, z, w, l
      <3>8. x - z + j \in 1..Len(s)
        BY <3>7
      <3>9. t[x - z + j] = s[x - z + j]
        BY <3>8, <1>1
      <3> QED
        BY <3>2, <3>9 DEF x, z
    <2> QED
      BY <2>1, <2>2
  <1>7. ASSUME NEW p \in 1..Len(t)
        PROVE  \E i \in 1..k : \E j \in 1..Len(seqs[i]) : p = st[i - 1] - st[0] + j
    <2>1. CASE p \in 1..Len(s)
      <3>1. PICK i \in 1..(k - 1) : \E j \in 1..Len(seqs[i]) : p = st[i - 1] - st[0] + j
        BY <2>1, <1>2
      <3>2. i \in 1..k
        OBVIOUS
      <3> QED
        BY <3>1, <3>2
    <2>2. CASE p \notin 1..Len(s)
      <3>1. p - Len(s) \in 1..Len(seqs[k]) /\ p = Len(s) + (p - Len(s))
        BY <2>2, <1>0, <1>1 DEF b
      <3>2. p = st[k - 1] - st[0] + (p - Len(s)) /\ k \in 1..k
        BY <3>1, <1>2
      <3> QED
        BY <3>1, <3>2
    <2> QED
      BY <2>1, <2>2
  <1>8. Layout(seqs, st, t, k)
    BY <1>4, <1>5, <1>6, <1>7 DEF Layout
  <1> QED
    BY <1>8 DEF t

LEMMA FlattenLayout ==
  ASSUME NEW S, NEW seqs \in Seq(Seq(S)), NEW st \in [0..Len(seqs) -> Nat],
         \A i \in 1..Len(seqs) : st[i] = st[i - 1] + Len(seqs[i])
  PROVE  FlattenSeq(seqs) \in Seq(S) /\ Layout(seqs, st, FlattenSeq(seqs), Len(seqs))
  <1> DEFINE N == Len(seqs)
  <1>1. PICK F \in [0..N -> Seq(S)] :
          /\ F[0] = << >>
          /\ \A i \in 1..N : F[i] = F[i - 1] \o seqs[i]
          /\ FlattenSeq(seqs) = F[N]
    BY FlattenFcn
  <1>2. N \in Nat
    OBVIOUS
  <1> DEFINE T == {k \in 0..N : Layout(seqs, st, F[k], k)}
  <1>3. 0 \in T
    <2>1. Layout(seqs, st, << >>, 0)
      BY DEF Layout
    <2> QED
      BY <2>1, <1>1, <1>2
  <1>4. ASSUME NEW k \in 1..N, k - 1 \in T PROVE k \in T
    <2>1. F[k - 1] \in Seq(S) /\ Layout(seqs, st, F[k - 1], k - 1)
      BY <1>2, <1>4
    <2>2. st[k] = st[k - 1] + Len(seqs[k])
      OBVIOUS
    <2>3. Layout(seqs, st, F[k - 1] \o seqs[k], k)
      BY <2>1, <2>2, LayoutStep
    <2>4. F[k] = F[k - 1] \o seqs[k]
      BY <1>1
    <2>5. k \in 0..N
      OBVIOUS
    <2> QED
      BY <2>3, <2>4, <2>5
  <1> HIDE DEF T
  <1>50. 0..N \subseteq T
    <2> HIDE DEF N
    <2> QED
      BY <1>2, <1>3, <1>4, UpToInd
  <1>5. N \in T
    BY <1>2, <1>50
  <1>6. Layout(seqs, st, F[N], N)
    BY <1>5 DEF T
  <1>7. F[N] \in Seq(S)
    BY <1>2
  <1> QED
    BY <1>1, <1>6, <1>7

InFiles == [name : Names, data : Seq(Bytes)]
OutFiles == [name : Names, data : Seq(Bytes), meta : Nat]
GroupSet == [data : Seq(Bytes), files : Seq(OutFiles)]

(***************************************************************************)
(* Grouping.  However many files the packer has added to its groups, every *)
(* one of them is in exactly one place of them, with its data.             *)
(***************************************************************************)
LEMMA MinIn ==
  ASSUME NEW T, T \subseteq Nat, T # {}
  PROVE  Min(T) \in T /\ \A y \in T : Min(T) <= y
  <1>1. \E x \in T : \A y \in T : x <= y
    BY LeastNat
  <1> QED
    BY <1>1 DEF Min

\* What add_to_known_files does to the list.
LEMMA Added ==
  ASSUME NEW known \in Seq(GroupSet), NEW file
  PROVE  \/ AddToKnown(known, file) = Append(known, [data |-> file.data, files |-> <<file>>])
         \/ \E m \in DOMAIN known :
              /\ known[m].data = file.data
              /\ Len(known[m].files) < MaxFilesPerKnownData
              /\ AddToKnown(known, file) =
                   [known EXCEPT ![m] = [data |-> file.data, files |-> Append(known[m].files, file)]]
  <1> DEFINE same == {k \in DOMAIN known : /\ known[k].data = file.data
                                           /\ Len(known[k].files) < MaxFilesPerKnownData}
  <1>1. CASE same = {}
    BY <1>1 DEF AddToKnown
  <1>2. CASE same # {}
    <2>1. same \subseteq Nat
      OBVIOUS
    <2>2. Min(same) \in same
      BY <1>2, <2>1, MinIn
    <2>3. AddToKnown(known, file) =
            [known EXCEPT ![Min(same)] = [data |-> file.data, files |-> Append(@.files, file)]]
      BY <1>2 DEF AddToKnown
    <2> DEFINE m == Min(same)
    <2> HIDE DEF m
    <2>4. /\ m \in DOMAIN known /\ known[m].data = file.data
          /\ Len(known[m].files) < MaxFilesPerKnownData
      BY <2>2 DEF m
    <2>5. AddToKnown(known, file) =
            [known EXCEPT ![m] = [data |-> file.data, files |-> Append(@.files, file)]]
      BY <2>3 DEF m
    <2> QED
      BY <2>4, <2>5
  <1> QED
    BY <1>1, <1>2

\* Every one of the first k files is in exactly one group, with its name and data.
FileOK(known, files, k, g, i) ==
  /\ known[g].files[i].meta \in 1..k
  /\ known[g].files[i].name = files[known[g].files[i].meta].name
  /\ known[g].data = files[known[g].files[i].meta].data

Sums(n, known) ==
  /\ n[0] = 0
  /\ \A g \in 1..Len(known) : n[g] = n[g - 1] + Len(known[g].files)

Sorted(known, files, k) ==
  /\ known \in Seq(GroupSet)
  /\ \A g \in 1..Len(known) : Len(known[g].files) \in 1..MaxFilesPerKnownData
  /\ \A g \in 1..Len(known) : \A i \in 1..Len(known[g].files) : FileOK(known, files, k, g, i)
  /\ \A g, h \in 1..Len(known) : \A i \in 1..Len(known[g].files), j \in 1..Len(known[h].files) :
       known[g].files[i].meta = known[h].files[j].meta => g = h /\ i = j
  /\ \A x \in 1..k : \E g \in 1..Len(known) : \E i \in 1..Len(known[g].files) :
       known[g].files[i].meta = x
  /\ \A n \in [0..Len(known) -> Int] : Sums(n, known) => n[Len(known)] = k

\* A file that begins a group.
LEMMA SortedAppend ==
  ASSUME NEW files \in Seq(InFiles), NEW k \in 1..Len(files), NEW known,
         Sorted(known, files, k - 1), NEW file \in OutFiles,
         file.name = files[k].name, file.data = files[k].data, file.meta = k
  PROVE  Sorted(Append(known, [data |-> file.data, files |-> <<file>>]), files, k)
  <1> DEFINE L == Len(known)
             new == [data |-> file.data, files |-> <<file>>]
             more == Append(known, new)
  <1>1. MaxFilesPerKnownData >= 1 /\ MaxFilesPerKnownData \in Nat
    BY LimitsAssumption DEF LimitsAssumption
  <1>2. known \in Seq(GroupSet) /\ L \in Nat
    BY DEF Sorted
  <1>3. /\ new \in GroupSet /\ new.data = files[k].data
        /\ Len(new.files) = 1 /\ new.files[1] = file
    BY DEF GroupSet, OutFiles
  <1> HIDE DEF new
  <1>4. /\ more \in Seq(GroupSet) /\ Len(more) = L + 1
        /\ \A g \in 1..L : more[g] = known[g]
        /\ more[L + 1] = new
    BY <1>2, <1>3
  <1> HIDE DEF L, more
  <1>5. \A g \in 1..Len(more) : g \in 1..L \/ g = L + 1
    BY <1>2, <1>4
  <1>6. \A g \in 1..L : Len(known[g].files) \in 1..MaxFilesPerKnownData
    BY DEF Sorted, L
  <1>7. \A g \in 1..L : \A i \in 1..Len(known[g].files) : FileOK(known, files, k - 1, g, i)
    BY DEF Sorted, L
  <1>8. \A g, h \in 1..L : \A i \in 1..Len(known[g].files), j \in 1..Len(known[h].files) :
          known[g].files[i].meta = known[h].files[j].meta => g = h /\ i = j
    BY DEF Sorted, L
  <1>9. ASSUME NEW g \in 1..Len(more) PROVE Len(more[g].files) \in 1..MaxFilesPerKnownData
    <2>1. CASE g \in 1..L
      BY <2>1, <1>4, <1>6
    <2>2. CASE g = L + 1
      <3>1. Len(more[g].files) = 1
        BY <2>2, <1>3, <1>4
      <3> QED
        BY <3>1, <1>1
    <2> QED
      BY <2>1, <2>2, <1>5
  <1>10. ASSUME NEW g \in 1..Len(more), NEW i \in 1..Len(more[g].files)
         PROVE  FileOK(more, files, k, g, i)
    <2>1. CASE g \in 1..L
      <3>1. more[g] = known[g] /\ i \in 1..Len(known[g].files)
        BY <2>1, <1>4
      <3>2. FileOK(known, files, k - 1, g, i)
        BY <2>1, <3>1, <1>7
      <3>3. known[g].files[i].meta \in 1..(k - 1)
        BY <3>2 DEF FileOK
      <3>4. known[g].files[i].meta \in 1..k
        BY <3>3
      <3> QED
        BY <3>1, <3>2, <3>4 DEF FileOK
    <2>2. CASE g = L + 1
      <3>0. more[g] = new
        BY <2>2, <1>4
      <3>1. more[g] = new /\ i = 1
        BY <3>0, <1>3
      <3>2. k \in 1..k
        OBVIOUS
      <3> QED
        BY <3>1, <3>2, <1>3 DEF FileOK
    <2> QED
      BY <2>1, <2>2, <1>5
  <1>11. ASSUME NEW g \in 1..Len(more), NEW h \in 1..Len(more),
                NEW i \in 1..Len(more[g].files), NEW j \in 1..Len(more[h].files),
                more[g].files[i].meta = more[h].files[j].meta
         PROVE  g = h /\ i = j
    <2>1. CASE g \in 1..L /\ h \in 1..L
      <3>1. more[g] = known[g] /\ more[h] = known[h]
        BY <2>1, <1>4
      <3>2. i \in 1..Len(known[g].files) /\ j \in 1..Len(known[h].files)
        BY <3>1
      <3>3. known[g].files[i].meta = known[h].files[j].meta
        BY <3>1, <1>11
      <3> QED
        BY <2>1, <3>2, <3>3, <1>8
    <2>2. CASE g = L + 1 /\ h = L + 1
      <3>1. more[g] = new /\ more[h] = new
        BY <2>2, <1>4
      <3>2. i = 1 /\ j = 1
        BY <3>1, <1>3
      <3> QED
        BY <2>2, <3>2
    <2>3. CASE g = L + 1 /\ h \in 1..L
      <3>1. FileOK(known, files, k - 1, h, j) /\ more[h] = known[h]
        BY <2>3, <1>4, <1>7
      <3>2. more[h].files[j].meta \in 1..(k - 1)
        BY <3>1 DEF FileOK
      <3>3. more[g].files[i].meta = k
        BY <2>3, <1>3, <1>4
      <3> QED
        BY <3>2, <3>3, <1>11
    <2>4. CASE h = L + 1 /\ g \in 1..L
      <3>1. FileOK(known, files, k - 1, g, i) /\ more[g] = known[g]
        BY <2>4, <1>4, <1>7
      <3>2. more[g].files[i].meta \in 1..(k - 1)
        BY <3>1 DEF FileOK
      <3>3. more[h].files[j].meta = k
        BY <2>4, <1>3, <1>4
      <3> QED
        BY <3>2, <3>3, <1>11
    <2> QED
      BY <2>1, <2>2, <2>3, <2>4, <1>5
  <1>12. ASSUME NEW x \in 1..k
         PROVE  \E g \in 1..Len(more) : \E i \in 1..Len(more[g].files) : more[g].files[i].meta = x
    <2>1. CASE x \in 1..(k - 1)
      <3>1. PICK g \in 1..L : \E i \in 1..Len(known[g].files) : known[g].files[i].meta = x
        BY <2>1 DEF Sorted, L
      <3>2. g \in 1..Len(more) /\ more[g] = known[g]
        BY <1>2, <1>4
      <3> QED
        BY <3>1, <3>2
    <2>2. CASE x = k
      <3>1. L + 1 \in 1..Len(more) /\ 1 \in 1..Len(more[L + 1].files)
        BY <1>2, <1>3, <1>4
      <3>2. more[L + 1].files[1].meta = k
        BY <1>3, <1>4
      <3> QED
        BY <2>2, <3>1, <3>2
    <2> QED
      BY <2>1, <2>2
  <1>13. ASSUME NEW n \in [0..Len(more) -> Int], Sums(n, more) PROVE n[Len(more)] = k
    <2> DEFINE m == [g \in 0..L |-> n[g]]
    <2>1. n[0] = 0 /\ \A g \in 1..Len(more) : n[g] = n[g - 1] + Len(more[g].files)
      BY <1>13 DEF Sums
    <2>2. m \in [0..L -> Int]
      BY <1>2, <1>4
    <2>3. m[0] = 0
      BY <2>1, <1>2
    <2>4. ASSUME NEW g \in 1..L PROVE m[g] = m[g - 1] + Len(known[g].files)
      <3>0. g \in 1..Len(more)
        BY <1>2, <1>4
      <3>1. n[g] = n[g - 1] + Len(more[g].files)
        BY <2>1, <3>0
      <3>2. m[g] = n[g] /\ m[g - 1] = n[g - 1]
        BY <1>2
      <3> QED
        BY <3>1, <3>2, <1>4
    <2>5. m[L] = n[L]
      BY <1>2
    <2> HIDE DEF m
    <2>6. Sums(m, known)
      BY <2>3, <2>4 DEF Sums, L
    <2>7. m[L] = k - 1
      BY <2>2, <2>6 DEF Sorted, L
    <2>8. (L + 1) - 1 = L /\ L + 1 \in 1..Len(more)
      BY <1>2, <1>4
    <2>9. n[L + 1] = n[(L + 1) - 1] + Len(more[L + 1].files)
      BY <2>1, <2>8
    <2>10. n[L + 1] = n[L] + 1
      BY <2>8, <2>9, <1>3, <1>4
    <2> QED
      BY <2>5, <2>7, <2>10, <1>4
  <1>14. Sorted(more, files, k)
    BY <1>4, <1>9, <1>10, <1>11, <1>12, <1>13 DEF Sorted
  <1> QED
    BY <1>14 DEF more, new

\* n adds up x, beginning with a.
SumOf(n, x, L, a) == n[0] = a /\ \A g \in 1..L : n[g] = n[g - 1] + x[g]

\* One summand is one less: so is the sum.
LEMMA OneLess ==
  ASSUME NEW L \in Nat, NEW m \in 1..L, NEW x \in [1..L -> Int], NEW y \in [1..L -> Int],
         \A g \in 1..L : g # m => y[g] = x[g], y[m] = x[m] + 1,
         NEW n \in [0..L -> Int], SumOf(n, y, L, 0)
  PROVE  \E p \in [0..L -> Int] : p[L] = n[L] - 1 /\ SumOf(p, x, L, 0)
  <1> DEFINE p == [g \in 0..L |-> IF g < m THEN n[g] ELSE n[g] - 1]
  <1>1. p \in [0..L -> Int]
    OBVIOUS
  <1>2. p[L] = n[L] - 1
    OBVIOUS
  <1>3. n[0] = 0
    BY DEF SumOf
  <1>4. p[0] = 0
    BY <1>3
  <1>5. ASSUME NEW g \in 1..L PROVE p[g] = p[g - 1] + x[g]
    <2>1. n[g] = n[g - 1] + y[g]
      BY DEF SumOf
    <2>2. g \in 0..L /\ g - 1 \in 0..L
      OBVIOUS
    <2>3. n[g] \in Int /\ n[g - 1] \in Int /\ x[g] \in Int /\ y[g] \in Int
      BY <2>2
    <2>4. CASE g < m
      BY <2>1, <2>2, <2>3, <2>4
    <2>5. CASE g = m
      BY <2>1, <2>2, <2>3, <2>5
    <2>6. CASE g > m
      BY <2>1, <2>2, <2>3, <2>6
    <2> QED
      BY <2>4, <2>5, <2>6
  <1> HIDE DEF p
  <1>6. SumOf(p, x, L, 0)
    BY <1>4, <1>5 DEF SumOf
  <1> QED
    BY <1>1, <1>2, <1>6

\* A file that is added to a group.
LEMMA SortedGrow ==
  ASSUME NEW files \in Seq(InFiles), NEW k \in 1..Len(files), NEW known,
         Sorted(known, files, k - 1), NEW file \in OutFiles,
         file.name = files[k].name, file.data = files[k].data, file.meta = k,
         NEW m \in DOMAIN known, known[m].data = file.data,
         Len(known[m].files) < MaxFilesPerKnownData
  PROVE  Sorted([known EXCEPT ![m] = [data |-> file.data, files |-> Append(known[m].files, file)]],
                files, k)
  <1> DEFINE L == Len(known)
             old == known[m].files
             l == Len(old)
             new == [data |-> file.data, files |-> Append(old, file)]
             more == [known EXCEPT ![m] = new]
  <1>1. MaxFilesPerKnownData >= 1 /\ MaxFilesPerKnownData \in Nat
    BY LimitsAssumption DEF LimitsAssumption
  <1>2. known \in Seq(GroupSet) /\ L \in Nat /\ m \in 1..L
    BY DEF Sorted
  <1>3. old \in Seq(OutFiles) /\ l \in Nat
    <2>1. known[m] \in GroupSet
      BY <1>2
    <2> QED
      BY <2>1 DEF GroupSet
  <1> DEFINE longer == Append(old, file)
  <1>4. /\ longer \in Seq(OutFiles) /\ Len(longer) = l + 1
        /\ \A i \in 1..l : longer[i] = old[i]
        /\ longer[l + 1] = file
    BY <1>3
  <1>5. \A i \in 1..Len(longer) : i \in 1..l \/ i = l + 1
    BY <1>3, <1>4
  <1> HIDE DEF longer
  <1>6. new \in GroupSet /\ new.data = file.data /\ new.files = longer
    BY <1>4 DEF GroupSet, OutFiles, longer
  <1> HIDE DEF new
  <1>7. /\ more \in Seq(GroupSet) /\ Len(more) = L
        /\ \A g \in 1..L : g # m => more[g] = known[g]
        /\ more[m] = new
    BY <1>2, <1>6
  <1>8. Len(old) < MaxFilesPerKnownData
    OBVIOUS
  <1> HIDE DEF L, more
  <1>9. \A g \in 1..L : Len(known[g].files) \in 1..MaxFilesPerKnownData
    BY DEF Sorted, L
  <1>10. \A g \in 1..L : \A i \in 1..Len(known[g].files) : FileOK(known, files, k - 1, g, i)
    BY DEF Sorted, L
  <1>11. \A g, h \in 1..L : \A i \in 1..Len(known[g].files), j \in 1..Len(known[h].files) :
           known[g].files[i].meta = known[h].files[j].meta => g = h /\ i = j
    BY DEF Sorted, L
  \* A file of the new list is an old one in its place, or the last of group m.
  <1>12. ASSUME NEW g \in 1..L, NEW i \in 1..Len(more[g].files)
         PROVE  \/ /\ i \in 1..Len(known[g].files)
                   /\ more[g].files[i] = known[g].files[i]
                \/ g = m /\ i = l + 1 /\ more[g].files[i] = file
    <2>1. CASE g # m
      BY <2>1, <1>7
    <2>2. CASE g = m
      <3>1. more[g].files = longer
        BY <2>2, <1>6, <1>7
      <3>2. i \in 1..l \/ i = l + 1
        BY <3>1, <1>5
      <3>3. known[g].files = old
        BY <2>2
      <3> QED
        BY <2>2, <3>1, <3>2, <3>3, <1>4
    <2> QED
      BY <2>1, <2>2
  <1>13. ASSUME NEW g \in 1..L PROVE more[g].data = known[g].data
    <2>1. CASE g # m
      BY <2>1, <1>7
    <2>2. CASE g = m
      BY <2>2, <1>6, <1>7
    <2> QED
      BY <2>1, <2>2
  <1>14. ASSUME NEW g \in 1..L PROVE Len(more[g].files) \in 1..MaxFilesPerKnownData
    <2>1. CASE g # m
      BY <2>1, <1>7, <1>9
    <2>2. CASE g = m
      <3>1. Len(more[g].files) = l + 1
        BY <2>2, <1>4, <1>6, <1>7
      <3> QED
        BY <3>1, <1>1, <1>3, <1>8
    <2> QED
      BY <2>1, <2>2
  <1>15. ASSUME NEW g \in 1..L, NEW i \in 1..Len(more[g].files)
         PROVE  FileOK(more, files, k, g, i)
    <2>1. CASE i \in 1..Len(known[g].files) /\ more[g].files[i] = known[g].files[i]
      <3>1. FileOK(known, files, k - 1, g, i)
        BY <2>1, <1>10
      <3>2. known[g].files[i].meta \in 1..(k - 1)
        BY <3>1 DEF FileOK
      <3>3. known[g].files[i].meta \in 1..k
        BY <3>2
      <3> QED
        BY <2>1, <3>1, <3>3, <1>13 DEF FileOK
    <2>2. CASE g = m /\ i = l + 1 /\ more[g].files[i] = file
      <3>1. more[g].data = files[k].data
        BY <2>2, <1>13
      <3>2. k \in 1..k
        OBVIOUS
      <3> QED
        BY <2>2, <3>1, <3>2 DEF FileOK
    <2> QED
      BY <2>1, <2>2, <1>12
  <1>16. ASSUME NEW g \in 1..L, NEW h \in 1..L,
                NEW i \in 1..Len(more[g].files), NEW j \in 1..Len(more[h].files),
                more[g].files[i].meta = more[h].files[j].meta
         PROVE  g = h /\ i = j
    <2> DEFINE OldOne(x, y) == y \in 1..Len(known[x].files) /\ more[x].files[y] = known[x].files[y]
               NewOne(x, y) == x = m /\ y = l + 1 /\ more[x].files[y] = file
    <2>1. ASSUME NEW x \in 1..L, NEW y, OldOne(x, y) PROVE more[x].files[y].meta \in 1..(k - 1)
      <3>1. FileOK(known, files, k - 1, x, y)
        BY <2>1, <1>10
      <3> QED
        BY <2>1, <3>1 DEF FileOK
    <2>2. ASSUME NEW x \in 1..L, NEW y, NewOne(x, y) PROVE more[x].files[y].meta = k
      BY <2>2
    <2>3. (OldOne(g, i) \/ NewOne(g, i)) /\ (OldOne(h, j) \/ NewOne(h, j))
      BY <1>12
    <2>4. CASE OldOne(g, i) /\ OldOne(h, j)
      <3>1. known[g].files[i].meta = known[h].files[j].meta
        BY <2>4, <1>16
      <3> QED
        BY <2>4, <3>1, <1>11
    <2>5. CASE NewOne(g, i) /\ NewOne(h, j)
      BY <2>5
    <2>6. k \notin 1..(k - 1)
      OBVIOUS
    <2>7. CASE OldOne(g, i) /\ NewOne(h, j)
      <3> HIDE DEF OldOne, NewOne
      <3> QED
        BY <2>7, <2>1, <2>2, <2>6, <1>16
    <2>8. CASE NewOne(g, i) /\ OldOne(h, j)
      <3> HIDE DEF OldOne, NewOne
      <3> QED
        BY <2>8, <2>1, <2>2, <2>6, <1>16
    <2> HIDE DEF OldOne, NewOne
    <2> QED
      BY <2>3, <2>4, <2>5, <2>7, <2>8
  <1>17. ASSUME NEW x \in 1..k
         PROVE  \E g \in 1..L : \E i \in 1..Len(more[g].files) : more[g].files[i].meta = x
    <2>1. CASE x \in 1..(k - 1)
      <3>1. PICK g \in 1..L : \E i \in 1..Len(known[g].files) : known[g].files[i].meta = x
        BY <2>1 DEF Sorted, L
      <3>2. PICK i \in 1..Len(known[g].files) : known[g].files[i].meta = x
        BY <3>1
      <3>3. i \in 1..Len(more[g].files) /\ more[g].files[i] = known[g].files[i]
        <4>1. CASE g # m
          BY <4>1, <1>7
        <4>2. CASE g = m
          <5>1. more[g].files = longer /\ known[g].files = old
            BY <4>2, <1>6, <1>7
          <5>2. i \in 1..l /\ i \in 1..Len(longer)
            BY <5>1, <1>3, <1>4
          <5> QED
            BY <5>1, <5>2, <1>4
        <4> QED
          BY <4>1, <4>2
      <3> QED
        BY <3>2, <3>3
    <2>2. CASE x = k
      <3>1. more[m].files = longer /\ l + 1 \in 1..Len(longer)
        BY <1>3, <1>4, <1>6, <1>7
      <3>2. more[m].files[l + 1].meta = k
        BY <3>1, <1>4
      <3> QED
        BY <2>2, <3>1, <3>2, <1>2
    <2> QED
      BY <2>1, <2>2
  <1>18. ASSUME NEW n \in [0..L -> Int], Sums(n, more) PROVE n[L] = k
    <2> DEFINE x == [g \in 1..L |-> Len(known[g].files)]
               y == [g \in 1..L |-> Len(more[g].files)]
    <2>1. SumOf(n, y, L, 0)
      BY <1>18, <1>7 DEF Sums, SumOf
    <2>2. x \in [1..L -> Int] /\ y \in [1..L -> Int]
      <3>1. \A g \in 1..L : Len(known[g].files) \in Int /\ Len(more[g].files) \in Int
        BY <1>1, <1>9, <1>14
      <3> QED
        BY <3>1
    <2>3. \A g \in 1..L : g # m => y[g] = x[g]
      BY <1>7
    <2>4. y[m] = x[m] + 1
      BY <1>2, <1>4, <1>6, <1>7
    <2>41. \A g \in 1..L : x[g] = Len(known[g].files)
      OBVIOUS
    <2> HIDE DEF x, y, old, l
    <2>5. PICK p \in [0..L -> Int] : p[L] = n[L] - 1 /\ SumOf(p, x, L, 0)
      BY <1>2, <2>1, <2>2, <2>3, <2>4, OneLess
    <2>6. Sums(p, known)
      BY <2>5, <2>41 DEF Sums, SumOf, L
    <2>7. p[L] = k - 1
      BY <2>5, <2>6 DEF Sorted, L
    <2>8. n[L] \in Int
      BY <1>2
    <2> QED
      BY <2>5, <2>7, <2>8
  <1>19. Sorted(more, files, k)
    BY <1>7, <1>14, <1>15, <1>16, <1>17, <1>18 DEF Sorted
  <1> QED
    BY <1>19 DEF more, new, old

\* Either way, the groups hold one file more.
LEMMA SortedAdd ==
  ASSUME NEW files \in Seq(InFiles), NEW k \in 1..Len(files), NEW known,
         Sorted(known, files, k - 1), NEW file \in OutFiles,
         file.name = files[k].name, file.data = files[k].data, file.meta = k
  PROVE  Sorted(AddToKnown(known, file), files, k)
  <1>1. known \in Seq(GroupSet)
    BY DEF Sorted
  <1>2. CASE AddToKnown(known, file) = Append(known, [data |-> file.data, files |-> <<file>>])
    BY <1>2, SortedAppend
  <1>3. CASE \E m \in DOMAIN known :
               /\ known[m].data = file.data
               /\ Len(known[m].files) < MaxFilesPerKnownData
               /\ AddToKnown(known, file) =
                    [known EXCEPT ![m] = [data |-> file.data, files |-> Append(known[m].files, file)]]
    <2>1. PICK m \in DOMAIN known :
            /\ known[m].data = file.data
            /\ Len(known[m].files) < MaxFilesPerKnownData
            /\ AddToKnown(known, file) =
                 [known EXCEPT ![m] = [data |-> file.data, files |-> Append(known[m].files, file)]]
      BY <1>3
    <2>2. Sorted([known EXCEPT ![m] = [data |-> file.data, files |-> Append(known[m].files, file)]],
                 files, k)
      BY <2>1, SortedGrow
    <2> QED
      BY <2>1, <2>2
  <1> QED
    BY <1>1, <1>2, <1>3, Added

KnownUpTo(files) ==
  LET known[k \in 0..Len(files)] ==
        IF k = 0 THEN << >>
        ELSE AddToKnown(known[k - 1],
                        [name |-> files[k].name, data |-> files[k].data, meta |-> k])
  IN known

LEMMA KnownIsLast == \A files : Known(files) = KnownUpTo(files)[Len(files)]
  BY DEF Known, KnownUpTo

\* The k-th file as it is added to the groups.
Nth(files, k) == [name |-> files[k].name, data |-> files[k].data, meta |-> k]

\* Files have a type before they are grouped.
LEMMA NthType ==
  ASSUME NEW files \in Seq(InFiles), NEW k \in 1..Len(files)
  PROVE  Nth(files, k) \in OutFiles
  <1>1. files[k] \in InFiles /\ k \in Nat
    OBVIOUS
  <1> QED
    BY <1>1 DEF Nth, InFiles, OutFiles

\* Adding a file keeps the type of the groups.
LEMMA AddType ==
  ASSUME NEW known \in Seq(GroupSet), NEW file \in OutFiles
  PROVE  AddToKnown(known, file) \in Seq(GroupSet)
  <1>1. file.data \in Seq(Bytes)
    BY DEF OutFiles
  <1>2. CASE AddToKnown(known, file) = Append(known, [data |-> file.data, files |-> <<file>>])
    <2>1. [data |-> file.data, files |-> <<file>>] \in GroupSet
      BY <1>1 DEF GroupSet
    <2> QED
      BY <1>2, <2>1
  <1>3. CASE \E m \in DOMAIN known :
               /\ known[m].data = file.data
               /\ Len(known[m].files) < MaxFilesPerKnownData
               /\ AddToKnown(known, file) =
                    [known EXCEPT ![m] = [data |-> file.data, files |-> Append(known[m].files, file)]]
    <2>1. PICK m \in DOMAIN known :
            AddToKnown(known, file) =
              [known EXCEPT ![m] = [data |-> file.data, files |-> Append(known[m].files, file)]]
      BY <1>3
    <2> DEFINE new == [data |-> file.data, files |-> Append(known[m].files, file)]
    <2>2. known[m] \in GroupSet
      OBVIOUS
    <2>3. known[m].files \in Seq(OutFiles)
      BY <2>2 DEF GroupSet
    <2>4. Append(known[m].files, file) \in Seq(OutFiles)
      BY <2>3
    <2>5. new \in GroupSet
      BY <1>1, <2>4 DEF GroupSet
    <2> HIDE DEF new
    <2>6. [known EXCEPT ![m] = new] \in Seq(GroupSet)
      BY <2>5
    <2> QED
      BY <2>1, <2>6 DEF new
  <1> QED
    BY <1>2, <1>3, Added

\* Known, one file at a time.
LEMMA KnownSteps ==
  ASSUME NEW files \in Seq(InFiles)
  PROVE  /\ KnownUpTo(files)[0] = << >>
         /\ \A k \in 1..Len(files) :
              KnownUpTo(files)[k] = AddToKnown(KnownUpTo(files)[k - 1], Nth(files, k))
  <1> DEFINE N == Len(files)
             D == [p \in Seq(GroupSet) \X Nat |->
                     IF p[2] \in 1..N THEN AddToKnown(p[1], Nth(files, p[2])) ELSE << >>]
             c == << >>
  <1>1. N \in Nat
    OBVIOUS
  <1> HIDE DEF N
  <1>2. c \in Seq(GroupSet)
    OBVIOUS
  <1>3. D \in [Seq(GroupSet) \X Nat -> Seq(GroupSet)]
    <2> SUFFICES ASSUME NEW p \in Seq(GroupSet) \X Nat
                 PROVE  (IF p[2] \in 1..N THEN AddToKnown(p[1], Nth(files, p[2])) ELSE << >>)
                          \in Seq(GroupSet)
      OBVIOUS
    <2>1. CASE p[2] \in 1..N
      <3>1. Nth(files, p[2]) \in OutFiles
        BY <2>1, NthType DEF N
      <3>2. AddToKnown(p[1], Nth(files, p[2])) \in Seq(GroupSet)
        BY <3>1, AddType
      <3> QED
        BY <2>1, <3>2
    <2>2. CASE p[2] \notin 1..N
      BY <2>2
    <2> QED
      BY <2>1, <2>2
  <1>4. \A x \in Seq(GroupSet) : \A k \in 1..N : D[<<x, k>>] = AddToKnown(x, Nth(files, k))
    BY <1>1
  <1> HIDE DEF D, c
  <1>5. PICK g \in [0..N -> Seq(GroupSet)] : IsRecursive(g, N, c, D)
    BY <1>1, <1>2, <1>3, RecursiveExists
  <1>6. g[0] = c /\ \A k \in 1..N : g[k] = D[<<g[k - 1], k>>]
    BY <1>5 DEF IsRecursive
  <1>7. ASSUME NEW k \in 0..N
        PROVE  g[k] = IF k = 0 THEN << >> ELSE AddToKnown(g[k - 1], Nth(files, k))
    <2>1. CASE k = 0
      BY <2>1, <1>6 DEF c
    <2>2. CASE k # 0
      <3>1. k \in 1..N /\ k - 1 \in 0..N
        BY <2>2, <1>1
      <3>2. g[k - 1] \in Seq(GroupSet)
        BY <3>1
      <3> QED
        BY <2>2, <3>1, <3>2, <1>4, <1>6
    <2> QED
      BY <2>1, <2>2
  <1>8. g = [k \in 0..N |-> IF k = 0 THEN << >> ELSE AddToKnown(g[k - 1], Nth(files, k))]
    <2> DEFINE h == [k \in 0..N |-> IF k = 0 THEN << >> ELSE AddToKnown(g[k - 1], Nth(files, k))]
    <2>1. \A k \in 0..N : g[k] = h[k]
      BY <1>7
    <2>2. DOMAIN h = 0..N /\ h = [k \in 0..N |-> h[k]]
      OBVIOUS
    <2> HIDE DEF h
    <2>3. g = h
      BY <2>1, <2>2
    <2> QED
      BY <2>3 DEF h
  <1>9. KnownUpTo(files) =
          [k \in 0..N |-> IF k = 0 THEN << >> ELSE AddToKnown(KnownUpTo(files)[k - 1], Nth(files, k))]
    BY <1>8 DEF KnownUpTo, N, Nth
  <1> DEFINE K == KnownUpTo(files)
  <1> HIDE DEF K
  <1>10. K = [k \in 0..N |-> IF k = 0 THEN << >> ELSE AddToKnown(K[k - 1], Nth(files, k))]
    BY <1>9 DEF K
  <1>11. ASSUME NEW k \in 0..N PROVE K[k] = IF k = 0 THEN << >> ELSE AddToKnown(K[k - 1], Nth(files, k))
    BY <1>10
  <1>12. K[0] = << >>
    BY <1>1, <1>11
  <1>13. ASSUME NEW k \in 1..N PROVE K[k] = AddToKnown(K[k - 1], Nth(files, k))
    <2>1. k \in 0..N /\ k # 0
      BY <1>1
    <2> QED
      BY <2>1, <1>11
  <1> QED
    BY <1>12, <1>13 DEF K, N

\* mercypak_pack puts every file into exactly one group of the same data, of
\* no more than MaxFilesPerKnownData files.
LEMMA KnownSorted ==
  ASSUME NEW files \in Seq(InFiles)
  PROVE  Sorted(Known(files), files, Len(files))
  <1> DEFINE N == Len(files)
             K == KnownUpTo(files)
             T == {k \in 0..N : Sorted(K[k], files, k)}
  <1>1. N \in Nat
    OBVIOUS
  <1>2. K[0] = << >> /\ \A k \in 1..N : K[k] = AddToKnown(K[k - 1], Nth(files, k))
    BY KnownSteps
  <1>3. Sorted(<< >>, files, 0)
    BY DEF Sorted, Sums
  <1> HIDE DEF K
  <1>4. 0 \in T
    BY <1>1, <1>2, <1>3
  <1>5. ASSUME NEW k \in 1..N, k - 1 \in T PROVE k \in T
    <2>1. Sorted(K[k - 1], files, k - 1)
      BY <1>5
    <2>2. Nth(files, k) \in OutFiles
      BY NthType
    <2>3. /\ Nth(files, k).name = files[k].name
          /\ Nth(files, k).data = files[k].data
          /\ Nth(files, k).meta = k
      BY DEF Nth
    <2>4. Sorted(AddToKnown(K[k - 1], Nth(files, k)), files, k)
      BY <2>1, <2>2, <2>3, SortedAdd
    <2>5. k \in 0..N
      OBVIOUS
    <2> QED
      BY <2>4, <2>5, <1>2
  <1> HIDE DEF T, N
  <1>6. 0..N \subseteq T
    BY <1>1, <1>4, <1>5, UpToInd
  <1>7. N \in T
    BY <1>1, <1>6
  <1>8. Sorted(K[N], files, N)
    BY <1>7 DEF T
  <1> QED
    BY <1>8, KnownIsLast DEF K, N

\* An element of a sequence is in the sequence they are put together to.
Placed(seqs, st, s, i, j) ==
  /\ st[i - 1] - st[0] + j \in 1..Len(s)
  /\ s[st[i - 1] - st[0] + j] = seqs[i][j]

(***************************************************************************)
(* V1.  Taking the groups apart leaves every file in one place.            *)
(***************************************************************************)
LEMMA LayoutPlace ==
  ASSUME NEW seqs, NEW k \in Nat, NEW st \in [0..k -> Nat], NEW s,
         Layout(seqs, st, s, k), NEW i \in 1..k, st[i] = st[i - 1] + Len(seqs[i]),
         NEW j \in 1..Len(seqs[i]), Len(seqs[i]) \in Nat
  PROVE  Placed(seqs, st, s, i, j)
  <1>1. i \in 0..k /\ i - 1 \in 0..k /\ 0 \in 0..k /\ k \in 0..k
    OBVIOUS
  <1>2. st[i] <= st[k] /\ st[0] <= st[i - 1] /\ Len(s) = st[k] - st[0]
    BY <1>1 DEF Layout
  <1>3. st[i] \in Nat /\ st[i - 1] \in Nat /\ st[0] \in Nat /\ st[k] \in Nat
    BY <1>1
  <1>4. s[st[i - 1] - st[0] + j] = seqs[i][j]
    BY DEF Layout
  <1> DEFINE x == st[i - 1]
             y == st[i]
             z == st[0]
             w == st[k]
             l == Len(seqs[i])
  <1>5. /\ x \in Nat /\ y \in Nat /\ z \in Nat /\ w \in Nat /\ l \in Nat
        /\ y = x + l /\ y <= w /\ z <= x /\ j \in 1..l /\ Len(s) = w - z
    BY <1>2, <1>3
  <1> HIDE DEF x, y, z, w, l
  <1>6. x - z + j \in 1..Len(s)
    BY <1>5
  <1> QED
    BY <1>4, <1>6 DEF x, z, Placed

\* Sums of natural numbers exist.
LEMMA SumExists ==
  ASSUME NEW L \in Nat, NEW x \in [1..L -> Nat], NEW a \in Nat
  PROVE  \E n \in [0..L -> Nat] : SumOf(n, x, L, a)
  <1> DEFINE D == [p \in Nat \X Nat |-> IF p[2] \in 1..L THEN p[1] + x[p[2]] ELSE 0]
  <1>1. D \in [Nat \X Nat -> Nat]
    <2> SUFFICES ASSUME NEW p \in Nat \X Nat
                 PROVE  (IF p[2] \in 1..L THEN p[1] + x[p[2]] ELSE 0) \in Nat
      OBVIOUS
    <2>1. p[2] \in 1..L => x[p[2]] \in Nat
      OBVIOUS
    <2>2. p[1] \in Nat
      OBVIOUS
    <2> QED
      BY <2>1, <2>2
  <1>2. \A y \in Nat : \A g \in 1..L : D[<<y, g>>] = y + x[g]
    OBVIOUS
  <1> HIDE DEF D
  <1>3. PICK n \in [0..L -> Nat] : IsRecursive(n, L, a, D)
    BY <1>1, RecursiveExists
  <1>4. n[0] = a /\ \A g \in 1..L : n[g] = D[<<n[g - 1], g>>]
    BY <1>3 DEF IsRecursive
  <1>5. ASSUME NEW g \in 1..L PROVE n[g] = n[g - 1] + x[g]
    <2>1. g - 1 \in 0..L
      OBVIOUS
    <2>2. n[g - 1] \in Nat
      BY <2>1
    <2> QED
      BY <2>2, <1>2, <1>4
  <1> QED
    BY <1>4, <1>5 DEF SumOf

\* A sum of ones.
LEMMA CountUp ==
  ASSUME NEW L \in Nat, NEW n \in [0..L -> Int], n[0] = 0, \A g \in 1..L : n[g] = n[g - 1] + 1
  PROVE  n[L] = L
  <1> DEFINE T == {g \in 0..L : n[g] = g}
  <1>1. 0 \in T
    OBVIOUS
  <1>2. \A g \in 1..L : g - 1 \in T => g \in T
    OBVIOUS
  <1> HIDE DEF T
  <1>3. 0..L \subseteq T
    BY <1>1, <1>2, UpToInd
  <1> QED
    BY <1>3 DEF T

SingleOf(known, g, i) == [data |-> known[g].data, files |-> <<known[g].files[i]>>]
Split(known) == [g \in DOMAIN known |-> [i \in DOMAIN known[g].files |-> SingleOf(known, g, i)]]

LEMMA SinglesIsFlat == \A known : Singles(known) = FlattenSeq(Split(known))
  BY DEF Singles, Split, SingleOf

\* The groups taken apart.
LEMMA SplitFacts ==
  ASSUME NEW known \in Seq(GroupSet)
  PROVE  /\ Split(known) \in Seq(Seq(GroupSet)) /\ Len(Split(known)) = Len(known)
         /\ \A g \in 1..Len(known) :
              /\ Len(Split(known)[g]) = Len(known[g].files)
              /\ \A i \in 1..Len(known[g].files) : Split(known)[g][i] = SingleOf(known, g, i)
  <1> DEFINE S == Split(known)
             L == Len(known)
  <1>1. L \in Nat /\ DOMAIN known = 1..L
    OBVIOUS
  <1>2. ASSUME NEW g \in 1..L
        PROVE  /\ known[g].data \in Seq(Bytes) /\ known[g].files \in Seq(OutFiles)
    <2>1. known[g] \in GroupSet
      BY <1>1
    <2> QED
      BY <2>1 DEF GroupSet
  <1>3. ASSUME NEW g \in 1..L, NEW i \in 1..Len(known[g].files)
        PROVE  SingleOf(known, g, i) \in GroupSet
    <2>1. known[g].files[i] \in OutFiles
      BY <1>2
    <2>2. <<known[g].files[i]>> \in Seq(OutFiles)
      BY <2>1
    <2> QED
      BY <1>2, <2>2 DEF SingleOf, GroupSet
  <1>4. ASSUME NEW g \in 1..L
        PROVE  /\ S[g] \in Seq(GroupSet)
               /\ Len(S[g]) = Len(known[g].files)
               /\ \A i \in 1..Len(known[g].files) : S[g][i] = SingleOf(known, g, i)
    <2> DEFINE fs == known[g].files
    <2>1. fs \in Seq(OutFiles) /\ DOMAIN fs = 1..Len(fs) /\ Len(fs) \in Nat
      BY <1>2
    <2>2. S[g] = [i \in DOMAIN fs |-> SingleOf(known, g, i)]
      BY <1>1 DEF Split
    <2>3. \A i \in 1..Len(fs) : SingleOf(known, g, i) \in GroupSet
      BY <1>3
    <2> HIDE DEF fs, S
    <2>4. S[g] = [i \in 1..Len(fs) |-> SingleOf(known, g, i)]
      BY <2>1, <2>2
    <2>5. /\ S[g] \in Seq(GroupSet) /\ Len(S[g]) = Len(fs)
          /\ \A i \in 1..Len(fs) : S[g][i] = SingleOf(known, g, i)
      BY <2>1, <2>3, <2>4
    <2> QED
      BY <2>5 DEF fs
  <1>5. S = [g \in 1..L |-> S[g]]
    BY <1>1 DEF Split
  <1> HIDE DEF S, L
  <1>6. S \in Seq(Seq(GroupSet)) /\ Len(S) = L
    BY <1>1, <1>4, <1>5
  <1> QED
    BY <1>4, <1>6 DEF S, L

\* V1: the same files, one in each group.
LEMMA SinglesSorted ==
  ASSUME NEW files, NEW k \in Nat, NEW known, Sorted(known, files, k)
  PROVE  /\ Sorted(Singles(known), files, k)
         /\ \A g \in 1..Len(Singles(known)) : Len(Singles(known)[g].files) = 1
  <1> DEFINE S == Singles(known)
             W == Split(known)
             L == Len(known)
             x == [g \in 1..L |-> Len(known[g].files)]
  <1>1. known \in Seq(GroupSet) /\ L \in Nat
    BY DEF Sorted
  <1>2. /\ W \in Seq(Seq(GroupSet)) /\ Len(W) = L
        /\ \A g \in 1..L : /\ Len(W[g]) = Len(known[g].files)
                           /\ \A i \in 1..Len(known[g].files) : W[g][i] = SingleOf(known, g, i)
    BY <1>1, SplitFacts
  <1>3. \A g \in 1..L : Len(known[g].files) \in 1..MaxFilesPerKnownData
    BY DEF Sorted
  <1>4. MaxFilesPerKnownData \in Nat /\ MaxFilesPerKnownData >= 1
    BY LimitsAssumption DEF LimitsAssumption
  <1> HIDE DEF L, W
  <1>5. x \in [1..L -> Nat]
    <2>1. ASSUME NEW g \in 1..L PROVE Len(known[g].files) \in Nat
      BY <1>3, <1>4
    <2> QED
      BY <2>1
  <1>50. \A g \in 1..L : x[g] = Len(known[g].files)
    OBVIOUS
  <1>51. 0 \in Nat
    OBVIOUS
  <1> HIDE DEF x
  <1>52. PICK st \in [0..L -> Nat] : SumOf(st, x, L, 0)
    BY <1>1, <1>5, <1>51, SumExists
  <1>6. st[0] = 0
    BY <1>52 DEF SumOf
  <1>7. \A g \in 1..L : st[g] = st[g - 1] + Len(known[g].files)
    BY <1>50, <1>52 DEF SumOf
  <1>8. S \in Seq(GroupSet) /\ Layout(W, st, S, L)
    <2>1. \A i \in 1..Len(W) : st[i] = st[i - 1] + Len(W[i])
      BY <1>2, <1>7
    <2>2. st \in [0..Len(W) -> Nat]
      BY <1>2
    <2>3. FlattenSeq(W) \in Seq(GroupSet) /\ Layout(W, st, FlattenSeq(W), Len(W))
      BY <1>2, <2>1, <2>2, FlattenLayout
    <2> QED
      BY <1>2, <2>3, SinglesIsFlat DEF W
  <1>9. st[L] = k
    <2>1. Sums(st, known)
      BY <1>6, <1>7 DEF Sums, L
    <2>2. st \in [0..Len(known) -> Int]
      BY <1>6 DEF L
    <2> QED
      BY <2>1, <2>2 DEF Sorted, L
  <1> HIDE DEF S
  <1>10. Len(S) = k
    BY <1>6, <1>8, <1>9 DEF Layout
  <1>11. \A g \in 1..L : \A i \in 1..Len(known[g].files) :
           st[g - 1] + i \in 1..k /\ S[st[g - 1] + i] = SingleOf(known, g, i)
    <2> TAKE g \in 1..L
    <2> TAKE i \in 1..Len(known[g].files)
    <2>1. Len(W[g]) \in Nat /\ i \in 1..Len(W[g]) /\ st[g] = st[g - 1] + Len(W[g])
      BY <1>2, <1>3, <1>4, <1>7
    <2>2. Placed(W, st, S, g, i)
      BY <1>1, <1>8, <2>1, LayoutPlace
    <2>3. st[g - 1] - st[0] = st[g - 1]
      <3>1. g - 1 \in 0..L
        BY <1>1
      <3>2. st[g - 1] \in Nat
        BY <3>1
      <3> QED
        BY <3>2, <1>6
    <2> QED
      BY <2>2, <2>3, <1>2, <1>10 DEF Placed
  <1>12. ASSUME NEW p \in 1..k
         PROVE  \E g \in 1..L : \E i \in 1..Len(known[g].files) :
                  p = st[g - 1] + i /\ S[p] = SingleOf(known, g, i)
    <2>0. PICK g \in 1..L : \E i \in 1..Len(W[g]) : p = st[g - 1] - st[0] + i
      BY <1>8, <1>10 DEF Layout
    <2>1. PICK i \in 1..Len(W[g]) : p = st[g - 1] - st[0] + i
      BY <2>0
    <2>2. i \in 1..Len(known[g].files)
      BY <1>2
    <2>3. st[g - 1] - st[0] = st[g - 1]
      <3>1. g - 1 \in 0..L
        BY <1>1
      <3>2. st[g - 1] \in Nat
        BY <3>1
      <3> QED
        BY <3>2, <1>6
    <2> QED
      BY <2>1, <2>2, <2>3, <1>11
  <1>13. ASSUME NEW p \in 1..k PROVE Len(S[p].files) = 1
    <2>1. PICK g \in 1..L : \E i \in 1..Len(known[g].files) : S[p] = SingleOf(known, g, i)
      BY <1>12
    <2>2. PICK i \in 1..Len(known[g].files) : S[p] = SingleOf(known, g, i)
      BY <2>1
    <2>3. S[p].files = <<known[g].files[i]>>
      BY <2>2 DEF SingleOf
    <2> QED
      BY <2>3
  <1>14. ASSUME NEW p \in 1..k, NEW i \in 1..Len(S[p].files) PROVE FileOK(S, files, k, p, i)
    <2>0. Len(S[p].files) = 1
      BY <1>13
    <2>1. i = 1
      BY <2>0
    <2>20. PICK g \in 1..L : \E j \in 1..Len(known[g].files) : S[p] = SingleOf(known, g, j)
      BY <1>12
    <2>2. PICK j \in 1..Len(known[g].files) : S[p] = SingleOf(known, g, j)
      BY <2>20
    <2>3. FileOK(known, files, k, g, j)
      BY DEF Sorted, L
    <2>4. S[p].data = known[g].data /\ S[p].files[1] = known[g].files[j]
      BY <2>2 DEF SingleOf
    <2> QED
      BY <2>1, <2>3, <2>4 DEF FileOK
  <1>15. ASSUME NEW p \in 1..k, NEW q \in 1..k, S[p].files[1].meta = S[q].files[1].meta
         PROVE  p = q
    <2>10. PICK g \in 1..L : \E i \in 1..Len(known[g].files) : p = st[g - 1] + i /\ S[p] = SingleOf(known, g, i)
      BY <1>12
    <2>1. PICK i \in 1..Len(known[g].files) : p = st[g - 1] + i /\ S[p] = SingleOf(known, g, i)
      BY <2>10
    <2>20. PICK h \in 1..L : \E j \in 1..Len(known[h].files) : q = st[h - 1] + j /\ S[q] = SingleOf(known, h, j)
      BY <1>12
    <2>2. PICK j \in 1..Len(known[h].files) : q = st[h - 1] + j /\ S[q] = SingleOf(known, h, j)
      BY <2>20
    <2>3. known[g].files[i].meta = known[h].files[j].meta
      BY <2>1, <2>2, <1>15 DEF SingleOf
    <2>4. g = h /\ i = j
      BY <2>3 DEF Sorted, L
    <2> QED
      BY <2>1, <2>2, <2>4
  <1>16. ASSUME NEW y \in 1..k
         PROVE  \E p \in 1..k : \E i \in 1..Len(S[p].files) : S[p].files[i].meta = y
    <2>10. PICK g \in 1..L : \E i \in 1..Len(known[g].files) : known[g].files[i].meta = y
      BY DEF Sorted, L
    <2>1. PICK i \in 1..Len(known[g].files) : known[g].files[i].meta = y
      BY <2>10
    <2> DEFINE p == st[g - 1] + i
    <2>2. p \in 1..k /\ S[p] = SingleOf(known, g, i)
      BY <1>11
    <2> HIDE DEF p
    <2>3. S[p].files[1].meta = y /\ 1 \in 1..Len(S[p].files)
      BY <2>1, <2>2 DEF SingleOf
    <2> QED
      BY <2>2, <2>3
  <1>17. ASSUME NEW n \in [0..k -> Int], Sums(n, S) PROVE n[k] = k
    <2>1. n[0] = 0 /\ \A g \in 1..k : n[g] = n[g - 1] + 1
      BY <1>10, <1>13, <1>17 DEF Sums
    <2> QED
      BY <2>1, CountUp
  <1>18. \A p \in 1..k : Len(S[p].files) \in 1..MaxFilesPerKnownData
    <2> TAKE p \in 1..k
    <2>1. Len(S[p].files) = 1
      BY <1>13
    <2> QED
      BY <2>1, <1>4
  <1>19. ASSUME NEW p \in 1..k, NEW q \in 1..k, NEW i \in 1..Len(S[p].files),
                NEW j \in 1..Len(S[q].files), S[p].files[i].meta = S[q].files[j].meta
         PROVE  p = q /\ i = j
    <2>0. Len(S[p].files) = 1 /\ Len(S[q].files) = 1
      BY <1>13
    <2>1. i = 1 /\ j = 1
      BY <2>0
    <2> QED
      BY <2>1, <1>15, <1>19
  <1>20. Sorted(S, files, k)
    BY <1>8, <1>10, <1>14, <1>16, <1>17, <1>18, <1>19 DEF Sorted
  <1> QED
    BY <1>10, <1>13, <1>20 DEF S

AnyCell == [kind : {"header", "dir", "count", "name", "head", "size", "byte"},
            val : UNION {Nat, Names, Bytes, Dirs, Nat \X Nat, Nat \X Nat \X Nat}]
CellSet == {c \in AnyCell : c.kind = "count" => c.val \in Nat}

(***************************************************************************)
(* The cells of one group.                                                 *)
(***************************************************************************)
LEMMA CellType ==
  /\ \A n \in Nat : Cell("count", n) \in CellSet /\ Cell("size", n) \in CellSet
  /\ \A n \in Names : Cell("name", n) \in CellSet
  /\ \A b \in Bytes : Cell("byte", b) \in CellSet
  /\ \A x \in Dirs : Cell("dir", x) \in CellSet
  /\ \A m, n \in Nat : Cell("head", <<m, n>>) \in CellSet
  /\ \A k, m, n \in Nat : Cell("header", <<k, m, n>>) \in CellSet
  BY DEF Cell, CellSet, AnyCell

\* A byte a cell.
LEMMA DataCells ==
  ASSUME NEW group \in GroupSet
  PROVE  /\ Data(group) \in Seq(CellSet) /\ Len(Data(group)) = Len(group.data)
         /\ \A k \in 1..Len(group.data) : Data(group)[k] = Cell("byte", group.data[k])
  <1> DEFINE b == group.data
             D == Data(group)
  <1>1. b \in Seq(Bytes) /\ Len(b) \in Nat /\ DOMAIN b = 1..Len(b)
    BY DEF GroupSet
  <1>2. D = [k \in DOMAIN b |-> Cell("byte", b[k])]
    BY DEF Data
  <1>3. \A k \in 1..Len(b) : Cell("byte", b[k]) \in CellSet
    BY <1>1, CellType
  <1> HIDE DEF b, D
  <1>4. D = [k \in 1..Len(b) |-> Cell("byte", b[k])]
    BY <1>1, <1>2
  <1>5. D \in Seq(CellSet) /\ Len(D) = Len(b) /\ \A k \in 1..Len(b) : D[k] = Cell("byte", b[k])
    BY <1>1, <1>3, <1>4
  <1> QED
    BY <1>5 DEF D, b

\* A group's cells in V1.
LEMMA CellsV1 ==
  ASSUME NEW group \in GroupSet, Len(group.files) = 1
  PROVE  /\ GroupV1(group) \in Seq(CellSet)
         /\ Len(group.data) \in Nat
         /\ Len(GroupV1(group)) = 2 + Len(group.data)
         /\ GroupV1(group)[1] = Cell("name", group.files[1].name)
         /\ GroupV1(group)[2] = Cell("head", <<group.files[1].meta, Len(group.data)>>)
         /\ \A k \in 1..Len(group.data) : GroupV1(group)[2 + k] = Cell("byte", group.data[k])
  <1> DEFINE D == Data(group)
             n == Cell("name", group.files[1].name)
             h == Cell("head", <<group.files[1].meta, Len(group.data)>>)
  <1>1. group.files \in Seq(OutFiles) /\ Len(group.data) \in Nat
    BY DEF GroupSet
  <1>2. group.files[1] \in OutFiles
    BY <1>1
  <1>3. group.files[1].name \in Names /\ group.files[1].meta \in Nat
    BY <1>2 DEF OutFiles
  <1>4. n \in CellSet /\ h \in CellSet
    BY <1>1, <1>3, CellType
  <1>5. D \in Seq(CellSet) /\ Len(D) = Len(group.data)
        /\ \A k \in 1..Len(group.data) : D[k] = Cell("byte", group.data[k])
    BY DataCells
  <1>6. GroupV1(group) = <<n, h>> \o D
    BY DEF GroupV1
  <1> HIDE DEF D, n, h
  <1>7. /\ <<n, h>> \in Seq(CellSet) /\ Len(<<n, h>>) = 2
        /\ <<n, h>>[1] = n /\ <<n, h>>[2] = h
    BY <1>4
  <1> DEFINE p == <<n, h>>
  <1> HIDE DEF p
  <1>8. /\ p \o D \in Seq(CellSet) /\ Len(p \o D) = 2 + Len(group.data)
        /\ (p \o D)[1] = n /\ (p \o D)[2] = h
        /\ \A k \in 1..Len(group.data) : (p \o D)[2 + k] = D[k]
    BY <1>1, <1>5, <1>7 DEF p
  <1> QED
    BY <1>1, <1>5, <1>6, <1>8 DEF p, n, h

Pairs(group) ==
  [k \in DOMAIN group.files |->
    << Cell("name", group.files[k].name), Cell("head", <<group.files[k].meta, 0>>) >>]

\* Two cells for each file of a group.
LEMMA PairCells ==
  ASSUME NEW group \in GroupSet
  PROVE  /\ FlattenSeq(Pairs(group)) \in Seq(CellSet)
         /\ Len(group.files) \in Nat
         /\ Len(FlattenSeq(Pairs(group))) = 2 * Len(group.files)
         /\ \A i \in 1..Len(group.files) :
              /\ FlattenSeq(Pairs(group))[2 * i - 1] = Cell("name", group.files[i].name)
              /\ FlattenSeq(Pairs(group))[2 * i] = Cell("head", <<group.files[i].meta, 0>>)
  <1> DEFINE fs == group.files
             P == Pairs(group)
             F == FlattenSeq(P)
             n(k) == Cell("name", fs[k].name)
             h(k) == Cell("head", <<fs[k].meta, 0>>)
  <1>1. fs \in Seq(OutFiles) /\ Len(fs) \in Nat /\ DOMAIN fs = 1..Len(fs)
    BY DEF GroupSet
  <1>2. P = [k \in 1..Len(fs) |-> <<n(k), h(k)>>]
    BY <1>1 DEF Pairs
  <1>3. ASSUME NEW k \in 1..Len(fs) PROVE n(k) \in CellSet /\ h(k) \in CellSet
    <2>1. fs[k] \in OutFiles
      BY <1>1
    <2>2. fs[k].name \in Names /\ fs[k].meta \in Nat /\ 0 \in Nat
      BY <2>1 DEF OutFiles
    <2> QED
      BY <2>2, CellType
  <1> HIDE DEF fs, P, n, h
  <1>4. ASSUME NEW k \in 1..Len(fs) PROVE <<n(k), h(k)>> \in Seq(CellSet)
    BY <1>3
  <1>5. P \in Seq(Seq(CellSet)) /\ Len(P) = Len(fs)
    <2> DEFINE p(k) == <<n(k), h(k)>>
    <2>1. P = [k \in 1..Len(fs) |-> p(k)]
      BY <1>2
    <2>2. \A k \in 1..Len(fs) : p(k) \in Seq(CellSet)
      BY <1>4
    <2> HIDE DEF p
    <2> QED
      BY <1>1, <2>1, <2>2
  <1>6. \A k \in 1..Len(fs) : P[k] = <<n(k), h(k)>> /\ Len(P[k]) = 2
    BY <1>2
  <1> DEFINE st == [i \in 0..Len(P) |-> 2 * i]
  <1>7. st \in [0..Len(P) -> Nat]
    BY <1>1, <1>5
  <1>8. ASSUME NEW i \in 1..Len(P) PROVE st[i] = st[i - 1] + Len(P[i])
    <2>1. i \in 0..Len(P) /\ i - 1 \in 0..Len(P) /\ i \in 1..Len(fs) /\ i \in Int
      BY <1>1, <1>5
    <2>2. st[i] = 2 * i /\ st[i - 1] = 2 * (i - 1) /\ Len(P[i]) = 2
      BY <2>1, <1>6
    <2> QED
      BY <2>1, <2>2
  <1>9. \A i \in 0..Len(fs) : st[i] = 2 * i
    BY <1>5
  <1> HIDE DEF st, F
  <1>10. F \in Seq(CellSet) /\ Layout(P, st, F, Len(P))
    BY <1>5, <1>7, <1>8, FlattenLayout DEF F
  <1>11. Len(F) = 2 * Len(fs)
    <2>1. st[0] = 0 /\ st[Len(P)] = 2 * Len(fs)
      BY <1>1, <1>5, <1>9
    <2>2. Len(F) = st[Len(P)] - st[0]
      BY <1>10 DEF Layout
    <2> QED
      BY <1>1, <2>1, <2>2
  <1>12. ASSUME NEW i \in 1..Len(fs) PROVE F[2 * i - 1] = n(i) /\ F[2 * i] = h(i)
    <2>0. Len(P[i]) = 2
      BY <1>6
    <2>1. i \in 1..Len(P) /\ 1 \in 1..Len(P[i]) /\ 2 \in 1..Len(P[i])
      BY <1>5, <2>0
    <2>2. F[st[i - 1] - st[0] + 1] = P[i][1] /\ F[st[i - 1] - st[0] + 2] = P[i][2]
      BY <1>10, <2>1 DEF Layout
    <2>3. i - 1 \in 0..Len(fs) /\ 0 \in 0..Len(fs) /\ i \in Int
      BY <1>1
    <2>4. st[i - 1] = 2 * (i - 1) /\ st[0] = 0
      BY <1>9, <2>3
    <2>5. st[i - 1] - st[0] + 1 = 2 * i - 1 /\ st[i - 1] - st[0] + 2 = 2 * i
      BY <2>3, <2>4
    <2>6. P[i][1] = n(i) /\ P[i][2] = h(i)
      BY <1>6
    <2> QED
      BY <2>2, <2>5, <2>6
  <1> QED
    BY <1>1, <1>10, <1>11, <1>12 DEF F, P, n, h, fs

\* A group's cells in V2.
LEMMA CellsV2 ==
  ASSUME NEW group \in GroupSet
  PROVE  /\ GroupV2(group) \in Seq(CellSet)
         /\ Len(group.data) \in Nat /\ Len(group.files) \in Nat
         /\ Len(GroupV2(group)) = 2 + 2 * Len(group.files) + Len(group.data)
         /\ GroupV2(group)[1] = Cell("count", Len(group.files))
         /\ \A i \in 1..Len(group.files) :
              /\ GroupV2(group)[2 * i] = Cell("name", group.files[i].name)
              /\ GroupV2(group)[2 * i + 1] = Cell("head", <<group.files[i].meta, 0>>)
         /\ GroupV2(group)[2 + 2 * Len(group.files)] = Cell("size", Len(group.data))
         /\ \A k \in 1..Len(group.data) :
              GroupV2(group)[2 + 2 * Len(group.files) + k] = Cell("byte", group.data[k])
  <1> DEFINE D == Data(group)
             F == FlattenSeq(Pairs(group))
             c == Cell("count", Len(group.files))
             s == Cell("size", Len(group.data))
             l == Len(group.files)
  <1>1. group.files \in Seq(OutFiles) /\ Len(group.data) \in Nat /\ l \in Nat
    BY DEF GroupSet
  <1>2. c \in CellSet /\ s \in CellSet
    BY <1>1, CellType
  <1>3. D \in Seq(CellSet) /\ Len(D) = Len(group.data)
        /\ \A k \in 1..Len(group.data) : D[k] = Cell("byte", group.data[k])
    BY DataCells
  <1>4. F \in Seq(CellSet) /\ Len(F) = 2 * l
        /\ \A i \in 1..l : F[2 * i - 1] = Cell("name", group.files[i].name)
                           /\ F[2 * i] = Cell("head", <<group.files[i].meta, 0>>)
    BY PairCells
  <1>5. GroupV2(group) = <<c>> \o F \o <<s>> \o D
    BY DEF GroupV2, Pairs
  <1> HIDE DEF D, F, c, s, l
  <1> DEFINE A == <<c>> \o F
  <1>6. A \in Seq(CellSet) /\ Len(A) = 1 + 2 * l /\ A[1] = c
        /\ \A j \in 1..(2 * l) : A[1 + j] = F[j]
    BY <1>1, <1>2, <1>4
  <1> HIDE DEF A
  <1> DEFINE B == A \o <<s>>
  <1>7. B \in Seq(CellSet) /\ Len(B) = 2 + 2 * l
        /\ (\A j \in 1..(1 + 2 * l) : B[j] = A[j]) /\ B[2 + 2 * l] = s
    <2> DEFINE z == <<s>>
    <2>1. z \in Seq(CellSet) /\ Len(z) = 1 /\ z[1] = s
      BY <1>2
    <2> HIDE DEF z
    <2>20. Joined(CellSet, A \o z, A, z)
      BY <1>6, <2>1, Concat
    <2>2. /\ A \o z \in Seq(CellSet) /\ Len(A \o z) = Len(A) + Len(z)
          /\ \A i \in 1..Len(A) : (A \o z)[i] = A[i]
          /\ \A j \in 1..Len(z) : (A \o z)[Len(A) + j] = z[j]
      BY <2>20 DEF Joined
    <2>3. B = A \o z
      BY DEF z
    <2> HIDE DEF B
    <2>4. B[Len(A) + 1] = z[1]
      BY <2>1, <2>2, <2>3
    <2>5. Len(A) + 1 = 2 + 2 * l
      BY <1>1, <1>6
    <2>6. B[2 + 2 * l] = s
      BY <2>1, <2>4, <2>5
    <2>7. Len(B) = 2 + 2 * l
      BY <1>1, <1>6, <2>1, <2>2, <2>3
    <2> QED
      BY <1>6, <2>2, <2>3, <2>6, <2>7
  <1> HIDE DEF B
  <1> DEFINE E == B \o D
  <1>8. E \in Seq(CellSet) /\ Len(E) = 2 + 2 * l + Len(group.data)
        /\ (\A j \in 1..(2 + 2 * l) : E[j] = B[j])
        /\ \A k \in 1..Len(group.data) : E[2 + 2 * l + k] = D[k]
    <2>10. Joined(CellSet, B \o D, B, D)
      BY <1>3, <1>7, Concat
    <2>1. /\ B \o D \in Seq(CellSet) /\ Len(B \o D) = Len(B) + Len(D)
          /\ \A i \in 1..Len(B) : (B \o D)[i] = B[i]
          /\ \A j \in 1..Len(D) : (B \o D)[Len(B) + j] = D[j]
      BY <2>10 DEF Joined
    <2> HIDE DEF E
    <2>2. E = B \o D
      BY DEF E
    <2>3. Len(E) = 2 + 2 * l + Len(group.data)
      BY <1>1, <1>3, <1>7, <2>1, <2>2
    <2> QED
      BY <1>3, <1>7, <2>1, <2>2, <2>3
  <1> HIDE DEF E
  <1>9. E[1] = c /\ E[2 + 2 * l] = s
    <2>1. 1 \in 1..(2 + 2 * l) /\ 1 \in 1..(1 + 2 * l) /\ 2 + 2 * l \in 1..(2 + 2 * l)
      BY <1>1
    <2> QED
      BY <2>1, <1>6, <1>7, <1>8
  <1>10. ASSUME NEW i \in 1..l
         PROVE  /\ E[2 * i] = Cell("name", group.files[i].name)
                /\ E[2 * i + 1] = Cell("head", <<group.files[i].meta, 0>>)
    <2>1. /\ 2 * i \in 1..(2 + 2 * l) /\ 2 * i + 1 \in 1..(2 + 2 * l)
          /\ 2 * i \in 1..(1 + 2 * l) /\ 2 * i + 1 \in 1..(1 + 2 * l)
          /\ 2 * i - 1 \in 1..(2 * l) /\ 2 * i \in 1..(2 * l)
          /\ 1 + (2 * i - 1) = 2 * i /\ 1 + 2 * i = 2 * i + 1
      BY <1>1
    <2>2. E[2 * i] = A[2 * i] /\ E[2 * i + 1] = A[2 * i + 1]
      BY <2>1, <1>7, <1>8
    <2>3. A[1 + (2 * i - 1)] = F[2 * i - 1] /\ A[1 + 2 * i] = F[2 * i]
      BY <2>1, <1>6
    <2>4. A[2 * i] = F[2 * i - 1] /\ A[2 * i + 1] = F[2 * i]
      BY <2>1, <2>3
    <2> QED
      BY <2>2, <2>4, <1>4
  <1>11. GroupV2(group) = E
    BY <1>5 DEF E, B, A
  <1> HIDE DEF E
  <1> QED
    BY <1>1, <1>3, <1>8, <1>9, <1>10, <1>11 DEF c, s, l

(***************************************************************************)
(* The groups of an archive, and their cells.                              *)
(***************************************************************************)
LEMMA InputType ==
  ASSUME NEW in \in Inputs
  PROVE  /\ in.version \in {1, 2} /\ in.dirs \in Seq(Dirs) /\ in.files \in Seq(InFiles)
         /\ Len(in.dirs) \in Nat /\ Len(in.files) \in Nat
  <1>1. in \in [version : {1, 2}, dirs : Seq(Dirs), files : Seq(InFiles)]
    BY InputsAssumption DEF InputsAssumption, InFiles
  <1>2. in.version \in {1, 2} /\ in.dirs \in Seq(Dirs) /\ in.files \in Seq(InFiles)
    BY <1>1
  <1> QED
    BY <1>2

\* Every file that is packed is in exactly one group, in V1 by itself.
LEMMA GroupsSorted ==
  ASSUME NEW in \in Inputs
  PROVE  /\ Sorted(Groups(in), in.files, Len(in.files))
         /\ in.version # 2 => \A g \in 1..Len(Groups(in)) : Len(Groups(in)[g].files) = 1
  <1>1. Sorted(Known(in.files), in.files, Len(in.files))
    BY InputType, KnownSorted
  <1>2. Len(in.files) \in Nat
    BY InputType
  <1>3. CASE in.version = 2
    BY <1>1, <1>3 DEF Groups
  <1>4. CASE in.version # 2
    <2>1. Groups(in) = Singles(Known(in.files))
      BY <1>4 DEF Groups
    <2> QED
      BY <1>1, <1>2, <2>1, SinglesSorted
  <1> QED
    BY <1>3, <1>4

CellsOf(in, k) == IF in.version = 2 THEN GroupV2(Groups(in)[k]) ELSE GroupV1(Groups(in)[k])

\* Groups are well formed, and within the limit.
LEMMA GroupsType ==
  ASSUME NEW in \in Inputs
  PROVE  /\ Groups(in) \in Seq(GroupSet)
         /\ Len(Groups(in)) \in Nat /\ DOMAIN Groups(in) = 1..Len(Groups(in))
         /\ \A g \in 1..Len(Groups(in)) :
              /\ Groups(in)[g] \in GroupSet
              /\ Len(Groups(in)[g].files) \in Nat
              /\ Len(Groups(in)[g].files) \in 1..MaxFilesPerKnownData
              /\ DOMAIN Groups(in)[g].files = 1..Len(Groups(in)[g].files)
              /\ Len(Groups(in)[g].data) \in Nat
  <1>1. Groups(in) \in Seq(GroupSet)
    BY GroupsSorted DEF Sorted
  <1>2. Len(Groups(in)) \in Nat /\ DOMAIN Groups(in) = 1..Len(Groups(in))
    BY <1>1
  <1>3. ASSUME NEW g \in 1..Len(Groups(in))
        PROVE  /\ Groups(in)[g] \in GroupSet
               /\ Len(Groups(in)[g].files) \in Nat
               /\ Len(Groups(in)[g].files) \in 1..MaxFilesPerKnownData
               /\ DOMAIN Groups(in)[g].files = 1..Len(Groups(in)[g].files)
               /\ Len(Groups(in)[g].data) \in Nat
    <2>1. Groups(in)[g] \in GroupSet
      BY <1>1
    <2>2. Groups(in)[g].files \in Seq(OutFiles) /\ Groups(in)[g].data \in Seq(Bytes)
      BY <2>1 DEF GroupSet
    <2>3. Len(Groups(in)[g].files) \in 1..MaxFilesPerKnownData
      BY GroupsSorted DEF Sorted
    <2> QED
      BY <2>1, <2>2, <2>3
  <1> QED
    BY <1>1, <1>2, <1>3

\* The cells of a group, for both versions.
LEMMA CellsType ==
  ASSUME NEW in \in Inputs
  PROVE  /\ Cells(in) \in Seq(Seq(CellSet)) /\ Len(Cells(in)) = Len(Groups(in))
         /\ \A k \in 1..Len(Groups(in)) :
              /\ Cells(in)[k] = CellsOf(in, k) /\ CellsOf(in, k) \in Seq(CellSet)
              /\ Len(Cells(in)[k]) \in Nat
  <1> DEFINE N == Len(Groups(in))
             C == Cells(in)
             c(k) == CellsOf(in, k)
  <1>1. N \in Nat /\ DOMAIN Groups(in) = 1..N
    BY GroupsType
  <1>2. C = [k \in DOMAIN Groups(in) |-> c(k)]
    BY DEF Cells, CellsOf
  <1>3. ASSUME NEW k \in 1..N PROVE c(k) \in Seq(CellSet)
    <2>1. Groups(in)[k] \in GroupSet
      BY GroupsType
    <2>2. CASE in.version = 2
      BY <2>1, <2>2, CellsV2 DEF CellsOf
    <2>3. CASE in.version # 2
      <3>1. Len(Groups(in)[k].files) = 1
        BY <2>3, GroupsSorted
      <3> QED
        BY <2>1, <2>3, <3>1, CellsV1 DEF CellsOf
    <2> QED
      BY <2>2, <2>3
  <1> HIDE DEF N, C, c
  <1>4. C = [k \in 1..N |-> c(k)]
    BY <1>1, <1>2
  <1>5. C \in Seq(Seq(CellSet)) /\ Len(C) = N
    BY <1>1, <1>3, <1>4
  <1>6. ASSUME NEW k \in 1..N PROVE C[k] = c(k) /\ Len(C[k]) \in Nat
    <2>1. C[k] = c(k)
      BY <1>4
    <2> QED
      BY <2>1, <1>3
  <1> QED
    BY <1>3, <1>5, <1>6 DEF N, C, c

\* Sums as recursive functions, in both directions.
LEMMA SumIsFcn ==
  ASSUME NEW L \in Nat, NEW x, NEW a, NEW n \in [0..L -> Nat], SumOf(n, x, L, a)
  PROVE  n = [k \in 0..L |-> IF k = 0 THEN a ELSE n[k - 1] + x[k]]
  <1> DEFINE h == [k \in 0..L |-> IF k = 0 THEN a ELSE n[k - 1] + x[k]]
  <1>1. ASSUME NEW k \in 0..L PROVE n[k] = h[k]
    <2>1. CASE k = 0
      BY <2>1 DEF SumOf
    <2>2. CASE k # 0
      <3>1. k \in 1..L
        BY <2>2
      <3> QED
        BY <2>2, <3>1 DEF SumOf
    <2> QED
      BY <2>1, <2>2
  <1>2. DOMAIN h = 0..L /\ h = [k \in 0..L |-> h[k]]
    OBVIOUS
  <1> HIDE DEF h
  <1>3. n = h
    BY <1>1, <1>2
  <1> QED
    BY <1>3 DEF h

LEMMA FcnIsSum ==
  ASSUME NEW L \in Nat, NEW x, NEW a, NEW n,
         n = [k \in 0..L |-> IF k = 0 THEN a ELSE n[k - 1] + x[k]]
  PROVE  SumOf(n, x, L, a)
  <1>1. ASSUME NEW k \in 0..L PROVE n[k] = IF k = 0 THEN a ELSE n[k - 1] + x[k]
    OBVIOUS
  <1>2. n[0] = a
    <2>1. 0 \in 0..L
      OBVIOUS
    <2> QED
      BY <2>1, <1>1
  <1>3. ASSUME NEW k \in 1..L PROVE n[k] = n[k - 1] + x[k]
    <2>1. k \in 0..L /\ k # 0
      OBVIOUS
    <2>2. n[k] = IF k = 0 THEN a ELSE n[k - 1] + x[k]
      BY <2>1, <1>1
    <2> QED
      BY <2>1, <2>2
  <1> QED
    BY <1>2, <1>3 DEF SumOf

\* Two such sums are the same.
LEMMA SumUnique ==
  ASSUME NEW L \in Nat, NEW x, NEW a, NEW m, NEW n,
         SumOf(m, x, L, a), SumOf(n, x, L, a)
  PROVE  \A k \in 0..L : m[k] = n[k]
  <1> DEFINE T == {k \in 0..L : m[k] = n[k]}
  <1>1. 0 \in T
    BY DEF SumOf
  <1>2. ASSUME NEW k \in 1..L, k - 1 \in T PROVE k \in T
    <2>1. m[k] = m[k - 1] + x[k] /\ n[k] = n[k - 1] + x[k]
      BY DEF SumOf
    <2> QED
      BY <1>2, <2>1
  <1> HIDE DEF T
  <1>3. 0..L \subseteq T
    BY <1>1, <1>2, UpToInd
  <1> QED
    BY <1>3 DEF T

\* Where groups begin.
LEMMA StartsFacts ==
  ASSUME NEW in \in Inputs
  PROVE  /\ Starts(in) \in [0..Len(Groups(in)) -> Nat]
         /\ Starts(in)[0] = 1 + Len(in.dirs)
         /\ \A k \in 1..Len(Groups(in)) : Starts(in)[k] = Starts(in)[k - 1] + Len(Cells(in)[k])
  <1> DEFINE L == Len(Groups(in))
             x == [k \in 1..L |-> Len(Cells(in)[k])]
             a == 1 + Len(in.dirs)
  <1>1. L \in Nat /\ a \in Nat
    BY GroupsType, InputType
  <1>2. ASSUME NEW k \in 1..L PROVE Len(Cells(in)[k]) \in Nat
    BY CellsType
  <1>3. x \in [1..L -> Nat]
    BY <1>2
  <1>4. \A k \in 1..L : x[k] = Len(Cells(in)[k])
    OBVIOUS
  <1> HIDE DEF L, x, a
  <1>5. PICK n \in [0..L -> Nat] : SumOf(n, x, L, a)
    BY <1>1, <1>3, SumExists
  <1>6. n = [k \in 0..L |-> IF k = 0 THEN a ELSE n[k - 1] + x[k]]
    BY <1>1, <1>5, SumIsFcn
  <1>7. n = [k \in 0..L |-> IF k = 0 THEN a ELSE n[k - 1] + Len(Cells(in)[k])]
    <2>1. \A k \in 0..L : (IF k = 0 THEN a ELSE n[k - 1] + x[k]) = (IF k = 0 THEN a ELSE n[k - 1] + Len(Cells(in)[k]))
      BY <1>1, <1>4
    <2>2. [k \in 0..L |-> IF k = 0 THEN a ELSE n[k - 1] + x[k]] = [k \in 0..L |-> IF k = 0 THEN a ELSE n[k - 1] + Len(Cells(in)[k])]
      BY <2>1
    <2> QED
      BY <1>6, <2>2
  <1>8. \E m : m = [k \in 0..L |-> IF k = 0 THEN a ELSE m[k - 1] + Len(Cells(in)[k])]
    BY <1>7
  <1> DEFINE S == Starts(in)
  <1>9. S = [k \in 0..L |-> IF k = 0 THEN a ELSE S[k - 1] + Len(Cells(in)[k])]
    BY <1>8 DEF Starts, L, a
  <1> HIDE DEF S
  <1>10. S = [k \in 0..L |-> IF k = 0 THEN a ELSE S[k - 1] + x[k]]
    <2>1. \A k \in 0..L : (IF k = 0 THEN a ELSE S[k - 1] + x[k]) = (IF k = 0 THEN a ELSE S[k - 1] + Len(Cells(in)[k]))
      BY <1>1, <1>4
    <2>2. [k \in 0..L |-> IF k = 0 THEN a ELSE S[k - 1] + x[k]] = [k \in 0..L |-> IF k = 0 THEN a ELSE S[k - 1] + Len(Cells(in)[k])]
      BY <2>1
    <2> QED
      BY <1>9, <2>2
  <1>11. SumOf(S, x, L, a)
    BY <1>1, <1>10, FcnIsSum
  <1>12. \A k \in 0..L : S[k] = n[k]
    BY <1>1, <1>5, <1>11, SumUnique
  <1>13. S \in [0..L -> Nat]
    BY <1>9, <1>12
  <1>14. S[0] = a /\ \A k \in 1..L : S[k] = S[k - 1] + Len(Cells(in)[k])
    BY <1>4, <1>11 DEF SumOf
  <1> QED
    BY <1>13, <1>14 DEF S, L, a

(***************************************************************************)
(* The archive as a whole.                                                 *)
(***************************************************************************)
LEMMA BeforeFacts ==
  ASSUME NEW in \in Inputs
  PROVE  /\ Before(in) \in [0..Len(Groups(in)) -> Nat]
         /\ Before(in)[0] = 0
         /\ \A k \in 1..Len(Groups(in)) : Before(in)[k] = Before(in)[k - 1] + Len(Groups(in)[k].files)
         /\ Before(in)[Len(Groups(in))] = Len(in.files)
         /\ \A k \in 0..Len(Groups(in)) : Before(in)[k] <= Len(in.files)
         /\ \A k \in 0..(Len(Groups(in)) - 1) : Before(in)[k] < Len(in.files)
  <1> DEFINE L == Len(Groups(in))
             x == [k \in 1..L |-> Len(Groups(in)[k].files)]
             B == Before(in)
  <1>1. L \in Nat
    BY GroupsType
  <1>2. ASSUME NEW k \in 1..L PROVE /\ Len(Groups(in)[k].files) \in Nat
                                    /\ Len(Groups(in)[k].files) >= 1
    <2>1. Len(Groups(in)[k].files) \in 1..MaxFilesPerKnownData
      BY GroupsType
    <2>2. MaxFilesPerKnownData \in Nat
      BY LimitsAssumption DEF LimitsAssumption
    <2> QED
      BY <2>1, <2>2
  <1>3. x \in [1..L -> Nat]
    <2>1. ASSUME NEW k \in 1..L PROVE Len(Groups(in)[k].files) \in Nat
      BY <1>2
    <2> QED
      BY <2>1
  <1>4. \A k \in 1..L : x[k] = Len(Groups(in)[k].files)
    OBVIOUS
  <1>40. 0 \in Nat
    OBVIOUS
  <1> HIDE DEF L, x
  <1>5. PICK n \in [0..L -> Nat] : SumOf(n, x, L, 0)
    BY <1>1, <1>3, <1>40, SumExists
  <1>6. n = [k \in 0..L |-> IF k = 0 THEN 0 ELSE n[k - 1] + x[k]]
    BY <1>1, <1>5, SumIsFcn
  <1>7. n = [k \in 0..L |-> IF k = 0 THEN 0 ELSE n[k - 1] + Len(Groups(in)[k].files)]
    <2>1. \A k \in 0..L : (IF k = 0 THEN 0 ELSE n[k - 1] + x[k]) = (IF k = 0 THEN 0 ELSE n[k - 1] + Len(Groups(in)[k].files))
      BY <1>1, <1>4
    <2>2. [k \in 0..L |-> IF k = 0 THEN 0 ELSE n[k - 1] + x[k]] = [k \in 0..L |-> IF k = 0 THEN 0 ELSE n[k - 1] + Len(Groups(in)[k].files)]
      BY <2>1
    <2> QED
      BY <1>6, <2>2
  <1>8. \E m : m = [k \in 0..L |-> IF k = 0 THEN 0 ELSE m[k - 1] + Len(Groups(in)[k].files)]
    BY <1>7
  <1>9. B = [k \in 0..L |-> IF k = 0 THEN 0 ELSE B[k - 1] + Len(Groups(in)[k].files)]
    BY <1>8 DEF Before, L
  <1> HIDE DEF B
  <1>10. B = [k \in 0..L |-> IF k = 0 THEN 0 ELSE B[k - 1] + x[k]]
    <2>1. \A k \in 0..L : (IF k = 0 THEN 0 ELSE B[k - 1] + x[k]) = (IF k = 0 THEN 0 ELSE B[k - 1] + Len(Groups(in)[k].files))
      BY <1>1, <1>4
    <2>2. [k \in 0..L |-> IF k = 0 THEN 0 ELSE B[k - 1] + x[k]] = [k \in 0..L |-> IF k = 0 THEN 0 ELSE B[k - 1] + Len(Groups(in)[k].files)]
      BY <2>1
    <2> QED
      BY <1>9, <2>2
  <1>11. SumOf(B, x, L, 0)
    BY <1>1, <1>10, FcnIsSum
  <1>12. \A k \in 0..L : B[k] = n[k]
    BY <1>1, <1>5, <1>11, SumUnique
  <1>13. B \in [0..L -> Nat]
    BY <1>9, <1>12
  <1>14. B[0] = 0
    BY <1>11 DEF SumOf
  <1>15. \A k \in 1..L : B[k] = B[k - 1] + Len(Groups(in)[k].files)
    BY <1>4, <1>11 DEF SumOf
  <1>16. B[L] = Len(in.files)
    <2>1. Sums(B, Groups(in))
      BY <1>14, <1>15 DEF Sums, L
    <2>2. B \in [0..Len(Groups(in)) -> Int]
      BY <1>13 DEF L
    <2> QED
      BY <2>1, <2>2, GroupsSorted DEF Sorted, L
  <1> DEFINE T == {k \in 0..L : \A j \in 0..k : j < k => B[j] < B[k]}
  <1>17. 0 \in T
    BY <1>1
  <1>18. ASSUME NEW k \in 1..L, k - 1 \in T PROVE k \in T
    <2>1. ASSUME NEW j \in 0..k, j < k PROVE B[j] < B[k]
      <3> DEFINE l == Len(Groups(in)[k].files)
      <3>1. l \in Nat /\ l >= 1 /\ B[k] = B[k - 1] + l
        BY <1>2, <1>15
      <3>2. k - 1 \in 0..L /\ k \in 0..L /\ j \in 0..(k - 1) /\ j \in 0..L
        BY <1>1, <2>1
      <3>3. B[k - 1] \in Nat /\ B[k] \in Nat /\ B[j] \in Nat
        BY <1>13, <3>2
      <3> HIDE DEF l
      <3>4. CASE j = k - 1
        BY <3>1, <3>3, <3>4
      <3>5. CASE j # k - 1
        <4>1. j < k - 1
          BY <3>2, <3>5
        <4>2. B[j] < B[k - 1]
          BY <1>18, <3>2, <4>1
        <4> QED
          BY <4>2, <3>1, <3>3
      <3> QED
        BY <3>4, <3>5
    <2>2. k \in 0..L
      BY <1>1
    <2> QED
      BY <2>1, <2>2
  <1> HIDE DEF T
  <1>19. 0..L \subseteq T
    BY <1>1, <1>17, <1>18, UpToInd
  <1>20. \A k \in 0..(L - 1) : B[k] < B[L]
    <2> TAKE k \in 0..(L - 1)
    <2>1. L \in 0..L /\ k \in 0..L /\ k < L
      BY <1>1
    <2> QED
      BY <2>1, <1>19 DEF T
  <1>21. \A k \in 0..L : B[k] <= B[L]
    <2> TAKE k \in 0..L
    <2>1. k = L \/ k \in 0..(L - 1)
      BY <1>1
    <2>2. B[k] \in Nat /\ B[L] \in Nat
      BY <1>1, <1>13
    <2> QED
      BY <1>20, <2>1, <2>2
  <1> QED
    BY <1>13, <1>14, <1>15, <1>16, <1>20, <1>21 DEF B, L

\* The cells of an archive.
LEMMA PackFacts ==
  ASSUME NEW in \in Inputs
  PROVE  /\ Pack(in) \in Seq(CellSet)
         /\ Len(Pack(in)) = Starts(in)[Len(Groups(in))]
         /\ Pack(in)[1] = Cell("header", <<in.version, Len(in.dirs), Len(in.files)>>)
         /\ \A i \in 1..Len(in.dirs) : Pack(in)[1 + i] = Cell("dir", in.dirs[i])
         /\ \A k \in 1..Len(Groups(in)) : \A j \in 1..Len(Cells(in)[k]) :
              Pack(in)[Starts(in)[k - 1] + j] = Cells(in)[k][j]
         /\ \A k \in 0..Len(Groups(in)) : Starts(in)[k] <= Len(Pack(in))
  <1> DEFINE N == Len(Groups(in))
             C == Cells(in)
             st == Starts(in)
             F == FlattenSeq(C)
             hd == Cell("header", <<in.version, Len(in.dirs), Len(in.files)>>)
             D == [k \in DOMAIN in.dirs |-> Cell("dir", in.dirs[k])]
             l == Len(in.dirs)
  <1>1. N \in Nat /\ l \in Nat /\ DOMAIN in.dirs = 1..l /\ in.version \in Nat /\ Len(in.files) \in Nat
    BY GroupsType, InputType
  <1>2. hd \in CellSet
    BY <1>1, CellType
  <1>3. ASSUME NEW k \in 1..l PROVE Cell("dir", in.dirs[k]) \in CellSet
    <2>1. in.dirs[k] \in Dirs
      BY InputType
    <2> QED
      BY <2>1, CellType
  <1>4. D \in Seq(CellSet) /\ Len(D) = l /\ \A k \in 1..l : D[k] = Cell("dir", in.dirs[k])
    <2>1. D = [k \in 1..l |-> Cell("dir", in.dirs[k])]
      BY <1>1
    <2> HIDE DEF D, l
    <2> QED
      BY <1>1, <1>3, <2>1
  <1>5. C \in Seq(Seq(CellSet)) /\ Len(C) = N
    BY CellsType
  <1>6. st \in [0..N -> Nat] /\ st[0] = 1 + l /\ \A k \in 1..N : st[k] = st[k - 1] + Len(C[k])
    BY StartsFacts
  <1>7. Pack(in) = <<hd>> \o D \o F
    BY DEF Pack
  <1> HIDE DEF N, C, st, F, hd, D, l
  <1>8. F \in Seq(CellSet) /\ Layout(C, st, F, N)
    <2>1. st \in [0..Len(C) -> Nat] /\ \A i \in 1..Len(C) : st[i] = st[i - 1] + Len(C[i])
      BY <1>5, <1>6
    <2> QED
      BY <1>5, <2>1, FlattenLayout DEF F
  <1> DEFINE A == <<hd>> \o D
  <1>9. /\ A \in Seq(CellSet) /\ Len(A) = 1 + l /\ A[1] = hd
        /\ \A i \in 1..l : A[1 + i] = D[i]
    BY <1>1, <1>2, <1>4
  <1> HIDE DEF A
  <1> DEFINE P == A \o F
  <1>10. Joined(CellSet, P, A, F)
    BY <1>8, <1>9, Concat
  <1> HIDE DEF P
  <1>11. /\ P \in Seq(CellSet) /\ Len(P) = Len(A) + Len(F)
         /\ \A i \in 1..Len(A) : P[i] = A[i]
         /\ \A j \in 1..Len(F) : P[Len(A) + j] = F[j]
    BY <1>10 DEF Joined
  <1>12. Len(F) = st[N] - st[0] /\ \A k \in 0..N : st[k] <= st[N]
    BY <1>8 DEF Layout
  <1>13. Len(P) = st[N]
    <2>1. st[N] \in Nat /\ st[0] \in Nat
      BY <1>1, <1>6
    <2>2. Len(P) = Len(A) + Len(F) /\ Len(A) = 1 + l /\ st[0] = 1 + l /\ Len(F) = st[N] - st[0]
      BY <1>6, <1>9, <1>11, <1>12
    <2> QED
      BY <2>1, <2>2, <1>1
  <1>14. P[1] = hd
    <2>1. 1 \in 1..Len(A)
      BY <1>1, <1>9
    <2> QED
      BY <2>1, <1>9, <1>11
  <1>15. ASSUME NEW i \in 1..l PROVE P[1 + i] = D[i]
    <2>1. 1 + i \in 1..Len(A)
      BY <1>1, <1>9
    <2> QED
      BY <2>1, <1>9, <1>11
  <1>16. ASSUME NEW k \in 1..N, NEW j \in 1..Len(C[k])
         PROVE  P[st[k - 1] + j] = C[k][j]
    <2>1. Len(C[k]) \in Nat /\ st[k] = st[k - 1] + Len(C[k])
      BY <1>6, CellsType DEF C, N
    <2>2. Placed(C, st, F, k, j)
      BY <1>1, <1>6, <1>8, <2>1, LayoutPlace
    <2>3. k - 1 \in 0..N
      BY <1>1
    <2>4. st[k - 1] \in Nat /\ st[0] \in Nat /\ st[0] = 1 + l /\ Len(A) = 1 + l
      BY <2>3, <1>1, <1>6, <1>9
    <2> DEFINE x == st[k - 1] - st[0] + j
    <2>5. x \in 1..Len(F) /\ F[x] = C[k][j]
      BY <2>2 DEF Placed
    <2>6. Len(A) + x = st[k - 1] + j
      BY <2>4, <1>1
    <2> HIDE DEF x
    <2>7. P[Len(A) + x] = F[x]
      BY <2>5, <1>11
    <2> QED
      BY <2>5, <2>6, <2>7
  <1>17. Pack(in) = P
    BY <1>7 DEF P, A
  <1> QED
    BY <1>4, <1>11, <1>12, <1>13, <1>14, <1>15, <1>16, <1>17 DEF N, C, st, hd, l

(***************************************************************************)
(* The stream.                                                             *)
(***************************************************************************)
LEMMA MediumFacts ==
  ASSUME StreamInv
  PROVE  /\ medium \in Seq(CellSet) /\ Len(medium) \in Nat /\ Len(medium) >= 1
         /\ \A p \in 1..Len(medium) : medium[p].kind = "count" => medium[p].val \in Nat
         /\ medium[1].kind = "header"
         /\ \A i \in 1..Len(input.dirs) : medium[1 + i].kind = "dir"
         /\ Version = input.version /\ Version \in {1, 2}
         /\ DirCount = Len(input.dirs) /\ DirCount \in Nat /\ 1 + DirCount <= Len(medium)
         /\ FileCount = Len(input.files) /\ FileCount \in Nat
  <1>1. input \in Inputs /\ medium = Pack(input)
    BY DEF StreamInv
  <1>2. /\ input.version \in {1, 2} /\ Len(input.dirs) \in Nat /\ Len(input.files) \in Nat
    BY <1>1, InputType
  <1>3. /\ Pack(input) \in Seq(CellSet)
        /\ Len(Pack(input)) = Starts(input)[Len(Groups(input))]
        /\ Pack(input)[1] = Cell("header", <<input.version, Len(input.dirs), Len(input.files)>>)
        /\ \A i \in 1..Len(input.dirs) : Pack(input)[1 + i] = Cell("dir", input.dirs[i])
        /\ \A k \in 0..Len(Groups(input)) : Starts(input)[k] <= Len(Pack(input))
    BY <1>1, PackFacts
  <1>4. Starts(input)[0] = 1 + Len(input.dirs)
    BY <1>1, StartsFacts
  <1>5. 0 \in 0..Len(Groups(input))
    BY <1>1, GroupsType
  <1>6. medium \in Seq(CellSet) /\ Len(medium) \in Nat
    BY <1>1, <1>3
  <1>7. Starts(input)[0] <= Len(medium)
    BY <1>1, <1>3, <1>5
  <1>8. Len(medium) >= 1
    BY <1>2, <1>4, <1>6, <1>7
  <1>9. \A p \in 1..Len(medium) : medium[p].kind = "count" => medium[p].val \in Nat
    BY <1>6 DEF CellSet
  <1>10. medium[1].kind = "header"
         /\ \A i \in 1..Len(input.dirs) : medium[1 + i].kind = "dir"
    <2>1. \A kind, val : Cell(kind, val).kind = kind
      BY DEF Cell
    <2>2. medium[1].kind = "header"
      BY <1>1, <1>3, <2>1
    <2>3. ASSUME NEW i \in 1..Len(input.dirs) PROVE medium[1 + i].kind = "dir"
      <3>1. medium[1 + i] = Cell("dir", input.dirs[i])
        BY <1>1, <1>3
      <3> QED
        BY <2>1, <3>1
    <2> QED
      BY <2>2, <2>3
  <1>11. medium[1].val = <<input.version, Len(input.dirs), Len(input.files)>>
    BY <1>1, <1>3 DEF Cell
  <1> DEFINE v == input.version
             x == Len(input.dirs)
             y == Len(input.files)
  <1>12. Version = v /\ DirCount = x /\ FileCount = y
    <2>1. medium[1].val = <<v, x, y>>
      BY <1>11
    <2> HIDE DEF v, x, y
    <2> QED
      BY <2>1 DEF Version, DirCount, FileCount
  <1>13. 1 + DirCount <= Len(medium)
    BY <1>4, <1>7, <1>12
  <1> QED
    BY <1>2, <1>6, <1>8, <1>9, <1>10, <1>12, <1>13

LEMMA InitStream == Init => StreamInv
  <1> SUFFICES ASSUME Init PROVE StreamInv
    OBVIOUS
  <1>1. input \in Inputs /\ medium = Pack(input)
    BY DEF Init
  <1>2. Pack(input) \in Seq(CellSet)
    BY <1>1, PackFacts
  <1>3. Len(medium) \in Nat
    BY <1>1, <1>2
  <1>4. /\ rd = 0 /\ end = Len(medium) /\ success = TRUE /\ failed = FALSE
    BY DEF Init
  <1>5. rd \in Nat /\ end \in Nat /\ rd <= end /\ end <= Len(medium)
    BY <1>3, <1>4
  <1>6. success \in BOOLEAN /\ failed \in BOOLEAN
    BY <1>4
  <1> QED
    BY <1>1, <1>5, <1>6 DEF StreamInv

LEMMA NextStream == StreamInv /\ [Next]_vars => StreamInv'
  <1> SUFFICES ASSUME StreamInv, [Next]_vars PROVE StreamInv'
    OBVIOUS
  <1>1. /\ input \in Inputs /\ medium = Pack(input)
        /\ rd \in Nat /\ end \in Nat /\ rd <= end /\ end <= Len(medium) /\ Len(medium) \in Nat
        /\ success \in BOOLEAN /\ failed \in BOOLEAN
    BY MediumFacts DEF StreamInv
  <1>2. ASSUME NEW n \in Nat, NEW kind, Take(n, kind)
        PROVE  rd' \in Nat /\ end' \in Nat /\ rd' <= end' /\ end' <= Len(medium)
    BY <1>1, <1>2 DEF Take, Served
  <1>3. ASSUME NEW n \in Nat, Lose(n)
        PROVE  rd' \in Nat /\ end' \in Nat /\ rd' <= end' /\ end' <= Len(medium)
    BY <1>1, <1>3 DEF Lose
  <1>4. ASSUME UNCHANGED streamVars
        PROVE  rd' \in Nat /\ end' \in Nat /\ rd' <= end' /\ end' <= Len(medium)
    BY <1>1, <1>4 DEF streamVars
  <1> DEFINE R == rd' \in Nat /\ end' \in Nat /\ rd' <= end' /\ end' <= Len(medium)
             K == input' = input /\ medium' = medium
             B == success' \in BOOLEAN /\ failed' \in BOOLEAN
  <1>5. ASSUME NEW i, NEW h, OpenNext(i, h) PROVE R /\ B
    <2>1. Take(2, "name") \/ Lose(0) \/ Lose(1)
      BY <1>5 DEF OpenNext
    <2>2. B
      BY <1>5, <1>1 DEF OpenNext
    <2> QED
      BY <2>1, <2>2, <1>2, <1>3
  <1>6. CASE Header
    <2>1. Take(1, "header") \/ Lose(0)
      BY <1>6 DEF Header
    <2>2. R
      BY <2>1, <1>2, <1>3
    <2>3. K /\ B
      BY <1>6, <1>1 DEF Header
    <2> QED
      BY <1>1, <2>2, <2>3 DEF StreamInv
  <1>7. CASE CreateDirectory
    <2>1. Take(1, "dir") \/ Lose(0)
      BY <1>7 DEF CreateDirectory
    <2>2. R
      BY <2>1, <1>2, <1>3
    <2>3. K /\ B
      BY <1>7, <1>1 DEF CreateDirectory
    <2> QED
      BY <1>1, <2>2, <2>3 DEF StreamInv
  <1>8. CASE DirectoriesDone
    <2>1. R /\ K /\ B
      BY <1>8, <1>1, <1>4 DEF DirectoriesDone
    <2> QED
      BY <1>1, <2>1 DEF StreamInv
  <1>9. CASE FileV1
    <2>1. OpenNext(1, {0} \X Sizes) /\ K
      BY <1>9 DEF FileV1
    <2>2. R /\ B
      BY <2>1, <1>5
    <2> QED
      BY <1>1, <2>1, <2>2 DEF StreamInv
  <1>10. CASE GroupStart
    <2>1. Take(1, "count") \/ Lose(0)
      BY <1>10 DEF GroupStart
    <2>2. R
      BY <2>1, <1>2, <1>3
    <2>3. K /\ B
      BY <1>10, <1>1 DEF GroupStart
    <2> QED
      BY <1>1, <2>2, <2>3 DEF StreamInv
  <1>11. CASE OpenSubFile
    <2>1. OpenNext(sub + 1, {<<0, 0>>}) /\ K
      BY <1>11 DEF OpenSubFile
    <2>2. R /\ B
      BY <2>1, <1>5
    <2> QED
      BY <1>1, <2>1, <2>2 DEF StreamInv
  <1>12. CASE GroupSize
    <2>1. Take(1, "size") \/ Lose(0)
      BY <1>12 DEF GroupSize
    <2>2. R
      BY <2>1, <1>2, <1>3
    <2>3. K /\ B
      BY <1>12, <1>1 DEF GroupSize
    <2> QED
      BY <1>1, <2>2, <2>3 DEF StreamInv
  <1>13. CASE Copy
    <2>1. Take(1, "byte")
      BY <1>13 DEF Copy
    <2>2. R
      BY <2>1, <1>2
    <2>3. K /\ B
      BY <1>13, <1>1 DEF Copy
    <2> QED
      BY <1>1, <2>2, <2>3 DEF StreamInv
  <1>14. CASE WriteFails
    <2>1. R /\ K /\ B
      BY <1>14, <1>1, <1>4 DEF WriteFails
    <2> QED
      BY <1>1, <2>1 DEF StreamInv
  <1>15. CASE ReadFails
    <2>1. Lose(0) /\ K /\ B
      BY <1>15, <1>1 DEF ReadFails
    <2>2. R
      BY <2>1, <1>3
    <2> QED
      BY <1>1, <2>1, <2>2 DEF StreamInv
  <1>16. CASE CopyReturns
    <2>1. R /\ K
      BY <1>16, <1>1, <1>4 DEF CopyReturns
    <2>2. B
      BY <1>16, <1>1 DEF CopyReturns, CopyResult
    <2> QED
      BY <1>1, <2>1, <2>2 DEF StreamInv
  <1>17. CASE Finish
    <2>1. R /\ K /\ B
      BY <1>17, <1>1, <1>4 DEF Finish
    <2> QED
      BY <1>1, <2>1 DEF StreamInv
  <1>18. CASE FilesDone
    <2>1. R /\ K /\ B
      BY <1>18, <1>1, <1>4 DEF FilesDone
    <2> QED
      BY <1>1, <2>1 DEF StreamInv
  <1>19. CASE Close
    <2>1. R /\ K /\ B
      BY <1>19, <1>1, <1>4 DEF Close
    <2> QED
      BY <1>1, <2>1 DEF StreamInv
  <1>20. CASE Ended
    BY <1>1, <1>20 DEF StreamInv, Ended, vars, streamVars
  <1>22. CASE ReadHangs
    BY <1>1, <1>22 DEF ReadHangs, StreamInv
  <1>21. CASE UNCHANGED vars
    BY <1>1, <1>21 DEF StreamInv, vars, streamVars
  <1> QED
    BY <1>6, <1>7, <1>8, <1>9, <1>10, <1>11, <1>12, <1>13, <1>14, <1>15, <1>16,
       <1>17, <1>18, <1>19, <1>20, <1>21, <1>22 DEF Next

(***************************************************************************)
(* Descriptors: FdsInv is an invariant.                                    *)
(***************************************************************************)
LEMMA NewFdFacts ==
  ASSUME DOMAIN fds \subseteq Nat, IsFiniteSet(DOMAIN fds)
  PROVE  /\ NewFd \in Nat /\ NewFd \notin DOMAIN fds
         /\ Foreign \subseteq DOMAIN fds => NewFd >= 2
  <1> DEFINE D == DOMAIN fds
             c == Cardinality(D)
             T == (0..c) \ D
  <1>1. c \in Nat
    BY FS_CardinalityType
  <1>2. T # {}
    <2> SUFFICES ASSUME 0..c \subseteq D PROVE FALSE
      OBVIOUS
    <2>1. Cardinality(0..c) <= c
      BY FS_Subset
    <2>2. Cardinality(0..c) = c + 1
      <3>1. Cardinality(0..c) = IF 0 > c THEN 0 ELSE c - 0 + 1
        BY <1>1, FS_Interval
      <3> HIDE DEF c
      <3> QED
        BY <1>1, <3>1
    <2> HIDE DEF c
    <2> QED
      BY <1>1, <2>1, <2>2
  <1>3. T \subseteq Nat
    BY <1>1
  <1>4. Min(T) \in T
    BY <1>2, <1>3, MinIn
  <1>5. NewFd = Min(T)
    BY DEF NewFd
  <1> HIDE DEF c
  <1>6. NewFd \in Nat /\ NewFd \notin D
    BY <1>1, <1>4, <1>5
  <1>7. ASSUME Foreign \subseteq D PROVE NewFd >= 2
    BY <1>6, <1>7 DEF Foreign
  <1> QED
    BY <1>6, <1>7

\* What one open does to the slots, the descriptors and the partition.
OpenEffect(i, n) ==
  /\ slots' \in [1..MaxIdentical -> Int]
  /\ DOMAIN fds' \subseteq Nat /\ IsFiniteSet(DOMAIN fds')
  /\ \A j \in 1..MaxIdentical : j # i => slots'[j] = slots[j]
  /\ \/ /\ slots'[i] >= 2 /\ slots'[i] \notin DOMAIN fds
        /\ DOMAIN fds' = DOMAIN fds \union {slots'[i]}
        /\ \A x \in DOMAIN fds : fds'[x] = fds[x]
        /\ fds'[slots'[i]] = [name |-> n, off |-> 0]
        /\ disk' = [x \in DOMAIN disk \union {n} |->
                     IF x = n THEN [data |-> <<>>, meta |-> 0] ELSE disk[x]]
     \/ slots'[i] = -1 /\ UNCHANGED <<fds, disk>>

\* What open does, given what is open.
LEMMA OpenFacts ==
  ASSUME FdsInv, NEW i \in 1..MaxIdentical, NEW n, Open(i, n), Foreign \subseteq DOMAIN fds
  PROVE  OpenEffect(i, n)
  <1>1. /\ slots \in [1..MaxIdentical -> Int]
        /\ DOMAIN fds \subseteq Nat /\ IsFiniteSet(DOMAIN fds)
    BY DEF FdsInv
  <1>2. NewFd \in Nat /\ NewFd \notin DOMAIN fds /\ NewFd >= 2
    BY <1>1, NewFdFacts
  <1>3. CASE slots' = [slots EXCEPT ![i] = -1] /\ UNCHANGED <<fds, disk>>
    BY <1>1, <1>3 DEF OpenEffect
  <1>4. CASE /\ slots' = [slots EXCEPT ![i] = NewFd]
             /\ fds' = [x \in DOMAIN fds \union {NewFd} |->
                          IF x = NewFd THEN [name |-> n, off |-> 0] ELSE fds[x]]
             /\ disk' = [x \in DOMAIN disk \union {n} |->
                          IF x = n THEN [data |-> <<>>, meta |-> 0] ELSE disk[x]]
    <2> DEFINE e == NewFd
    <2> HIDE DEF e
    <2>1. e \in Nat /\ e \notin DOMAIN fds /\ e >= 2
      BY <1>2 DEF e
    <2>2. slots' = [slots EXCEPT ![i] = e]
      BY <1>4 DEF e
    <2>3. fds' = [x \in DOMAIN fds \union {e} |->
                          IF x = e THEN [name |-> n, off |-> 0] ELSE fds[x]]
      BY <1>4 DEF e
    <2>4. DOMAIN fds' = DOMAIN fds \union {e}
      BY <2>3
    <2>5. IsFiniteSet(DOMAIN fds')
      BY <1>1, <2>4, FS_AddElement
    <2>6. slots'[i] = e /\ slots' \in [1..MaxIdentical -> Int]
          /\ \A j \in 1..MaxIdentical : j # i => slots'[j] = slots[j]
      BY <1>1, <2>1, <2>2
    <2>7. (\A x \in DOMAIN fds : fds'[x] = fds[x]) /\ fds'[e] = [name |-> n, off |-> 0]
      BY <2>1, <2>3
    <2>8. DOMAIN fds' \subseteq Nat
      BY <1>1, <2>1, <2>4
    <2>9. disk' = [x \in DOMAIN disk \union {n} |->
                     IF x = n THEN [data |-> <<>>, meta |-> 0] ELSE disk[x]]
      BY <1>4
    <2>10. slots'[i] >= 2 /\ slots'[i] \notin DOMAIN fds /\ DOMAIN fds' = DOMAIN fds \union {slots'[i]}
           /\ fds'[slots'[i]] = [name |-> n, off |-> 0]
      BY <2>1, <2>4, <2>6, <2>7
    <2> QED
      BY <2>5, <2>6, <2>7, <2>8, <2>9, <2>10, Zenon DEF OpenEffect
  <1> QED
    BY <1>3, <1>4 DEF Open

\* What reading a name and opening the file does.
LEMMA OpenNextFds ==
  ASSUME FdsInv, NEW i \in 1..MaxIdentical, NEW h, OpenNext(i, h), Foreign \subseteq DOMAIN fds
  PROVE  /\ slots' \in [1..MaxIdentical -> Int]
         /\ DOMAIN fds' \subseteq Nat /\ IsFiniteSet(DOMAIN fds')
         /\ \A j \in 1..MaxIdentical : j # i => slots'[j] = slots[j]
         /\ \/ /\ slots'[i] >= 2 /\ slots'[i] \notin DOMAIN fds
               /\ DOMAIN fds' = DOMAIN fds \union {slots'[i]}
               /\ \A x \in DOMAIN fds : fds'[x] = fds[x]
               /\ fds'[slots'[i]].off = 0
            \/ slots'[i] = -1 /\ UNCHANGED fds
         /\ success' => success /\ slots'[i] > 0
  <1>1. \E n : Open(i, n)
    BY DEF OpenNext
  <1>2. PICK n : Open(i, n)
    BY <1>1
  <1>3. success' => success /\ slots'[i] > 0
    BY DEF OpenNext, SlotOpened
  <1>40. OpenEffect(i, n)
    BY <1>2, OpenFacts
  <1>4. /\ slots' \in [1..MaxIdentical -> Int]
        /\ DOMAIN fds' \subseteq Nat /\ IsFiniteSet(DOMAIN fds')
        /\ \A j \in 1..MaxIdentical : j # i => slots'[j] = slots[j]
        /\ \/ /\ slots'[i] >= 2 /\ slots'[i] \notin DOMAIN fds
              /\ DOMAIN fds' = DOMAIN fds \union {slots'[i]}
              /\ \A x \in DOMAIN fds : fds'[x] = fds[x]
              /\ fds'[slots'[i]] = [name |-> n, off |-> 0]
           \/ slots'[i] = -1 /\ UNCHANGED fds
    BY <1>40 DEF OpenEffect
  <1> QED
    BY <1>3, <1>4

LEMMA SameVersion == [Next]_vars => input' = input /\ medium' = medium /\ Version' = Version
  <1> SUFFICES ASSUME [Next]_vars PROVE input' = input /\ medium' = medium /\ Version' = Version
    OBVIOUS
  <1>1. input' = input /\ medium' = medium
    BY DEF Next, vars, Header, CreateDirectory, DirectoriesDone, FileV1, GroupStart,
           OpenSubFile, GroupSize, ReadHangs, Copy, WriteFails, ReadFails, CopyReturns,
           Finish, FilesDone, Close, Ended
  <1> QED
    BY <1>1 DEF Version

LEMMA InitFds == Init => FdsInv
  <1> SUFFICES ASSUME Init PROVE FdsInv
    OBVIOUS
  <1>1. /\ pc = "header" /\ success = TRUE /\ slots = [i \in 1..MaxIdentical |-> 0]
        /\ fds = [x \in {0, 1} |-> [name |-> JUNK, off |-> 0]]
    BY DEF Init
  <1>2. slots \in [1..MaxIdentical -> Int]
    BY <1>1
  <1>3. DOMAIN fds = {0, 1} /\ {0, 1} \subseteq Nat
    BY <1>1
  <1>4. IsFiniteSet({0, 1})
    <2>1. IsFiniteSet({0})
      BY FS_Singleton
    <2>2. IsFiniteSet({0} \union {1})
      BY <2>1, FS_AddElement
    <2>3. {0} \union {1} = {0, 1}
      OBVIOUS
    <2> QED
      BY <2>2, <2>3
  <1> QED
    BY <1>1, <1>2, <1>3, <1>4 DEF FdsInv, Foreign

\* Nothing is opened or closed before the files.
LEMMA StartFds == StreamInv /\ FdsInv /\ (Header \/ CreateDirectory \/ DirectoriesDone) => FdsInv'
  <1> SUFFICES ASSUME StreamInv, FdsInv, Header \/ CreateDirectory \/ DirectoriesDone PROVE FdsInv'
    OBVIOUS
  <1>1. /\ pc \in {"header", "dirs"} /\ slots' = slots /\ fds' = fds
        /\ pc' \in {"dirs", "next", "done"} /\ (pc' # "done" => success' = success)
    BY DEF Header, CreateDirectory, DirectoriesDone, groupVars
  <1>2. /\ slots \in [1..MaxIdentical -> Int]
        /\ DOMAIN fds = Foreign /\ DOMAIN fds \subseteq Nat /\ IsFiniteSet(DOMAIN fds) /\ success
    BY <1>1 DEF FdsInv
  <1> QED
    BY <1>1, <1>2 DEF FdsInv, Used

LEMMA GroupStartFds == StreamInv /\ FdsInv /\ GroupStart => FdsInv'
  <1> SUFFICES ASSUME StreamInv, FdsInv, GroupStart PROVE FdsInv'
    OBVIOUS
  <1>1. /\ pc = "next" /\ Version = 2 /\ sub' = 0 /\ slots' = slots /\ fds' = fds
        /\ medium' = medium
    BY DEF GroupStart
  <1>2. pc' \in {"aborted", "open", "close"}
    BY DEF GroupStart
  <1>3. /\ slots \in [1..MaxIdentical -> Int]
        /\ DOMAIN fds \subseteq Nat /\ IsFiniteSet(DOMAIN fds)
        /\ DOMAIN fds \subseteq Foreign \union Used(1, MaxIdentical)
    BY <1>1 DEF FdsInv
  <1>4. pc' = "open" => success /\ success' = success /\ count' \in 0..MaxIdentical
    <2> SUFFICES ASSUME pc' = "open" PROVE success /\ success' = success /\ count' \in 0..MaxIdentical
      OBVIOUS
    <2>1. /\ count' \in Value(0, "count", Sizes) /\ Take(1, "count")
          /\ ~(count' > MaxIdentical) /\ success /\ success' = success
      BY DEF GroupStart
    <2>2. count' \in Nat
      <3>1. /\ Sizes \subseteq Nat
        BY LimitsAssumption DEF LimitsAssumption
      <3>2. rd + 1 \in 1..Len(medium) /\ rd \in Nat
        BY <2>1, MediumFacts DEF StreamInv, Take, Served
      <3>3. medium[rd + 1].kind = "count" => medium[rd + 1].val \in Nat
        BY <3>2, MediumFacts
      <3>4. count' \in Sizes \/ (medium[rd + 0 + 1].kind = "count" /\ count' = medium[rd + 0 + 1].val)
        BY <2>1 DEF Value
      <3>5. rd + 0 + 1 = rd + 1
        BY <3>2
      <3> QED
        BY <3>1, <3>3, <3>4, <3>5
    <2>3. MaxIdentical \in Nat
      BY LimitsAssumption DEF LimitsAssumption
    <2> QED
      BY <2>1, <2>2, <2>3
  <1>5. Version' = 2
    BY <1>1 DEF Version
  <1>6. pc' = "open" => DOMAIN fds = Foreign
    BY <1>1, <1>4 DEF FdsInv
  <1>7. Used(1, MaxIdentical)' = Used(1, MaxIdentical)
    BY <1>1 DEF Used
  <1>8. pc' = "open" => Opened(1, sub)'
    <2> SUFFICES ASSUME pc' = "open" PROVE Opened(1, sub)'
      OBVIOUS
    <2>1. MaxIdentical \in Nat
      BY LimitsAssumption DEF LimitsAssumption
    <2>2. 1..sub' = {}
      BY <1>1
    <2>3. Used(1, sub)' = {}
      BY <2>2 DEF Used
    <2>4. 1 \in 1..(MaxIdentical + 1) /\ sub' \in 0..MaxIdentical
      BY <1>1, <2>1
    <2> QED
      BY <1>1, <1>6, <2>2, <2>3, <2>4 DEF Opened
  <1>9. pc' = "open" => sub' \in 0..count' /\ \A i \in 1..sub' : fds'[slots'[i]].off = 0
    BY <1>1, <1>4
  <1>10. Foreign' = Foreign
    BY DEF Foreign
  <1> QED
    BY <1>1, <1>2, <1>3, <1>4, <1>5, <1>6, <1>7, <1>8, <1>9, <1>10 DEF FdsInv

\* Opening one more file.
LEMMA OneMore ==
  ASSUME FdsInv, NEW i \in 1..MaxIdentical, NEW h, OpenNext(i, h),
         Opened(1, i - 1), \A j \in 1..(i - 1) : fds[slots[j]].off = 0
  PROVE  /\ slots' \in [1..MaxIdentical -> Int]
         /\ DOMAIN fds' \subseteq Nat /\ IsFiniteSet(DOMAIN fds')
         /\ DOMAIN fds' \subseteq Foreign \union Used(1, i)'
         /\ slots'[i] > 0 => /\ Opened(1, i)'
                             /\ \A j \in 1..i : fds'[slots'[j]].off = 0
         /\ success' => success /\ slots'[i] > 0
  <1>0. MaxIdentical \in Nat /\ i \in Nat
    BY LimitsAssumption DEF LimitsAssumption
  <1>1. /\ DOMAIN fds = Foreign \union Used(1, i - 1)
        /\ \A j, k \in 1..(i - 1) : slots[j] = slots[k] => j = k
        /\ \A j \in 1..(i - 1) : slots[j] >= 2
    BY DEF Opened
  <1>2. /\ slots' \in [1..MaxIdentical -> Int]
        /\ DOMAIN fds' \subseteq Nat /\ IsFiniteSet(DOMAIN fds')
        /\ \A j \in 1..MaxIdentical : j # i => slots'[j] = slots[j]
        /\ \/ /\ slots'[i] >= 2 /\ slots'[i] \notin DOMAIN fds
              /\ DOMAIN fds' = DOMAIN fds \union {slots'[i]}
              /\ \A x \in DOMAIN fds : fds'[x] = fds[x]
              /\ fds'[slots'[i]].off = 0
           \/ slots'[i] = -1 /\ UNCHANGED fds
        /\ success' => success /\ slots'[i] > 0
    BY <1>1, OpenNextFds
  <1>3. \A j \in 1..(i - 1) : j \in 1..MaxIdentical /\ slots'[j] = slots[j]
    BY <1>0, <1>2
  <1>4. Used(1, i - 1)' = Used(1, i - 1)
    BY <1>3 DEF Used
  <1>5. Used(1, i)' = Used(1, i - 1) \union {slots'[i]}
    <2>1. 1..i = (1..(i - 1)) \union {i}
      BY <1>0
    <2>2. Used(1, i)' = Used(1, i - 1)' \union {slots'[i]}
      BY <2>1 DEF Used
    <2> QED
      BY <1>4, <2>2
  <1>6. DOMAIN fds' \subseteq Foreign \union Used(1, i)'
    BY <1>1, <1>2, <1>5
  <1>7. ASSUME slots'[i] > 0
        PROVE  Opened(1, i)' /\ \A j \in 1..i : fds'[slots'[j]].off = 0
    <2>1. /\ slots'[i] >= 2 /\ slots'[i] \notin DOMAIN fds
          /\ DOMAIN fds' = DOMAIN fds \union {slots'[i]}
          /\ \A x \in DOMAIN fds : fds'[x] = fds[x]
          /\ fds'[slots'[i]].off = 0
      BY <1>2, <1>7
    <2>2. DOMAIN fds' = Foreign \union Used(1, i)'
      BY <1>1, <1>5, <2>1
    <2>3. \A j \in 1..(i - 1) : slots[j] \in DOMAIN fds
      BY <1>1 DEF Used
    <2>4. ASSUME NEW j \in 1..i, NEW k \in 1..i, slots'[j] = slots'[k] PROVE j = k
      <3>1. CASE j = i /\ k = i
        BY <3>1
      <3>2. CASE j # i /\ k # i
        <4>1. j \in 1..(i - 1) /\ k \in 1..(i - 1)
          BY <1>0, <3>2
        <4> QED
          BY <4>1, <1>1, <1>3, <2>4
      <3>3. CASE j = i /\ k # i
        <4>1. k \in 1..(i - 1)
          BY <1>0, <3>3
        <4> QED
          BY <4>1, <1>3, <2>1, <2>3, <2>4, <3>3
      <3>4. CASE j # i /\ k = i
        <4>1. j \in 1..(i - 1)
          BY <1>0, <3>4
        <4> QED
          BY <4>1, <1>3, <2>1, <2>3, <2>4, <3>4
      <3> QED
        BY <3>1, <3>2, <3>3, <3>4
    <2>5. ASSUME NEW j \in 1..i PROVE slots'[j] >= 2 /\ fds'[slots'[j]].off = 0
      <3>1. CASE j = i
        BY <2>1, <3>1
      <3>2. CASE j # i
        <4>1. j \in 1..(i - 1)
          BY <1>0, <3>2
        <4>2. slots'[j] = slots[j] /\ slots[j] >= 2 /\ slots[j] \in DOMAIN fds
          BY <1>1, <1>3, <2>3, <4>1
        <4>3. fds'[slots'[j]] = fds[slots[j]]
          BY <2>1, <4>2
        <4>4. fds[slots[j]].off = 0
          BY <4>1
        <4> QED
          BY <4>2, <4>3, <4>4
      <3> QED
        BY <3>1, <3>2
    <2>6. 1 \in 1..(MaxIdentical + 1) /\ i \in 0..MaxIdentical
      BY <1>0
    <2>7. Foreign' = Foreign
      BY DEF Foreign
    <2> QED
      BY <2>2, <2>4, <2>5, <2>6, <2>7 DEF Opened
  <1> QED
    BY <1>2, <1>6, <1>7

\* A file of V1 goes into the first slot.
LEMMA FileV1Fds == StreamInv /\ FdsInv /\ FileV1 => FdsInv'
  <1> SUFFICES ASSUME StreamInv, FdsInv, FileV1 PROVE FdsInv'
    OBVIOUS
  <1>1. /\ pc = "next" /\ Version = 1 /\ OpenNext(1, {0} \X Sizes)
        /\ count' = 1 /\ sub' = 0 /\ medium' = medium
    BY DEF FileV1
  <1>2. pc' = IF slots'[1] < 0 THEN "aborted" ELSE CopyFrom
    BY DEF FileV1
  <1>3. DOMAIN fds = Foreign
    BY <1>1 DEF FdsInv
  <1>4. 1 \in 1..MaxIdentical /\ MaxIdentical \in Nat
    <2>1. MaxIdentical \in Nat /\ MaxFilesPerKnownData \in 1..MaxIdentical
      BY LimitsAssumption DEF LimitsAssumption
    <2> QED
      BY <2>1
  <1>5. Opened(1, 0)
    <2>1. 1..0 = {}
      OBVIOUS
    <2> QED
      BY <1>3, <1>4, <2>1 DEF Opened, Used
  <1>6. Opened(1, 1 - 1) /\ \A j \in 1..(1 - 1) : fds[slots[j]].off = 0
    BY <1>5
  <1>7. /\ slots' \in [1..MaxIdentical -> Int]
        /\ DOMAIN fds' \subseteq Nat /\ IsFiniteSet(DOMAIN fds')
        /\ DOMAIN fds' \subseteq Foreign \union Used(1, 1)'
        /\ slots'[1] > 0 => /\ Opened(1, 1)'
                            /\ \A j \in 1..1 : fds'[slots'[j]].off = 0
    BY <1>1, <1>4, <1>6, OneMore
  <1>8. slots'[1] \in Int /\ (slots'[1] >= 2 \/ slots'[1] = -1)
    <2>1. slots'[1] >= 2 \/ slots'[1] = -1
      BY <1>1, <1>3, <1>4, OpenNextFds
    <2> QED
      BY <2>1, <1>4, <1>7
  <1>9. Version' = 1
    BY <1>1 DEF Version
  <1>10. CASE slots'[1] = -1
    <2>1. pc' = "aborted"
      BY <1>2, <1>10
    <2> QED
      BY <1>7, <2>1 DEF FdsInv
  <1>11. CASE slots'[1] >= 2
    <2>1. pc' \in {"copy", "copyFailed"}
      BY <1>2, <1>8, <1>11 DEF CopyFrom
    <2>2. Opened(1, count)' /\ \A j \in 1..1 : fds'[slots'[j]].off = 0
      BY <1>1, <1>7, <1>8, <1>11
    <2>3. \A i, j \in 1..count' : fds'[slots'[i]].off = fds'[slots'[j]].off
      BY <1>1, <2>2
    <2>4. count' \in 0..MaxIdentical
      BY <1>1, <1>4
    <2> QED
      BY <1>1, <1>7, <1>9, <2>1, <2>2, <2>3, <2>4 DEF FdsInv
  <1> QED
    BY <1>8, <1>10, <1>11

\* A file of a group goes into the next slot.
LEMMA OpenSubFileFds == StreamInv /\ FdsInv /\ OpenSubFile => FdsInv'
  <1> SUFFICES ASSUME StreamInv, FdsInv, OpenSubFile PROVE FdsInv'
    OBVIOUS
  <1>1. /\ pc = "open" /\ sub < count /\ OpenNext(sub + 1, {<<0, 0>>})
        /\ sub' = sub + 1 /\ count' = count /\ medium' = medium
        /\ pc' = IF success' THEN "open" ELSE "close"
    BY DEF OpenSubFile
  <1>2. /\ Version = 2 /\ success /\ count \in 0..MaxIdentical /\ sub \in 0..count
        /\ Opened(1, sub) /\ \A i \in 1..sub : fds[slots[i]].off = 0
    BY <1>1 DEF FdsInv
  <1>3. MaxIdentical \in Nat
    BY LimitsAssumption DEF LimitsAssumption
  <1>40. PICK i : i = sub + 1
    OBVIOUS
  <1>4. i \in 1..MaxIdentical /\ i - 1 = sub /\ i \in 0..count
    BY <1>1, <1>2, <1>3, <1>40
  <1>5. Opened(1, i - 1) /\ \A j \in 1..(i - 1) : fds[slots[j]].off = 0
    BY <1>2, <1>4
  <1>6. OpenNext(i, {<<0, 0>>}) /\ sub' = i
    BY <1>1, <1>40
  <1>7. /\ slots' \in [1..MaxIdentical -> Int]
        /\ DOMAIN fds' \subseteq Nat /\ IsFiniteSet(DOMAIN fds')
        /\ DOMAIN fds' \subseteq Foreign \union Used(1, i)'
        /\ slots'[i] > 0 => /\ Opened(1, i)'
                            /\ \A j \in 1..i : fds'[slots'[j]].off = 0
        /\ success' => success /\ slots'[i] > 0
    BY <1>4, <1>5, <1>6, OneMore
  <1>8. Version' = 2
    BY <1>1, <1>2 DEF Version
  <1>9. CASE success'
    <2>1. pc' = "open"
      BY <1>1, <1>9
    <2>2. Opened(1, i)' /\ \A j \in 1..i : fds'[slots'[j]].off = 0
      BY <1>7, <1>9
    <2>3. Opened(1, sub)'
      BY <1>6, <2>2 DEF Opened, Used
    <2> QED
      BY <1>1, <1>2, <1>4, <1>6, <1>7, <1>8, <1>9, <2>1, <2>2, <2>3 DEF FdsInv
  <1>10. CASE ~success'
    <2>1. pc' = "close"
      BY <1>1, <1>10
    <2>2. Used(1, i)' \subseteq Used(1, MaxIdentical)'
      <3>1. 1..i \subseteq 1..MaxIdentical
        BY <1>3, <1>4
      <3> QED
        BY <1>6, <3>1 DEF Used
    <2>3. Foreign' = Foreign
      BY DEF Foreign
    <2> QED
      BY <1>7, <2>1, <2>2, <2>3 DEF FdsInv
  <1> QED
    BY <1>9, <1>10

LEMMA GroupSizeFds == StreamInv /\ FdsInv /\ GroupSize => FdsInv'
  <1> SUFFICES ASSUME StreamInv, FdsInv, GroupSize PROVE FdsInv'
    OBVIOUS
  <1>1. /\ pc = "open" /\ sub = count /\ sub' = 0 /\ count' = count /\ slots' = slots
        /\ fds' = fds /\ medium' = medium /\ pc' = CopyFrom
    BY DEF GroupSize
  <1>2. /\ Version = 2 /\ success /\ count \in 0..MaxIdentical
        /\ Opened(1, count) /\ \A i \in 1..count : fds[slots[i]].off = 0
    BY <1>1 DEF FdsInv
  <1>3. Version' = 2
    BY <1>1, <1>2 DEF Version
  <1>4. Opened(1, count)'
    BY <1>1, <1>2 DEF Opened, Used, Foreign
  <1>5. \A i, j \in 1..count' : fds'[slots'[i]].off = fds'[slots'[j]].off
    BY <1>1, <1>2
  <1>6. /\ slots \in [1..MaxIdentical -> Int]
        /\ DOMAIN fds \subseteq Nat /\ IsFiniteSet(DOMAIN fds)
    BY DEF FdsInv
  <1>7. pc' \in {"copy", "copyFailed"}
    BY <1>1 DEF CopyFrom
  <1> QED
    BY <1>1, <1>2, <1>3, <1>4, <1>5, <1>6, <1>7 DEF FdsInv

\* A byte into some of the files.
LEMMA WriteFds ==
  ASSUME NEW c, NEW k, Write(c, k)
  PROVE  /\ DOMAIN fds' = DOMAIN fds
         /\ \A x \in DOMAIN fds \ Used(1, k) : fds'[x] = fds[x]
         /\ \A x \in DOMAIN fds \intersect Used(1, k) :
              fds'[x] = [name |-> fds[x].name, off |-> fds[x].off + 1]
  <1> DEFINE to == {slots[i] : i \in 1..k}
  <1>1. fds' = [x \in DOMAIN fds |->
                  IF x \in to THEN [name |-> fds[x].name, off |-> fds[x].off + 1] ELSE fds[x]]
    BY DEF Write
  <1>2. to = Used(1, k)
    BY DEF Used
  <1> HIDE DEF to
  <1> QED
    BY <1>1, <1>2

\* Data leaves the descriptors as they are, all at the same place.
LEMMA CopyFds == StreamInv /\ FdsInv /\ (Copy \/ WriteFails \/ ReadFails) => FdsInv'
  <1> SUFFICES ASSUME StreamInv, FdsInv, Copy \/ WriteFails \/ ReadFails PROVE FdsInv'
    OBVIOUS
  <1>1. /\ pc = "copy" /\ count' = count /\ sub' = sub /\ slots' = slots /\ medium' = medium
        /\ pc' \in {"copy", "copyFailed", "hung"}
    BY DEF Copy, WriteFails, ReadFails, groupVars
  <1>2. /\ slots \in [1..MaxIdentical -> Int]
        /\ DOMAIN fds \subseteq Nat /\ IsFiniteSet(DOMAIN fds)
        /\ count \in 0..MaxIdentical /\ (Version = 1 => count = 1)
        /\ sub = 0 /\ Opened(1, count)
        /\ \A i, j \in 1..count : fds[slots[i]].off = fds[slots[j]].off
    BY <1>1 DEF FdsInv
  <1>3. DOMAIN fds' = DOMAIN fds
    <2>1. CASE Copy
      BY <2>1, WriteFds DEF Copy
    <2>2. CASE WriteFails
      BY <2>2, WriteFds DEF WriteFails
    <2>3. CASE ReadFails
      BY <2>3 DEF ReadFails
    <2> QED
      BY <2>1, <2>2, <2>3
  <1>4. Version' = Version
    BY <1>1 DEF Version
  <1>5. Opened(1, count)'
    BY <1>1, <1>2, <1>3 DEF Opened, Used, Foreign
  <1>6. pc' = "copy" => \A i, j \in 1..count' : fds'[slots'[i]].off = fds'[slots'[j]].off
    <2> SUFFICES ASSUME pc' = "copy", NEW i \in 1..count, NEW j \in 1..count
                 PROVE  fds'[slots[i]].off = fds'[slots[j]].off
      BY <1>1
    <2>1. Copy
      BY DEF WriteFails, ReadFails
    <2>2. \E c : Write(c, count)
      BY <2>1 DEF Copy
    <2>3. /\ slots[i] \in DOMAIN fds \intersect Used(1, count)
          /\ slots[j] \in DOMAIN fds \intersect Used(1, count)
      BY <1>2 DEF Opened, Used
    <2>4. \A x \in DOMAIN fds \intersect Used(1, count) :
            fds'[x] = [name |-> fds[x].name, off |-> fds[x].off + 1]
      BY <2>2, WriteFds
    <2>40. ASSUME NEW x \in DOMAIN fds \intersect Used(1, count)
           PROVE  fds'[x].off = fds[x].off + 1
      <3>1. fds'[x] = [name |-> fds[x].name, off |-> fds[x].off + 1]
        BY <2>4
      <3> QED
        BY <3>1
    <2>5. fds'[slots[i]].off = fds[slots[i]].off + 1 /\ fds'[slots[j]].off = fds[slots[j]].off + 1
      BY <2>3, <2>40
    <2> QED
      BY <2>5, <1>2
  <1> QED
    BY <1>1, <1>2, <1>3, <1>4, <1>5, <1>6 DEF FdsInv

\* In V1, and after a success, the files are closed one by one.
LEMMA CopyReturnsFds == StreamInv /\ FdsInv /\ CopyReturns => FdsInv'
  <1> SUFFICES ASSUME StreamInv, FdsInv, CopyReturns PROVE FdsInv'
    OBVIOUS
  <1>1. /\ pc \in {"copy", "copyFailed"} /\ count' = count /\ sub' = sub /\ slots' = slots
        /\ fds' = fds /\ medium' = medium
    BY DEF CopyReturns, groupVars
  <1>2. /\ slots \in [1..MaxIdentical -> Int]
        /\ DOMAIN fds \subseteq Nat /\ IsFiniteSet(DOMAIN fds)
        /\ count \in 0..MaxIdentical /\ (Version = 1 => count = 1)
        /\ sub = 0 /\ Opened(1, count)
    BY <1>1 DEF FdsInv
  <1>3. Version' = Version /\ Version \in {1, 2}
    BY <1>1, MediumFacts DEF Version
  <1>4. MaxIdentical \in Nat
    BY LimitsAssumption DEF LimitsAssumption
  <1>5. Opened(1, count)'
    BY <1>1, <1>2 DEF Opened, Used, Foreign
  <1>6. CASE Version = 1 \/ (success' /\ count > 0)
    <2>1. pc' = "finish"
      BY <1>6 DEF CopyReturns
    <2>2. sub' \in 0..(count' - 1) /\ sub' + 1 = 1
      BY <1>1, <1>2, <1>4, <1>6
    <2>3. Opened(sub + 1, count)'
      BY <1>5, <2>2
    <2> QED
      BY <1>1, <1>2, <1>3, <1>6, <2>1, <2>2, <2>3 DEF FdsInv
  <1>7. CASE ~(Version = 1 \/ (success' /\ count > 0))
    <2>1. pc' = "next" /\ Version = 2
      BY <1>3, <1>7 DEF CopyReturns
    <2>2. DOMAIN fds = Foreign \union Used(1, count)
      BY <1>2 DEF Opened
    <2>3. Used(1, count) \subseteq Used(1, MaxIdentical)
      <3>1. 1..count \subseteq 1..MaxIdentical
        BY <1>2, <1>4
      <3> QED
        BY <3>1 DEF Used
    <2>4. success' => DOMAIN fds = Foreign
      <3> SUFFICES ASSUME success' PROVE DOMAIN fds = Foreign
        OBVIOUS
      <3>1. 1..count = {}
        BY <1>2, <1>4, <1>7
      <3> QED
        BY <2>2, <3>1 DEF Used
    <2>5. Used(1, MaxIdentical)' = Used(1, MaxIdentical) /\ Foreign' = Foreign
      BY <1>1 DEF Used, Foreign
    <2> QED
      BY <1>1, <1>2, <1>3, <2>1, <2>2, <2>3, <2>4, <2>5 DEF FdsInv
  <1> QED
    BY <1>6, <1>7

\* A file is closed, or the group is given up.
LEMMA FinishFds == StreamInv /\ FdsInv /\ Finish => FdsInv'
  <1> SUFFICES ASSUME StreamInv, FdsInv, Finish PROVE FdsInv'
    OBVIOUS
  <1>1. /\ pc = "finish" /\ count' = count /\ sub' = sub + 1 /\ slots' = slots
        /\ medium' = medium /\ fds' = Closed({slots[sub + 1]})
    BY DEF Finish
  <1>2. /\ slots \in [1..MaxIdentical -> Int]
        /\ DOMAIN fds \subseteq Nat /\ IsFiniteSet(DOMAIN fds)
        /\ count \in 0..MaxIdentical /\ (Version = 1 => count = 1)
        /\ sub \in 0..(count - 1) /\ Opened(sub + 1, count)
        /\ Version = 1 \/ success
    BY <1>1 DEF FdsInv
  <1>3. Version' = Version /\ Version \in {1, 2}
    BY <1>1, MediumFacts DEF Version
  <1>4. MaxIdentical \in Nat
    BY LimitsAssumption DEF LimitsAssumption
  <1> DEFINE i == sub + 1
  <1>5. /\ i \in 1..count /\ i \in Nat /\ i = sub + 1
    BY <1>2, <1>4
  <1> HIDE DEF i
  <1>6. /\ DOMAIN fds = Foreign \union Used(i, count)
        /\ \A j, k \in i..count : slots[j] = slots[k] => j = k
        /\ \A j \in i..count : slots[j] >= 2
    BY <1>2, <1>5 DEF Opened
  <1>7. DOMAIN fds' = DOMAIN fds \ {slots[i]}
    BY <1>1, <1>5 DEF Closed
  <1>8. Used(i, count) = {slots[i]} \union Used(i + 1, count)
    <2>1. i..count = {i} \union ((i + 1)..count)
      BY <1>2, <1>4, <1>5
    <2> QED
      BY <2>1 DEF Used
  <1>9. slots[i] \notin Used(i + 1, count)
    <2> SUFFICES ASSUME NEW j \in (i + 1)..count, slots[i] = slots[j] PROVE FALSE
      BY DEF Used
    <2>1. j \in i..count /\ i \in i..count /\ j # i
      BY <1>2, <1>4, <1>5
    <2> QED
      BY <1>6, <2>1
  <1>10. slots[i] \notin Foreign
    <2>1. i \in i..count
      BY <1>5
    <2>2. slots[i] >= 2
      BY <1>6, <2>1
    <2> QED
      BY <2>2 DEF Foreign
  <1>11. DOMAIN fds' = Foreign \union Used(i + 1, count)
    BY <1>6, <1>7, <1>8, <1>9, <1>10
  <1>12. IsFiniteSet(DOMAIN fds') /\ DOMAIN fds' \subseteq Nat
    BY <1>2, <1>7, FS_RemoveElement
  <1>13. Used(i + 1, count) \subseteq Used(1, MaxIdentical)
    <2>1. (i + 1)..count \subseteq 1..MaxIdentical
      BY <1>2, <1>4, <1>5
    <2> QED
      BY <2>1 DEF Used
  <1>14. Used(1, MaxIdentical)' = Used(1, MaxIdentical) /\ Foreign' = Foreign
    BY <1>1 DEF Used, Foreign
  <1>15. CASE sub' = count \/ (Version = 2 /\ ~success')
    <2>1. pc' = "next"
      BY <1>15 DEF Finish
    <2>2. success' \/ Version = 1 => DOMAIN fds' = Foreign
      <3> SUFFICES ASSUME success' \/ Version = 1 PROVE DOMAIN fds' = Foreign
        OBVIOUS
      <3>1. i = count
        BY <1>1, <1>2, <1>5, <1>15
      <3>2. (i + 1)..count = {}
        BY <1>5, <3>1
      <3> QED
        BY <1>11, <3>2 DEF Used
    <2> QED
      BY <1>1, <1>2, <1>3, <1>11, <1>12, <1>13, <1>14, <2>1, <2>2 DEF FdsInv
  <1>16. CASE ~(sub' = count \/ (Version = 2 /\ ~success'))
    <2>1. pc' = "finish"
      BY <1>1, <1>16 DEF Finish
    <2>2. sub' \in 0..(count' - 1) /\ sub' + 1 = i + 1
      BY <1>1, <1>2, <1>4, <1>5, <1>16
    <2>3. Opened(sub + 1, count)'
      <3>1. i + 1 \in 1..(MaxIdentical + 1) /\ (i + 1)..count \subseteq i..count
        BY <1>2, <1>4, <1>5
      <3>2. /\ \A j, k \in (i + 1)..count : slots'[j] = slots'[k] => j = k
            /\ \A j \in (i + 1)..count : slots'[j] >= 2
        BY <1>1, <1>6, <3>1
      <3>3. DOMAIN fds' = Foreign' \union {slots'[j] : j \in (i + 1)..count'}
        BY <1>1, <1>11, <1>14 DEF Used
      <3>4. sub' + 1 \in 1..(MaxIdentical + 1) /\ count' \in 0..MaxIdentical
        BY <1>1, <1>2, <2>2, <3>1
      <3> QED
        BY <1>1, <2>2, <3>2, <3>3, <3>4 DEF Opened, Used
    <2> QED
      BY <1>1, <1>2, <1>3, <1>11, <1>12, <1>14, <1>16, <2>1, <2>2, <2>3 DEF FdsInv
  <1> QED
    BY <1>15, <1>16

\* After a failure V2 closes all the slots there are.
LEMMA EndFds == StreamInv /\ FdsInv /\ (FilesDone \/ Close) => FdsInv'
  <1> SUFFICES ASSUME StreamInv, FdsInv, FilesDone \/ Close PROVE FdsInv'
    OBVIOUS
  <1>1. /\ slots' = slots /\ medium' = medium /\ pc \in {"next", "close"}
        /\ success' = success /\ pc' \in {"close", "done"}
    BY DEF FilesDone, Close, groupVars
  <1>2. /\ slots \in [1..MaxIdentical -> Int]
        /\ DOMAIN fds \subseteq Nat /\ IsFiniteSet(DOMAIN fds)
        /\ DOMAIN fds \subseteq Foreign \union Used(1, MaxIdentical)
    BY <1>1 DEF FdsInv
  <1>3. Version' = Version /\ Version \in {1, 2}
    BY <1>1, MediumFacts DEF Version
  <1>4. Used(1, MaxIdentical)' = Used(1, MaxIdentical) /\ Foreign' = Foreign
    BY <1>1 DEF Used, Foreign
  <1>5. CASE FilesDone
    <2>1. /\ pc = "next" /\ fds' = fds
          /\ pc' = IF Version = 2 /\ ~success THEN "close" ELSE "done"
      BY <1>5 DEF FilesDone
    <2>2. pc' = "done" => DOMAIN fds = Foreign
      BY <2>1, <1>3 DEF FdsInv
    <2> QED
      BY <1>1, <1>2, <1>4, <2>1, <2>2 DEF FdsInv
  <1>6. CASE Close
    <2>1. fds' = Closed(CloseSlots) /\ pc' = "done"
      BY <1>6 DEF Close
    <2>2. DOMAIN fds' = DOMAIN fds \ Used(1, MaxIdentical)
      BY <2>1 DEF Closed, CloseSlots, Used
    <2>3. DOMAIN fds' \subseteq Foreign /\ DOMAIN fds' \subseteq Nat
      BY <1>2, <2>2
    <2>4. IsFiniteSet(DOMAIN fds')
      BY <1>2, <2>2, FS_Subset
    <2> QED
      BY <1>1, <1>2, <1>4, <2>1, <2>3, <2>4 DEF FdsInv
  <1> QED
    BY <1>5, <1>6

LEMMA ReadHangsFds == FdsInv /\ ReadHangs => FdsInv'
  BY DEF FdsInv, ReadHangs, groupVars

LEMMA StutterFds == FdsInv /\ UNCHANGED vars => FdsInv'
  BY DEF FdsInv, vars, streamVars, groupVars, Opened, Used, Foreign, Version

LEMMA NextFds == StreamInv /\ FdsInv /\ [Next]_vars => FdsInv'
  <1> SUFFICES ASSUME StreamInv, FdsInv, [Next]_vars PROVE FdsInv'
    OBVIOUS
  <1>1. CASE Header \/ CreateDirectory \/ DirectoriesDone
    BY <1>1, StartFds
  <1>2. CASE FileV1
    BY <1>2, FileV1Fds
  <1>3. CASE GroupStart
    BY <1>3, GroupStartFds
  <1>4. CASE OpenSubFile
    BY <1>4, OpenSubFileFds
  <1>5. CASE GroupSize
    BY <1>5, GroupSizeFds
  <1>6. CASE Copy \/ WriteFails \/ ReadFails
    BY <1>6, CopyFds
  <1>7. CASE CopyReturns
    BY <1>7, CopyReturnsFds
  <1>8. CASE Finish
    BY <1>8, FinishFds
  <1>9. CASE FilesDone \/ Close
    BY <1>9, EndFds
  <1>10. CASE Ended \/ UNCHANGED vars
    BY <1>10, StutterFds DEF Ended
  <1>11. CASE ReadHangs
    BY <1>11, ReadHangsFds
  <1> QED
    BY <1>1, <1>2, <1>3, <1>4, <1>5, <1>6, <1>7, <1>8, <1>9, <1>10, <1>11 DEF Next

\* Whatever fails, FdsInv holds: the open descriptors are those of the slots
\* that the unpacker goes on to use.
THEOREM SpecDescriptors == Spec => [](StreamInv /\ FdsInv)
  <1>1. Init => StreamInv /\ FdsInv
    BY InitStream, InitFds
  <1>2. StreamInv /\ FdsInv /\ [Next]_vars => (StreamInv /\ FdsInv)'
    BY NextStream, NextFds
  <1> QED
    BY <1>1, <1>2, PTL DEF Spec

\* NoLeak for every archive, every failing call and every limit: when the
\* unpacker (install.c, inst_copyFiles) returns, the archive's files are
\* closed.
THEOREM SpecNoLeak == Spec => []NoLeak
  <1>1. FdsInv => NoLeak
    BY DEF FdsInv, NoLeak
  <1> QED
    BY <1>1, SpecDescriptors, PTL

\* As many descriptors as slots.
LEMMA CountOfUsed ==
  ASSUME Opened(1, count), slots \in [1..MaxIdentical -> Int]
  PROVE  Cardinality(Used(1, count)) = count
  <1>1. MaxIdentical \in Nat /\ count \in 0..MaxIdentical
    BY LimitsAssumption DEF LimitsAssumption, Opened
  <1> DEFINE S == 1..count
             T == Used(1, count)
             g == [i \in S |-> slots[i]]
  <1>2. g \in [S -> T]
    BY DEF Used
  <1>3. \A i, j \in S : g[i] = g[j] => i = j
    BY DEF Opened
  <1>4. \A t \in T : \E i \in S : g[i] = t
    BY DEF Used
  <1>5. IsFiniteSet(S) /\ Cardinality(S) = count
    <2>1. count \in Nat
      BY <1>1
    <2>2. Cardinality(1..count) = IF 1 > count THEN 0 ELSE count - 1 + 1
      BY <2>1, FS_Interval
    <2>3. IsFiniteSet(1..count)
      BY <2>1, FS_Interval
    <2> QED
      BY <2>1, <2>2, <2>3
  <1> HIDE DEF S, T, g
  <1>6. g \in Bijection(S, T)
    BY <1>2, <1>3, <1>4 DEF Bijection, Injection, Surjection, IsInjective
  <1>7. ExistsBijection(S, T)
    BY <1>6 DEF ExistsBijection
  <1>8. Cardinality(T) = Cardinality(S)
    BY <1>5, <1>7, FS_Bijection
  <1> QED
    BY <1>5, <1>8 DEF T

\* WritesToOwnFiles for every archive: mappedFile_copyToFiles is given as
\* many descriptors as the group has files, all different, opened for this
\* group, and at the same place.
THEOREM SpecWritesToOwnFiles == Spec => []WritesToOwnFiles
  <1>1. FdsInv => WritesToOwnFiles
    <2> SUFFICES ASSUME FdsInv, pc = "copy"
                 PROVE  LET used == {slots[i] : i \in 1..count} IN
                        /\ used \subseteq DOMAIN fds \ Foreign
                        /\ Cardinality(used) = count
                        /\ \A x, y \in used : fds[x].off = fds[y].off
      BY DEF WritesToOwnFiles
    <2>1. /\ Opened(1, count) /\ slots \in [1..MaxIdentical -> Int]
          /\ \A i, j \in 1..count : fds[slots[i]].off = fds[slots[j]].off
      BY DEF FdsInv
    <2>2. Used(1, count) = {slots[i] : i \in 1..count}
      BY DEF Used
    <2>3. \A i \in 1..count : slots[i] >= 2
      BY <2>1 DEF Opened
    <2>4. Used(1, count) \subseteq DOMAIN fds \ Foreign
      BY <2>1, <2>2, <2>3 DEF Opened, Foreign
    <2>5. Cardinality(Used(1, count)) = count
      BY <2>1, CountOfUsed
    <2>6. \A x, y \in Used(1, count) : fds[x].off = fds[y].off
      BY <2>1, <2>2
    <2> QED
      BY <2>2, <2>4, <2>5, <2>6
  <1> QED
    BY <1>1, SpecDescriptors, PTL

(***************************************************************************)
(* What the unpacker reads of a group.                                     *)
(***************************************************************************)
\* Group k has n files and l bytes, its cells are those after s, up to e.
GroupAt(k, n, l, s, e) ==
  /\ n = Len(Groups(input)[k].files) /\ l = Len(Groups(input)[k].data)
  /\ s = Starts(input)[k - 1] /\ e = Starts(input)[k]
  /\ n \in 1..MaxIdentical /\ n \in Nat /\ l \in Nat /\ s \in Nat /\ e \in Nat
  /\ e <= Len(medium)
  /\ DOMAIN Groups(input)[k].files = 1..n
  /\ Groups(input)[k].data \in Seq(Bytes)
  /\ \A j \in 1..l : medium[e - l + j] = Cell("byte", Groups(input)[k].data[j])
  /\ Version = 2 =>
       /\ e = s + 2 + 2 * n + l
       /\ medium[s + 1] = Cell("count", n)
       /\ \A i \in 1..n :
            /\ medium[s + 2 * i] = Cell("name", NameOf(input, k, i))
            /\ medium[s + 2 * i + 1] = Cell("head", <<Groups(input)[k].files[i].meta, 0>>)
       /\ medium[s + 2 + 2 * n] = Cell("size", l)
  /\ Version = 1 =>
       /\ n = 1 /\ e = s + 2 + l
       /\ medium[s + 1] = Cell("name", NameOf(input, k, 1))
       /\ medium[s + 2] = Cell("head", <<Groups(input)[k].files[1].meta, l>>)

\* A group and its place in the archive.
LEMMA GroupCells ==
  ASSUME StreamInv, NEW k \in 1..Len(Groups(input))
  PROVE  \E n, l, s, e : GroupAt(k, n, l, s, e)
  <1> DEFINE in == input
             G == Groups(input)[k]
             C == Cells(input)[k]
             m == medium
             c == Len(C)
             n == Len(Groups(input)[k].files)
             l == Len(Groups(input)[k].data)
             s == Starts(input)[k - 1]
             e == Starts(input)[k]
  <1>1. in \in Inputs /\ m = Pack(in) /\ Len(m) \in Nat
    BY MediumFacts DEF StreamInv
  <1>2. /\ G \in GroupSet /\ n \in 1..MaxFilesPerKnownData /\ n \in Nat /\ l \in Nat
        /\ DOMAIN G.files = 1..n
    BY <1>1, GroupsType
  <1>20. G.data \in Seq(Bytes)
    BY <1>2 DEF GroupSet
  <1>4. k - 1 \in 0..Len(Groups(in)) /\ k \in 0..Len(Groups(in))
    <2>1. Len(Groups(in)) \in Nat
      BY <1>1, GroupsType
    <2> QED
      BY <2>1
  <1>5. s \in Nat /\ e \in Nat /\ e = s + c
    BY <1>1, <1>4, StartsFacts
  <1>6. e <= Len(m) /\ \A j \in 1..c : m[s + j] = C[j]
    BY <1>1, <1>4, PackFacts
  <1>7. C = CellsOf(in, k) /\ c \in Nat
    BY <1>1, CellsType
  <1>8. in.version \in {1, 2} /\ Version = in.version
    BY <1>1, InputType, MediumFacts
  <1>81. in.version # 2 => n = 1
    BY <1>1, GroupsSorted
  <1>82. Version = 2 =>
         /\ c = 2 + 2 * n + l
         /\ C[1] = Cell("count", n)
         /\ \A i \in 1..n : /\ C[2 * i] = Cell("name", G.files[i].name)
                            /\ C[2 * i + 1] = Cell("head", <<G.files[i].meta, 0>>)
         /\ C[2 + 2 * n] = Cell("size", l)
         /\ \A j \in 1..l : C[2 + 2 * n + j] = Cell("byte", G.data[j])
    <2> SUFFICES ASSUME Version = 2 
                 PROVE  /\ c = 2 + 2 * n + l
                        /\ C[1] = Cell("count", n)
                        /\ \A i \in 1..n : /\ C[2 * i] = Cell("name", G.files[i].name)
                                           /\ C[2 * i + 1] = Cell("head", <<G.files[i].meta, 0>>)
                        /\ C[2 + 2 * n] = Cell("size", l)
                        /\ \A j \in 1..l : C[2 + 2 * n + j] = Cell("byte", G.data[j])
      OBVIOUS
    <2>1. C = GroupV2(G)
      BY <1>7, <1>8 DEF CellsOf
    <2> QED
      BY <1>2, <2>1, CellsV2
  <1>83. Version = 1 =>
          /\ c = 2 + l
          /\ C[1] = Cell("name", G.files[1].name)
          /\ C[2] = Cell("head", <<G.files[1].meta, l>>)
          /\ \A j \in 1..l : C[2 + j] = Cell("byte", G.data[j])
    <2> SUFFICES ASSUME Version = 1
                 PROVE  /\ c = 2 + l
                        /\ C[1] = Cell("name", G.files[1].name)
                        /\ C[2] = Cell("head", <<G.files[1].meta, l>>)
                        /\ \A j \in 1..l : C[2 + j] = Cell("byte", G.data[j])
      OBVIOUS
    <2>1. C = GroupV1(G) /\ Len(G.files) = 1
      BY <1>7, <1>8, <1>81 DEF CellsOf
    <2> QED
      BY <1>2, <2>1, CellsV1
  <1> HIDE DEF in, G, C, m, c, n, l, s, e
  <1>3. n \in 1..MaxIdentical
    <2>1. MaxIdentical \in Nat /\ MaxFilesPerKnownData \in 1..MaxIdentical
      BY LimitsAssumption DEF LimitsAssumption
    <2> QED
      BY <1>2, <2>1
  <1>30. n \in Nat /\ l \in Nat /\ s \in Nat /\ e \in Nat /\ c \in Nat /\ e = s + c
    BY <1>2, <1>5, <1>7
  <1>9. Version = 2 => /\ e = s + 2 + 2 * n + l
                       /\ m[s + 1] = Cell("count", n)
                       /\ \A i \in 1..n : /\ m[s + 2 * i] = Cell("name", G.files[i].name)
                                          /\ m[s + 2 * i + 1] = Cell("head", <<G.files[i].meta, 0>>)
                       /\ m[s + 2 + 2 * n] = Cell("size", l)
                       /\ \A j \in 1..l : m[e - l + j] = Cell("byte", G.data[j])
    <2> SUFFICES ASSUME Version = 2 
                 PROVE  /\ e = s + 2 + 2 * n + l
                        /\ m[s + 1] = Cell("count", n)
                        /\ \A i \in 1..n : /\ m[s + 2 * i] = Cell("name", G.files[i].name)
                                           /\ m[s + 2 * i + 1] = Cell("head", <<G.files[i].meta, 0>>)
                        /\ m[s + 2 + 2 * n] = Cell("size", l)
                        /\ \A j \in 1..l : m[e - l + j] = Cell("byte", G.data[j])
      OBVIOUS
    <2>1. c = 2 + 2 * n + l
      BY <1>82
    <2>3. e = s + 2 + 2 * n + l
      BY <1>30, <2>1
    <2>4. m[s + 1] = Cell("count", n)
      <3>1. 1 \in 1..c
        BY <1>30, <2>1
      <3> QED
        BY <3>1, <1>6, <1>82
    <2>5. m[s + 2 + 2 * n] = Cell("size", l)
      <3>1. 2 + 2 * n \in 1..c /\ s + (2 + 2 * n) = s + 2 + 2 * n
        BY <1>30, <2>1
      <3>2. m[s + (2 + 2 * n)] = C[2 + 2 * n]
        BY <3>1, <1>6
      <3> QED
        BY <3>1, <3>2, <1>82
    <2>6. ASSUME NEW j \in 1..l PROVE m[e - l + j] = Cell("byte", G.data[j])
      <3>1. 2 + 2 * n + j \in 1..c /\ s + (2 + 2 * n + j) = e - l + j
        BY <1>30, <2>1
      <3>2. m[s + (2 + 2 * n + j)] = C[2 + 2 * n + j]
        BY <3>1, <1>6
      <3> QED
        BY <3>1, <3>2, <1>82
    <2>7. ASSUME NEW i \in 1..n
          PROVE  /\ m[s + 2 * i] = Cell("name", G.files[i].name)
                 /\ m[s + 2 * i + 1] = Cell("head", <<G.files[i].meta, 0>>)
      <3>1. 2 * i \in 1..c /\ 2 * i + 1 \in 1..c /\ s + (2 * i + 1) = s + 2 * i + 1
        BY <1>30, <2>1
      <3>2. m[s + 2 * i] = C[2 * i] /\ m[s + (2 * i + 1)] = C[2 * i + 1]
        BY <3>1, <1>6
      <3> QED
        BY <3>1, <3>2, <1>82
    <2> QED
      BY <2>3, <2>4, <2>5, <2>6, <2>7
  <1>10. Version = 1 => /\ n = 1 /\ e = s + 2 + l
                        /\ m[s + 1] = Cell("name", G.files[1].name)
                        /\ m[s + 2] = Cell("head", <<G.files[1].meta, l>>)
                        /\ \A j \in 1..l : m[e - l + j] = Cell("byte", G.data[j])
    <2> SUFFICES ASSUME Version = 1
                 PROVE  /\ n = 1 /\ e = s + 2 + l
                        /\ m[s + 1] = Cell("name", G.files[1].name)
                        /\ m[s + 2] = Cell("head", <<G.files[1].meta, l>>)
                        /\ \A j \in 1..l : m[e - l + j] = Cell("byte", G.data[j])
      OBVIOUS
    <2>0. n = 1
      BY <1>8, <1>81
    <2>1. c = 2 + l
      BY <1>83
    <2>3. e = s + 2 + l
      BY <1>30, <2>1
    <2>4. m[s + 1] = Cell("name", G.files[1].name) /\ m[s + 2] = Cell("head", <<G.files[1].meta, l>>)
      <3>1. 1 \in 1..c /\ 2 \in 1..c
        BY <1>30, <2>1
      <3> QED
        BY <3>1, <1>6, <1>83
    <2>5. ASSUME NEW j \in 1..l PROVE m[e - l + j] = Cell("byte", G.data[j])
      <3>1. 2 + j \in 1..c /\ s + (2 + j) = e - l + j
        BY <1>30, <2>1
      <3>2. m[s + (2 + j)] = C[2 + j]
        BY <3>1, <1>6
      <3> QED
        BY <3>1, <3>2, <1>83
    <2> QED
      BY <2>0, <2>3, <2>4, <2>5
  <1>11. Version \in {1, 2}
    BY <1>8
  <1>12. \A j \in 1..l : m[e - l + j] = Cell("byte", G.data[j])
    BY <1>9, <1>10, <1>11
  <1>13. \A i : G.files[i].name = NameOf(in, k, i)
    BY DEF NameOf, G, in
  <1>14. /\ n = Len(G.files) /\ l = Len(G.data) /\ s = Starts(in)[k - 1] /\ e = Starts(in)[k]
    BY DEF n, l, s, e, in, G
  <1>15. G = Groups(input)[k] /\ in = input /\ m = medium
    BY DEF G, in, m
  <1>16. GroupAt(k, n, l, s, e)
    BY <1>2, <1>20, <1>3, <1>30, <1>6, <1>9, <1>10, <1>12, <1>13, <1>14, <1>15 DEF GroupAt
  <1> QED
    BY <1>16

\* Whoever is at the end of the archive before a group's data is in the last
\* group, which is empty.
LEMMA EndCells ==
  ASSUME StreamInv, NEW k \in 1..Len(Groups(input)),
         Starts(input)[k] - Len(Groups(input)[k].data) >= Len(medium)
  PROVE  /\ EmptyEnd
         /\ Before(input)[k - 1] + Len(Groups(input)[k].files) = FileCount
  <1>1. Len(Groups(input)) \in Nat /\ input \in Inputs
    BY GroupsType DEF StreamInv
  <1>2. PICK n, l, s, e : GroupAt(k, n, l, s, e)
    BY GroupCells
  <1>20. /\ n \in 1..MaxIdentical /\ n \in Nat /\ l \in Nat /\ s \in Nat /\ e \in Nat /\ e <= Len(medium)
         /\ l = Len(Groups(input)[k].data) /\ e = Starts(input)[k]
    BY <1>2 DEF GroupAt
  <1>21. Len(medium) \in Nat /\ Version \in {1, 2}
    BY MediumFacts
  <1>3. l = 0 /\ e = Len(medium)
    <2>1. e - l >= Len(medium)
      BY <1>20
    <2> QED
      BY <1>20, <1>21, <2>1
  <1>4. k = Len(Groups(input))
    <2> SUFFICES ASSUME k # Len(Groups(input)) PROVE FALSE
      OBVIOUS
    <2>1. k + 1 \in 1..Len(Groups(input)) /\ (k + 1) - 1 = k
      BY <1>1
    <2>2. PICK n2, l2, s2, e2 : GroupAt(k + 1, n2, l2, s2, e2)
      BY <2>1, GroupCells
    <2>3. /\ n2 \in Nat /\ l2 \in Nat /\ s2 \in Nat /\ e2 \in Nat /\ e2 <= Len(medium)
          /\ (Version = 2 => e2 = s2 + 2 + 2 * n2 + l2) /\ (Version = 1 => e2 = s2 + 2 + l2)
          /\ s2 = Starts(input)[(k + 1) - 1]
      BY <2>2 DEF GroupAt
    <2>4. s2 = e
      BY <1>20, <2>1, <2>3
    <2> QED
      BY <1>3, <1>20, <1>21, <2>3, <2>4
  <1>5. EmptyEnd
    <2>1. Last(medium) = medium[Len(medium)]
      BY DEF Last
    <2>2. CASE Version = 2
      <3>1. e = s + 2 + 2 * n + l /\ medium[s + 2 + 2 * n] = Cell("size", l)
        BY <1>2, <2>2 DEF GroupAt
      <3>20. n \in Nat /\ s \in Nat
        BY <1>20
      <3>21. e = s + 2 + 2 * n + 0
        BY <1>3, <3>1
      <3>22. e = s + 2 + 2 * n
        BY <3>20, <3>21
      <3>2. Len(medium) = s + 2 + 2 * n
        BY <1>3, <3>22
      <3>3. Last(medium) = Cell("size", l)
        BY <2>1, <3>1, <3>2
      <3> QED
        BY <3>3 DEF EmptyEnd, Cell
    <2>3. CASE Version = 1
      <3>1. e = s + 2 + l /\ medium[s + 2] = Cell("head", <<Groups(input)[k].files[1].meta, l>>)
        BY <1>2, <2>3 DEF GroupAt
      <3>20. s \in Nat
        BY <1>20
      <3>21. e = s + 2 + 0
        BY <1>3, <3>1
      <3>22. e = s + 2
        BY <3>20, <3>21
      <3>2. Len(medium) = s + 2
        BY <1>3, <3>22
      <3>3. Last(medium) = Cell("head", <<Groups(input)[k].files[1].meta, l>>)
        BY <2>1, <3>1, <3>2
      <3> QED
        BY <3>3 DEF EmptyEnd, Cell
    <2> QED
      BY <1>21, <2>2, <2>3
  <1>6. Before(input)[k] = Before(input)[k - 1] + Len(Groups(input)[k].files)
    BY <1>1, BeforeFacts
  <1>7. Before(input)[k] = Len(input.files) /\ FileCount = Len(input.files)
    BY <1>1, <1>4, BeforeFacts, MediumFacts
  <1> QED
    BY <1>5, <1>6, <1>7

(***************************************************************************)
(* The partition while a group is unpacked to it.                          *)
(***************************************************************************)
LEMMA HoldsPartly ==
  ASSUME NEW in, NEW files, NEW k \in Nat, Holds(in, files, k - 1)
  PROVE  Partly(in, files, k, 0, 0, 0)
  <1>1. NamesIn(in, k, 0) = {}
    BY DEF NamesIn
  <1>2. 1..0 = {}
    OBVIOUS
  <1> QED
    BY <1>1, <1>2 DEF Holds, Partly

\* A name in a group is a name up to it.
LEMMA NameUpTo ==
  ASSUME NEW in \in Inputs, NEW k \in 0..Len(Groups(in)), NEW g \in 1..k,
         NEW i \in DOMAIN Groups(in)[g].files
  PROVE  NameOf(in, g, i) \in NamesUpTo(in, k)
  <1>1. Len(Groups(in)) \in Nat
    BY GroupsType
  <1>2. g \in 1..Len(Groups(in))
    BY <1>1
  <1>3. DOMAIN Groups(in)[g].files = 1..Len(Groups(in)[g].files)
    BY <1>2, GroupsType
  <1>4. NameOf(in, g, i) \in NamesIn(in, g, Len(Groups(in)[g].files))
    BY <1>3 DEF NamesIn
  <1> QED
    BY <1>4 DEF NamesUpTo

\* A file is opened: it is on the partition, empty.
LEMMA PartlyOpened ==
  ASSUME NEW in \in Inputs, NEW k \in 1..Len(Groups(in)),
         NEW files, NEW more, NEW n \in Nat, Partly(in, files, k, n, 0, 0),
         NEW x, x = NameOf(in, k, n + 1), Groups(in)[k].data \in Seq(Bytes),
         more = [y \in DOMAIN files \union {x} |->
                   IF y = x THEN [data |-> <<>>, meta |-> 0] ELSE files[y]]
  PROVE  Partly(in, more, k, n + 1, 0, 0)
  <1>1. 1..(n + 1) = (1..n) \union {n + 1}
    OBVIOUS
  <1>2. NamesIn(in, k, n + 1) = NamesIn(in, k, n) \union {x}
    BY <1>1 DEF NamesIn
  <1>3. DOMAIN more = DOMAIN files \union {x}
        /\ \A y \in DOMAIN files : y # x => more[y] = files[y]
    OBVIOUS
  <1>4. more[x].data = <<>>
    OBVIOUS
  <1>5. DOMAIN files = NamesUpTo(in, k - 1) \union NamesIn(in, k, n)
    BY DEF Partly
  <1>6. DOMAIN more = NamesUpTo(in, k - 1) \union NamesIn(in, k, n + 1)
    BY <1>2, <1>3, <1>5
  <1>7. ASSUME NEW g \in 1..(k - 1), NEW i \in DOMAIN Groups(in)[g].files,
               LastOne(in, k - 1, g, i), NameOf(in, g, i) \notin NamesIn(in, k, n + 1)
        PROVE  IsPacked(in, more, g, i)
    <2>1. NameOf(in, g, i) # x /\ NameOf(in, g, i) \notin NamesIn(in, k, n)
      BY <1>2, <1>7
    <2>2. IsPacked(in, files, g, i)
      BY <1>7, <2>1 DEF Partly
    <2>3. more[NameOf(in, g, i)] = files[NameOf(in, g, i)]
      <3>1. k - 1 \in 0..Len(Groups(in))
        <4>1. Len(Groups(in)) \in Nat
          BY GroupsType
        <4> QED
          BY <4>1
      <3>2. NameOf(in, g, i) \in DOMAIN files
        BY <1>5, <3>1, NameUpTo
      <3> QED
        BY <1>3, <2>1, <3>2
    <2> QED
      BY <2>2, <2>3 DEF IsPacked
  <1>8. SubSeq(Groups(in)[k].data, 1, 0) = <<>>
    OBVIOUS
  <1>9. ASSUME NEW i \in 1..(n + 1)
        PROVE  more[NameOf(in, k, i)].data = SubSeq(Groups(in)[k].data, 1, 0)
    <2>1. CASE NameOf(in, k, i) = x
      BY <1>4, <1>8, <2>1
    <2>2. CASE NameOf(in, k, i) # x
      <3>1. i \in 1..n
        BY <2>2
      <3>2. NameOf(in, k, i) \in DOMAIN files
        BY <1>5, <3>1 DEF NamesIn
      <3>3. more[NameOf(in, k, i)] = files[NameOf(in, k, i)]
        BY <1>3, <2>2, <3>2
      <3> QED
        BY <3>1, <3>3 DEF Partly
    <2> QED
      BY <2>1, <2>2
  <1>10. 1..0 = {}
    OBVIOUS
  <1> QED
    BY <1>6, <1>7, <1>9, <1>10 DEF Partly

\* The next byte is in all the files of the group.
LEMMA PartlyWritten ==
  ASSUME NEW in, NEW k, NEW files, NEW more, NEW n \in Nat, NEW off \in Nat,
         Partly(in, files, k, n, 0, off),
         Groups(in)[k].data \in Seq(Bytes), off < Len(Groups(in)[k].data),
         DOMAIN more = DOMAIN files,
         \A y \in DOMAIN files : y \notin NamesIn(in, k, n) => more[y] = files[y],
         \A i \in 1..n : more[NameOf(in, k, i)].data =
            SubSeq(files[NameOf(in, k, i)].data, 1, off) \o <<Groups(in)[k].data[off + 1]>>,
         \A g \in 1..(k - 1) : \A i \in DOMAIN Groups(in)[g].files :
            NameOf(in, g, i) \in NamesUpTo(in, k - 1)
  PROVE  Partly(in, more, k, n, 0, off + 1)
  <1> DEFINE data == Groups(in)[k].data
  <1>1. DOMAIN files = NamesUpTo(in, k - 1) \union NamesIn(in, k, n)
    BY DEF Partly
  <1>2. ASSUME NEW g \in 1..(k - 1), NEW i \in DOMAIN Groups(in)[g].files,
               LastOne(in, k - 1, g, i), NameOf(in, g, i) \notin NamesIn(in, k, n)
        PROVE  IsPacked(in, more, g, i)
    <2>1. IsPacked(in, files, g, i)
      BY <1>2 DEF Partly
    <2>2. NameOf(in, g, i) \in DOMAIN files
      BY <1>1
    <2>3. more[NameOf(in, g, i)] = files[NameOf(in, g, i)]
      BY <1>2, <2>2
    <2> QED
      BY <2>1, <2>3 DEF IsPacked
  <1>3. SubSeq(SubSeq(data, 1, off), 1, off) \o <<data[off + 1]>> = SubSeq(data, 1, off + 1)
    <2>1. data \in Seq(Bytes) /\ off \in Nat /\ off < Len(data) /\ Len(data) \in Nat
      OBVIOUS
    <2> HIDE DEF data
    <2>2. SubSeq(data, 1, off) \in Seq(Bytes) /\ Len(SubSeq(data, 1, off)) = off
      BY <2>1
    <2>3. SubSeq(SubSeq(data, 1, off), 1, off) = SubSeq(data, 1, off)
      BY <2>1, <2>2
    <2>4. SubSeq(data, 1, off) \o <<data[off + 1]>> = SubSeq(data, 1, off + 1)
      BY <2>1, <2>2
    <2> QED
      BY <2>3, <2>4
  <1>4. ASSUME NEW i \in 1..n
        PROVE  more[NameOf(in, k, i)].data = SubSeq(Groups(in)[k].data, 1, off + 1)
    <2>1. files[NameOf(in, k, i)].data = SubSeq(data, 1, off)
      BY DEF Partly
    <2>2. more[NameOf(in, k, i)].data = SubSeq(files[NameOf(in, k, i)].data, 1, off) \o <<data[off + 1]>>
      OBVIOUS
    <2> HIDE DEF data
    <2>3. more[NameOf(in, k, i)].data = SubSeq(data, 1, off + 1)
      BY <1>3, <2>1, <2>2
    <2> QED
      BY <2>3 DEF data
  <1>5. 1..0 = {}
    OBVIOUS
  <1> QED
    BY <1>1, <1>2, <1>4, <1>5 DEF Partly

\* One more file has its time and attributes.
LEMMA PartlyFinished ==
  ASSUME NEW in, NEW k, NEW files, NEW more, NEW n \in Nat, NEW m \in 0..(n - 1), NEW off,
         Partly(in, files, k, n, m, off),
         NEW x, x = NameOf(in, k, m + 1),
         more = [files EXCEPT ![x] = [data |-> files[x].data, meta |-> Groups(in)[k].files[m + 1].meta]],
         \A g \in 1..(k - 1) : \A i \in DOMAIN Groups(in)[g].files :
            NameOf(in, g, i) \in NamesUpTo(in, k - 1)
  PROVE  Partly(in, more, k, n, m + 1, off)
  <1>1. DOMAIN files = NamesUpTo(in, k - 1) \union NamesIn(in, k, n)
    BY DEF Partly
  <1>2. m + 1 \in 1..n
    OBVIOUS
  <1>3. x \in NamesIn(in, k, n) /\ x \in DOMAIN files
    BY <1>1, <1>2 DEF NamesIn
  <1>4. /\ DOMAIN more = DOMAIN files
        /\ \A y \in DOMAIN files : y # x => more[y] = files[y]
        /\ more[x].data = files[x].data /\ more[x].meta = Groups(in)[k].files[m + 1].meta
    BY <1>3
  <1>5. ASSUME NEW g \in 1..(k - 1), NEW i \in DOMAIN Groups(in)[g].files,
               LastOne(in, k - 1, g, i), NameOf(in, g, i) \notin NamesIn(in, k, n)
        PROVE  IsPacked(in, more, g, i)
    <2>1. IsPacked(in, files, g, i)
      BY <1>5 DEF Partly
    <2>2. NameOf(in, g, i) \in DOMAIN files
      BY <1>1
    <2>3. more[NameOf(in, g, i)] = files[NameOf(in, g, i)]
      BY <1>3, <1>4, <1>5, <2>2
    <2> QED
      BY <2>1, <2>3 DEF IsPacked
  <1>6. ASSUME NEW i \in 1..n
        PROVE  more[NameOf(in, k, i)].data = SubSeq(Groups(in)[k].data, 1, off)
    <2>1. files[NameOf(in, k, i)].data = SubSeq(Groups(in)[k].data, 1, off)
      BY DEF Partly
    <2>2. NameOf(in, k, i) \in DOMAIN files
      BY <1>1 DEF NamesIn
    <2>3. more[NameOf(in, k, i)].data = files[NameOf(in, k, i)].data
      BY <1>4, <2>2
    <2> QED
      BY <2>1, <2>3
  <1>7. ASSUME NEW i \in 1..(m + 1), \A j \in (i + 1)..(m + 1) : NameOf(in, k, j) # NameOf(in, k, i)
        PROVE  more[NameOf(in, k, i)].meta = Groups(in)[k].files[i].meta
    <2>1. CASE i = m + 1
      BY <1>4, <2>1
    <2>2. CASE i # m + 1
      <3>1. i \in 1..m /\ m + 1 \in (i + 1)..(m + 1) /\ i \in 1..n
        BY <2>2
      <3>2. NameOf(in, k, i) # x
        BY <1>7, <3>1
      <3>3. \A j \in (i + 1)..m : NameOf(in, k, j) # NameOf(in, k, i)
        BY <1>7
      <3>4. files[NameOf(in, k, i)].meta = Groups(in)[k].files[i].meta
        BY <3>1, <3>3 DEF Partly
      <3>5. NameOf(in, k, i) \in DOMAIN files
        BY <1>1, <3>1 DEF NamesIn
      <3> QED
        BY <1>4, <3>2, <3>4, <3>5
    <2> QED
      BY <2>1, <2>2
  <1> QED
    BY <1>1, <1>4, <1>5, <1>6, <1>7 DEF Partly

\* Then the group is done.
LEMMA PartlyHolds ==
  ASSUME NEW in \in Inputs, NEW k \in 1..Len(Groups(in)), NEW files,
         NEW n, n = Len(Groups(in)[k].files),
         Partly(in, files, k, n, n, Len(Groups(in)[k].data)),
         \A y \in DOMAIN files : files[y] = [data |-> files[y].data, meta |-> files[y].meta]
  PROVE  Holds(in, files, k)
  <1>1. /\ Len(Groups(in)) \in Nat /\ n \in Nat /\ DOMAIN Groups(in)[k].files = 1..n
        /\ Groups(in)[k].data \in Seq(Bytes)
    BY GroupsType DEF GroupSet
  <1>2. k \in Nat /\ 1..k = (1..(k - 1)) \union {k}
    BY <1>1
  <1>3. NamesUpTo(in, k) = NamesUpTo(in, k - 1) \union NamesIn(in, k, n)
    BY <1>2 DEF NamesUpTo
  <1>4. DOMAIN files = NamesUpTo(in, k)
    BY <1>3 DEF Partly
  <1>5. ASSUME NEW g \in 1..(k - 1), NEW i \in DOMAIN Groups(in)[g].files, LastOne(in, k, g, i)
        PROVE  IsPacked(in, files, g, i)
    <2>1. LastOne(in, k - 1, g, i)
      <3>1. g..(k - 1) \subseteq g..k
        BY <1>2
      <3> QED
        BY <1>5, <3>1 DEF LastOne
    <2>2. NameOf(in, g, i) \notin NamesIn(in, k, n)
      <3>1. k \in g..k /\ k > g
        BY <1>2
      <3>2. \A j \in 1..n : NameOf(in, k, j) # NameOf(in, g, i)
        BY <1>1, <1>5, <3>1 DEF LastOne
      <3> QED
        BY <3>2 DEF NamesIn
    <2> QED
      BY <2>1, <2>2 DEF Partly
  <1>6. ASSUME NEW i \in DOMAIN Groups(in)[k].files, LastOne(in, k, k, i)
        PROVE  IsPacked(in, files, k, i)
    <2>1. k \in k..k
      BY <1>2
    <2>2. \A j \in 1..n : j > i => NameOf(in, k, j) # NameOf(in, k, i)
      BY <1>1, <1>6, <2>1 DEF LastOne
    <2>3. i \in 1..n /\ \A j \in (i + 1)..n : NameOf(in, k, j) # NameOf(in, k, i)
      BY <1>1, <2>2
    <2>4. files[NameOf(in, k, i)].meta = Groups(in)[k].files[i].meta
      BY <2>3 DEF Partly
    <2>5. files[NameOf(in, k, i)].data = SubSeq(Groups(in)[k].data, 1, Len(Groups(in)[k].data))
      BY <2>3 DEF Partly
    <2>6. SubSeq(Groups(in)[k].data, 1, Len(Groups(in)[k].data)) = Groups(in)[k].data
      BY <1>1
    <2>7. NameOf(in, k, i) \in DOMAIN files
      BY <1>3, <1>4, <2>3 DEF NamesIn
    <2> QED
      BY <2>4, <2>5, <2>6, <2>7 DEF IsPacked
  <1>7. ASSUME NEW g \in 1..k, NEW i \in DOMAIN Groups(in)[g].files, LastOne(in, k, g, i)
        PROVE  IsPacked(in, files, g, i)
    <2>1. g \in 1..(k - 1) \/ g = k
      BY <1>2
    <2> QED
      BY <1>5, <1>6, <1>7, <2>1
  <1> QED
    BY <1>4, <1>7 DEF Holds

(***************************************************************************)
(* The place in the archive: PlaceInv is an invariant.                     *)
(***************************************************************************)
LEMMA InitPlace == Init => PlaceInv
  <1> SUFFICES ASSUME Init PROVE PlaceInv
    OBVIOUS
  <1>1. StreamInv
    BY InitStream
  <1>2. /\ rd = 0 /\ end = Len(medium) /\ garbled = FALSE /\ pc = "header" /\ success = TRUE
        /\ d = 0 /\ f = 0 /\ failed = FALSE
        /\ heads = [i \in 1..MaxIdentical |-> <<0, 0>>] /\ disk = [n \in {} |-> 0]
    BY DEF Init
  <1>3. DirCount \in Nat
    BY <1>1, MediumFacts
  <1>4. ShapeInv
    BY <1>2 DEF ShapeInv
  <1>5. AtDirs
    BY <1>2, <1>3 DEF AtDirs
  <1>6. AtPlace
    BY <1>2 DEF AtPlace
  <1>7. FaultInv
    BY <1>2 DEF FaultInv
  <1> QED
    BY <1>4, <1>5, <1>6, <1>7 DEF PlaceInv

\* open makes a record of the file.
LEMMA OpenShape ==
  ASSUME ShapeInv, NEW i, NEW n, Open(i, n)
  PROVE  \A x \in DOMAIN disk' : disk'[x] = [data |-> disk'[x].data, meta |-> disk'[x].meta]
  BY DEF Open, ShapeInv

\* write leaves records.
LEMMA WriteShape ==
  ASSUME ShapeInv, NEW c, NEW k, Write(c, k)
  PROVE  \A x \in DOMAIN disk' : disk'[x] = [data |-> disk'[x].data, meta |-> disk'[x].meta]
  <1> DEFINE H(n) == {x \in {slots[i] : i \in 1..k} : fds[x].name = n}
             D(n) == SubSeq(disk[n].data, 1, fds[Min(H(n))].off) \o <<c>>
  <1>1. disk' = [n \in DOMAIN disk |-> IF H(n) = {} THEN disk[n]
                                       ELSE [data |-> D(n), meta |-> disk[n].meta]]
    BY DEF Write
  <1> HIDE DEF H, D
  <1> QED
    BY <1>1 DEF ShapeInv

LEMMA ShapeStep == ShapeInv /\ [Next]_vars => ShapeInv'
  <1> SUFFICES ASSUME ShapeInv, [Next]_vars PROVE ShapeInv'
    OBVIOUS
  <1> DEFINE R == \A x \in DOMAIN disk' : disk'[x] = [data |-> disk'[x].data, meta |-> disk'[x].meta]
  <1>1. ASSUME disk' = disk PROVE R
    BY <1>1 DEF ShapeInv
  <1>2. ASSUME heads' = heads, R PROVE ShapeInv'
    BY <1>2 DEF ShapeInv
  <1>3. ASSUME NEW i, NEW h, OpenNext(i, h) PROVE ShapeInv'
    <2>1. \E n : Open(i, n)
      BY <1>3 DEF OpenNext
    <2>2. \E y : heads' = [heads EXCEPT ![i] = y]
      BY <1>3 DEF OpenNext
    <2>3. DOMAIN heads' = DOMAIN heads
      BY <2>2
    <2>4. R
      BY <2>1, OpenShape
    <2> QED
      BY <2>3, <2>4 DEF ShapeInv
  <1>4. CASE Header \/ CreateDirectory \/ DirectoriesDone \/ GroupStart \/ ReadFails
             \/ CopyReturns \/ FilesDone \/ Close \/ GroupSize \/ ReadHangs
    <2>1. heads' = heads /\ disk' = disk
      BY <1>4 DEF Header, CreateDirectory, DirectoriesDone, GroupStart, ReadFails,
                  CopyReturns, FilesDone, Close, GroupSize, ReadHangs, groupVars
    <2> QED
      BY <2>1, <1>1, <1>2
  <1>5. CASE Ended \/ UNCHANGED vars
    <2>1. heads' = heads /\ disk' = disk
      BY <1>5 DEF Ended, vars, groupVars
    <2> QED
      BY <2>1, <1>1, <1>2
  <1>6. CASE FileV1
    BY <1>6, <1>3 DEF FileV1
  <1>7. CASE OpenSubFile
    BY <1>7, <1>3 DEF OpenSubFile
  <1>8. CASE Copy
    <2>1. heads' = heads /\ \E c : Write(c, count)
      BY <1>8 DEF Copy, groupVars
    <2> QED
      BY <2>1, <1>2, WriteShape
  <1>9. CASE WriteFails
    <2>1. heads' = heads /\ \E c, k : Write(c, k)
      BY <1>9 DEF WriteFails, groupVars
    <2> QED
      BY <2>1, <1>2, WriteShape
  <1>10. CASE Finish
    <2>1. heads' = heads
      BY <1>10 DEF Finish
    <2> DEFINE n == fds[slots[sub + 1]].name
               h == HeadOfFile[1]
    <2>2. disk' = disk \/ disk' = [disk EXCEPT ![n] = [data |-> disk[n].data, meta |-> h]]
      BY <1>10 DEF Finish
    <2> HIDE DEF n, h
    <2>3. R
      BY <2>2 DEF ShapeInv
    <2> QED
      BY <2>1, <2>3, <1>2
  <1> QED
    BY <1>4, <1>5, <1>6, <1>7, <1>8, <1>9, <1>10 DEF Next

\* Header and directories.
LEMMA StartPlace ==
  ASSUME StreamInv, FdsInv, PlaceInv, ShapeInv', Header \/ CreateDirectory \/ DirectoriesDone
  PROVE  PlaceInv'
  <1>1. /\ pc \in {"header", "dirs"} /\ f' = f /\ disk' = disk /\ medium' = medium /\ input' = input
    BY DEF Header, CreateDirectory, DirectoriesDone
  <1>2. success /\ AtDirs /\ FaultInv
    BY <1>1 DEF PlaceInv, FdsInv
  <1>3. /\ rd \in Nat /\ end \in Nat /\ rd <= end /\ end <= Len(medium)
        /\ Len(medium) \in Nat /\ 1 + DirCount <= Len(medium) /\ DirCount \in Nat
        /\ medium[1].kind = "header" /\ \A i \in 1..DirCount : medium[1 + i].kind = "dir"
        /\ DirCount = Len(input.dirs)
    BY MediumFacts DEF StreamInv
  <1>4. DirCount' = DirCount /\ Version' = Version
    BY <1>1 DEF DirCount, Version
  <1>5. d \in 0..DirCount /\ f = 0 /\ DOMAIN disk = {}
        /\ (pc = "header" => rd = 0 /\ d = 0 /\ ~garbled /\ end = Len(medium))
        /\ (pc = "dirs" /\ end = Len(medium) => ~garbled /\ rd = 1 + d)
    BY <1>2 DEF AtDirs
  <1>6. (end # Len(medium) => warned) /\ (~failed => end = Len(medium))
    BY <1>1, <1>2 DEF FaultInv
  <1>7. CASE Header
    <2>1. pc = "header" /\ d' = d /\ warned' = warned
      BY <1>7 DEF Header
    <2>2. CASE Take(1, "header") /\ pc' = "dirs" /\ success' = success /\ failed' = failed
      <3>0. rd' = rd + 1 /\ end' = end /\ garbled' = (garbled \/ medium[rd + 1].kind # "header")
        BY <2>2 DEF Take
      <3>10. rd = 0 /\ rd + 1 = 1 /\ ~garbled
        BY <1>5, <2>1
      <3>11. garbled' = FALSE
        BY <3>0, <3>10, <1>3
      <3>1. rd' = 1 /\ end' = end /\ garbled' = FALSE
        BY <3>0, <3>10, <3>11
      <3>2. AtDirs'
        BY <1>1, <1>3, <1>4, <1>5, <2>1, <2>2, <3>1 DEF AtDirs
      <3>3. FaultInv'
        BY <1>1, <1>2, <1>5, <2>1, <2>2, <3>1 DEF FaultInv
      <3>4. AtPlace'
        BY <2>2 DEF AtPlace
      <3> QED
        BY <2>2, <3>2, <3>3, <3>4 DEF PlaceInv
    <2>3. CASE pc' = "done" /\ success' = FALSE /\ failed' = TRUE
      <3>1. FaultInv'
        BY <2>3 DEF FaultInv
      <3> QED
        BY <2>3, <3>1 DEF PlaceInv
    <2> QED
      BY <1>7, <2>2, <2>3 DEF Header
  <1>8. CASE CreateDirectory
    <2>1. pc = "dirs" /\ pc' = "dirs" /\ d < DirCount /\ d' = d + 1 /\ success' = success
          /\ (Take(1, "dir") \/ Lose(0))
          /\ ((Take(1, "dir") /\ warned' = warned /\ failed' = failed) \/ (warned' = TRUE /\ failed' = TRUE))
      BY <1>8 DEF CreateDirectory
    <2>2. end' = Len(medium) => ~garbled' /\ rd' = 1 + d'
      <3> SUFFICES ASSUME end' = Len(medium) PROVE ~garbled' /\ rd' = 1 + d'
        OBVIOUS
      <3>1. CASE Take(1, "dir")
        <4>1. end = Len(medium) /\ rd' = rd + 1 /\ garbled' = (garbled \/ medium[rd + 1].kind # "dir")
          BY <3>1 DEF Take
        <4>2. ~garbled /\ rd = 1 + d
          BY <4>1, <1>5, <2>1
        <4>3. d + 1 \in 1..DirCount /\ rd + 1 = 1 + (d + 1)
          BY <1>3, <1>5, <2>1, <4>2
        <4>4. medium[rd + 1].kind = "dir"
          BY <1>3, <4>3
        <4>5. ~garbled'
          BY <4>1, <4>2, <4>4
        <4>6. rd' = 1 + d'
          BY <1>5, <2>1, <4>1, <4>2
        <4> QED
          BY <4>5, <4>6
      <3>2. CASE Lose(0)
        <4>1. rd' = rd /\ rd = end /\ end' = end
          BY <1>3, <3>2 DEF Lose
        <4>2. rd = 1 + d
          BY <4>1, <1>5, <2>1
        <4> QED
          BY <4>1, <4>2, <1>3, <1>5, <2>1
      <3> QED
        BY <2>1, <3>1, <3>2
    <2>3. AtDirs'
      <3>1. d' \in 0..DirCount
        BY <1>3, <1>5, <2>1
      <3> QED
        BY <1>1, <1>4, <1>5, <2>1, <2>2, <3>1 DEF AtDirs
    <2>4. FaultInv'
      <3>1. Take(1, "dir") => end' = end
        BY DEF Take
      <3> QED
        BY <1>1, <1>2, <1>6, <2>1, <3>1 DEF FaultInv
    <2>5. AtPlace'
      BY <2>1 DEF AtPlace
    <2> QED
      BY <2>1, <2>3, <2>4, <2>5 DEF PlaceInv
  <1>9. CASE DirectoriesDone
    <2>1. /\ pc = "dirs" /\ pc' = "next" /\ d = DirCount /\ success' = success /\ warned' = warned
          /\ failed' = failed /\ rd' = rd /\ end' = end /\ garbled' = garbled
      BY <1>9 DEF DirectoriesDone, streamVars
    <2>2. FaultInv'
      BY <1>1, <1>2, <1>6, <2>1 DEF FaultInv
    <2>3. end' = Len(medium') => AtPlace'
      <3> SUFFICES ASSUME end = Len(medium) PROVE AtPlace'
        BY <1>1, <2>1
      <3>1. ~garbled /\ rd = 1 + Len(input.dirs)
        BY <1>3, <1>5, <2>1
      <3>2. Starts(input)[0] = 1 + Len(input.dirs) /\ Before(input)[0] = 0
        BY StartsFacts, BeforeFacts DEF StreamInv
      <3>3. 0 \in 0..Len(Groups(input))
        BY GroupsType DEF StreamInv
      <3>4. Holds(input, disk, 0)
        <4>1. NamesUpTo(input, 0) = {} /\ 1..0 = {}
          BY DEF NamesUpTo
        <4> QED
          BY <1>5, <4>1 DEF Holds
      <3>5. AtNext(0)'
        BY <1>1, <1>5, <2>1, <3>1, <3>2, <3>3, <3>4 DEF AtNext
      <3> QED
        BY <1>1, <2>1, <3>3, <3>5 DEF AtPlace
    <2> QED
      BY <2>1, <2>2, <2>3 DEF PlaceInv
  <1> QED
    BY <1>7, <1>8, <1>9

\* Unless all files are done there is a next group, and the stream is at its beginning.
LEMMA NextGroup ==
  ASSUME StreamInv, PlaceInv, pc = "next", success, end = Len(medium), f < FileCount
  PROVE  \E k \in 1..Len(Groups(input)) :
           ~garbled /\ rd = Starts(input)[k - 1] /\ f = Before(input)[k - 1] /\ Holds(input, disk, k - 1)
  <1>1. PICK g \in 0..Len(Groups(input)) : AtNext(g)
    BY DEF PlaceInv, AtPlace
  <1>2. Len(Groups(input)) \in Nat /\ input \in Inputs
    BY GroupsType DEF StreamInv
  <1>3. g # Len(Groups(input))
    <2> SUFFICES ASSUME g = Len(Groups(input)) PROVE FALSE
      OBVIOUS
    <2>1. f = FileCount
      BY <1>1, <1>2, BeforeFacts, MediumFacts DEF AtNext
    <2> QED
      BY <2>1, MediumFacts
  <1>4. g + 1 \in 1..Len(Groups(input)) /\ (g + 1) - 1 = g
    BY <1>2, <1>3
  <1> QED
    BY <1>1, <1>4 DEF AtNext

\* The name and the head that the next file is read from.
LEMMA NextFile ==
  ASSUME StreamInv, ShapeInv, NEW i \in 1..MaxIdentical, NEW anyHead, OpenNext(i, anyHead),
         success' \/ ~failed', ~garbled,
         NEW x, medium[rd + 1] = Cell("name", x), NEW h, medium[rd + 2] = Cell("head", h)
  PROVE  /\ rd' = rd + 2 /\ end' = end /\ ~garbled'
         /\ heads'[i] = h /\ \A j \in 1..MaxIdentical : j # i => heads'[j] = heads[j]
         /\ Open(i, x)
         /\ success' = (success /\ slots'[i] > 0) /\ failed' = (failed \/ slots'[i] < 0)
  <1>1. /\ Take(2, "name")
        /\ \E n \in Value(0, "name", AnyName), y \in Value(1, "head", anyHead) :
             buf' = n /\ heads' = [heads EXCEPT ![i] = y] /\ Open(i, n)
        /\ success' = (success /\ SlotOpened(i)) /\ failed' = (failed \/ slots'[i] < 0)
    BY DEF OpenNext
  <1>2. rd \in Nat
    BY DEF StreamInv
  <1>3. rd + 0 + 1 = rd + 1 /\ rd + 1 + 1 = rd + 2
    BY <1>2
  <1>4. medium[rd + 0 + 1] = Cell("name", x) /\ medium[rd + 1 + 1] = Cell("head", h)
    BY <1>3
  <1>5. Value(0, "name", AnyName) = {x} /\ Value(1, "head", anyHead) = {h}
    BY <1>4 DEF Value, Cell
  <1>6. heads' = [heads EXCEPT ![i] = h] /\ Open(i, x)
    BY <1>1, <1>5
  <1>7. DOMAIN heads = 1..MaxIdentical
    BY DEF ShapeInv
  <1>8. heads'[i] = h /\ \A j \in 1..MaxIdentical : j # i => heads'[j] = heads[j]
    BY <1>6, <1>7
  <1>9. medium[rd + 1].kind = "name"
    BY DEF Cell
  <1>10. rd' = rd + 2 /\ end' = end /\ ~garbled'
    BY <1>1, <1>9 DEF Take
  <1> QED
    BY <1>1, <1>6, <1>8, <1>10 DEF SlotOpened

\* A file that is opened in a sound archive.
LEMMA FileV1Good ==
  ASSUME StreamInv, FdsInv, PlaceInv, FileV1, success, end = Len(medium), success' \/ ~failed'
  PROVE  /\ end' = end /\ success' = (slots'[1] > 0) /\ failed' = (failed \/ slots'[1] < 0)
         /\ slots'[1] \in Int /\ (slots'[1] >= 2 \/ slots'[1] = -1)
         /\ slots'[1] >= 2 =>
              \/ pc' = "copy" /\ AtPlace'
              \/ pc' = "copyFailed" /\ EmptyEnd /\ f' + count' = FileCount
  <1>1. /\ pc = "next" /\ Version = 1 /\ f < FileCount
        /\ count' = 1 /\ sub' = 0 /\ OpenNext(1, {0} \X Sizes)
        /\ left' = heads'[1][2]
        /\ pc' = IF slots'[1] < 0 THEN "aborted" ELSE CopyFrom
        /\ input' = input /\ medium' = medium /\ f' = f
    BY DEF FileV1
  <1>2. PICK k \in 1..Len(Groups(input)) :
           ~garbled /\ rd = Starts(input)[k - 1] /\ f = Before(input)[k - 1] /\ Holds(input, disk, k - 1)
    BY <1>1, NextGroup
  <1>3. PICK n, l, s, e : GroupAt(k, n, l, s, e)
    BY GroupCells
  <1>4. /\ n = Len(Groups(input)[k].files) /\ l = Len(Groups(input)[k].data)
        /\ s = Starts(input)[k - 1] /\ e = Starts(input)[k]
        /\ l \in Nat /\ s \in Nat /\ e \in Nat /\ e <= Len(medium)
        /\ Groups(input)[k].data \in Seq(Bytes)
        /\ n = 1 /\ e = s + 2 + l
        /\ medium[s + 1] = Cell("name", NameOf(input, k, 1))
        /\ medium[s + 2] = Cell("head", <<Groups(input)[k].files[1].meta, l>>)
    BY <1>1, <1>3 DEF GroupAt
  <1>5. medium[rd + 1] = Cell("name", NameOf(input, k, 1))
        /\ medium[rd + 2] = Cell("head", <<Groups(input)[k].files[1].meta, l>>)
    BY <1>2, <1>4
  <1>6. 1 \in 1..MaxIdentical
    <2>1. MaxIdentical \in Nat /\ MaxFilesPerKnownData \in 1..MaxIdentical
      BY LimitsAssumption DEF LimitsAssumption
    <2> QED
      BY <2>1
  <1>7. ShapeInv
    BY DEF PlaceInv
  <1>71. PICK x : x = NameOf(input, k, 1)
    OBVIOUS
  <1>72. medium[rd + 1] = Cell("name", x)
    BY <1>5, <1>71
  <1>8. /\ rd' = rd + 2 /\ end' = end /\ ~garbled'
        /\ heads'[1] = <<Groups(input)[k].files[1].meta, l>>
        /\ Open(1, x)
        /\ success' = (success /\ slots'[1] > 0) /\ failed' = (failed \/ slots'[1] < 0)
    BY <1>1, <1>2, <1>5, <1>6, <1>7, <1>72, NextFile
  <1>9. Foreign \subseteq DOMAIN fds
    BY <1>1 DEF FdsInv
  <1>10. OpenEffect(1, x)
    BY <1>6, <1>8, <1>9, OpenFacts
  <1>12. slots'[1] \in Int /\ (slots'[1] >= 2 \/ slots'[1] = -1)
    BY <1>6, <1>10 DEF OpenEffect
  <1>11. ASSUME slots'[1] >= 2
         PROVE  \/ pc' = "copy" /\ AtPlace'
                \/ pc' = "copyFailed" /\ EmptyEnd /\ f' + count' = FileCount
    <2>1. /\ fds'[slots'[1]] = [name |-> x, off |-> 0]
          /\ disk' = [y \in DOMAIN disk \union {x} |->
                         IF y = x THEN [data |-> <<>>, meta |-> 0] ELSE disk[y]]
      BY <1>10, <1>11 DEF OpenEffect
    <2>20. rd' = s + 2 /\ s \in Nat /\ l \in Nat /\ e = s + 2 + l
      BY <1>2, <1>4, <1>8
    <2>2. rd' = e - l
      BY <2>20
    <2>21. pc' = CopyFrom
      BY <1>1, <1>11, <1>12
    <2>3. left' = l
      BY <1>1, <1>8
    <2>4. Partly(input, disk', k, 1, 0, 0)
      <3>1. k \in Nat /\ 0 \in Nat /\ 0 + 1 = 1
        OBVIOUS
      <3>2. Partly(input, disk, k, 0, 0, 0)
        BY <1>2, <3>1, HoldsPartly
      <3>3. input \in Inputs /\ x = NameOf(input, k, 0 + 1)
        BY <1>71, <3>1 DEF StreamInv
      <3>4. Partly(input, disk', k, 0 + 1, 0, 0)
        <4>1. PICK more : more = disk'
          OBVIOUS
        <4>2. more = [y \in DOMAIN disk \union {x} |->
                         IF y = x THEN [data |-> <<>>, meta |-> 0] ELSE disk[y]]
          BY <2>1, <4>1, Zenon
        <4>3. Groups(input)[k].data \in Seq(Bytes)
          BY <1>4
        <4>4. Partly(input, more, k, 0 + 1, 0, 0)
          BY ONLY <3>1, <3>2, <3>3, <4>2, <4>3, PartlyOpened
        <4> QED
          BY <4>1, <4>4
      <3> QED
        BY <3>1, <3>4
    <2>5. CASE rd' >= Len(medium)
      <3>1. pc' = "copyFailed"
        BY <2>5, <2>21 DEF CopyFrom
      <3>2. Starts(input)[k] - Len(Groups(input)[k].data) >= Len(medium)
        BY <1>4, <2>2, <2>5
      <3>3. EmptyEnd /\ Before(input)[k - 1] + Len(Groups(input)[k].files) = FileCount
        BY <3>2, EndCells
      <3> QED
        BY <1>1, <1>2, <1>4, <3>1, <3>3
    <2>6. CASE ~(rd' >= Len(medium))
      <3>1. pc' = "copy"
        BY <2>6, <2>21 DEF CopyFrom
      <3>2. InGroup(k, left)'
        BY <1>1, <1>2, <1>4, <1>8, <2>2, <2>3 DEF InGroup
      <3>3. SlotsOf(k, 1, count)'
        <4>1. fds'[slots'[1]].name = NameOf(input, k, 1)
          BY <1>71, <2>1
        <4>2. heads'[1][1] = Groups(input)[k].files[1].meta
          BY <1>8
        <4>3. \A i \in 1..1 : /\ fds'[slots'[i]].name = NameOf(input, k, i)
                              /\ heads'[i][1] = Groups(input)[k].files[i].meta
          BY <4>1, <4>2
        <4> QED
          BY <1>1, <4>3 DEF SlotsOf
      <3>4. \A i \in 1..count' : fds'[slots'[i]].off = l - left'
        <4>1. l - left' = 0 /\ \A i \in 1..count' : i = 1
          BY <1>1, <1>4, <2>3
        <4>2. fds'[slots'[1]].off = 0
          BY <2>1
        <4> QED
          BY <4>1, <4>2
      <3>5. left' \in 0..l /\ l - left' = 0
        BY <1>4, <2>3
      <3>6. AtCopy(k)'
        BY <1>1, <1>4, <2>4, <3>2, <3>3, <3>4, <3>5 DEF AtCopy
      <3> QED
        BY <1>1, <3>1, <3>6 DEF AtPlace
    <2> QED
      BY <2>5, <2>6
  <1> QED
    BY <1>8, <1>11, <1>12

LEMMA FileV1Place ==
  ASSUME StreamInv, FdsInv, PlaceInv, ShapeInv', FileV1
  PROVE  PlaceInv'
  <1>1. /\ pc = "next" /\ Version = 1 /\ f < FileCount /\ OpenNext(1, {0} \X Sizes)
        /\ pc' = IF slots'[1] < 0 THEN "aborted" ELSE CopyFrom
        /\ warned' = warned /\ medium' = medium
    BY DEF FileV1
  <1>2. FaultInv /\ FileCount \in Nat
    BY MediumFacts DEF PlaceInv
  <1>3. \/ end' = end /\ (success' => success) /\ (~failed' => ~failed)
        \/ success' = FALSE /\ failed' = TRUE
    BY <1>1 DEF OpenNext, Take
  <1>4. pc' \in {"aborted", "copy", "copyFailed"}
    BY <1>1 DEF CopyFrom
  <1>5. ~failed => success /\ end = Len(medium)
    BY <1>1, <1>2 DEF FaultInv, AtEmptyEnd
  <1>6. success' /\ end' = Len(medium') => AtPlace'
    <2> SUFFICES ASSUME success', end' = Len(medium) PROVE AtPlace'
      BY <1>1
    <2>1. success /\ end = Len(medium)
      BY <1>3
    <2>2. slots'[1] > 0 /\ (slots'[1] >= 2 \/ slots'[1] = -1)
      BY <2>1, FileV1Good
    <2>3. slots'[1] >= 2
      BY <2>2
    <2>4. AtPlace' \/ pc' = "copyFailed"
      BY <2>1, <2>3, FileV1Good
    <2> QED
      BY <2>4 DEF AtPlace
  <1>7. ~failed' => end' = Len(medium') /\ pc' # "aborted" /\ (~success' \/ pc' = "copyFailed" => AtEmptyEnd')
    <2> SUFFICES ASSUME ~failed' 
                 PROVE  end' = Len(medium') /\ pc' # "aborted" /\ (~success' \/ pc' = "copyFailed" => AtEmptyEnd')
      OBVIOUS
    <2>1. success /\ end = Len(medium)
      BY <1>3, <1>5
    <2>2. /\ end' = end /\ success' = (slots'[1] > 0) /\ ~(slots'[1] < 0)
          /\ slots'[1] \in Int /\ (slots'[1] >= 2 \/ slots'[1] = -1)
          /\ slots'[1] >= 2 =>
              \/ pc' = "copy" /\ AtPlace'
              \/ pc' = "copyFailed" /\ EmptyEnd /\ f' + count' = FileCount
      BY <2>1, FileV1Good
    <2>3. slots'[1] >= 2
      BY <2>2
    <2>40. slots'[1] > 0 /\ ~(slots'[1] < 0)
      BY <2>2, <2>3
    <2>4. success' /\ pc' # "aborted"
      BY <2>2, <2>40, <2>3
    <2>5. pc' = "copyFailed" => AtEmptyEnd'
      BY <1>1, <2>2, <2>3 DEF AtEmptyEnd, EmptyEnd, FileCount
    <2> QED
      BY <1>1, <2>1, <2>2, <2>4, <2>5
  <1>8. success' /\ end' # Len(medium') => warned'
    BY <1>1, <1>2, <1>3 DEF FaultInv
  <1>9. Version' = 1
    BY <1>1 DEF Version
  <1>10. FaultInv'
    BY <1>4, <1>7, <1>8, <1>9 DEF FaultInv
  <1> QED
    BY <1>4, <1>6, <1>10 DEF PlaceInv

\* The count of the next group is read from its place.
LEMMA GroupStartGood ==
  ASSUME StreamInv, FdsInv, PlaceInv, GroupStart, success, end = Len(medium), success' \/ ~failed'
  PROVE  end' = end /\ success' = success /\ pc' = "open" /\ AtPlace'
  <1>1. /\ pc = "next" /\ Version = 2 /\ f < FileCount /\ sub' = 0
        /\ input' = input /\ medium' = medium /\ f' = f
        /\ slots' = slots /\ heads' = heads /\ fds' = fds /\ disk' = disk
        /\ count' \in Value(0, "count", Sizes) /\ Take(1, "count")
        /\ pc' = IF count' > MaxIdentical THEN "aborted" ELSE IF success THEN "open" ELSE "close"
        /\ success' = success
    BY DEF GroupStart
  <1>2. PICK k \in 1..Len(Groups(input)) :
           ~garbled /\ rd = Starts(input)[k - 1] /\ f = Before(input)[k - 1] /\ Holds(input, disk, k - 1)
    BY <1>1, NextGroup
  <1>3. PICK n, l, s, e : GroupAt(k, n, l, s, e)
    BY GroupCells
  <1>4. /\ n = Len(Groups(input)[k].files) /\ l = Len(Groups(input)[k].data)
        /\ s = Starts(input)[k - 1] /\ e = Starts(input)[k]
        /\ n \in Nat /\ n \in 1..MaxIdentical /\ l \in Nat /\ s \in Nat /\ e \in Nat
        /\ e = s + 2 + 2 * n + l
        /\ medium[s + 1] = Cell("count", n)
    BY <1>1, <1>3 DEF GroupAt
  <1>5. count' = n
    <2>1. rd + 0 + 1 = s + 1
      BY <1>2, <1>4
    <2>2. medium[rd + 0 + 1] = Cell("count", n)
      BY <1>4, <2>1
    <2>3. Value(0, "count", Sizes) = {n}
      BY <1>2, <2>2 DEF Value, Cell
    <2> QED
      BY <1>1, <2>3
  <1>6. rd' = s + 1 /\ end' = end /\ ~garbled'
    <2>1. medium[rd + 1].kind = "count"
      BY <1>2, <1>4 DEF Cell
    <2> QED
      BY <1>1, <1>2, <1>4, <2>1 DEF Take
  <1>7. pc' = "open"
    <2>1. MaxIdentical \in Nat
      BY LimitsAssumption DEF LimitsAssumption
    <2>2. ~(count' > MaxIdentical)
      BY <1>4, <1>5, <2>1
    <2> QED
      BY <1>1, <2>2
  <1>8. Partly(input, disk, k, 0, 0, 0)
    <2>1. k \in Nat
      OBVIOUS
    <2> QED
      BY <1>2, <2>1, HoldsPartly
  <1>9. rd' = e - (1 + 2 * (count' - sub') + l)
    <2>1. n \in Nat /\ l \in Nat /\ s \in Nat /\ e = s + 2 + 2 * n + l
      BY <1>4
    <2>2. count' = n /\ sub' = 0 /\ rd' = s + 1
      BY <1>1, <1>5, <1>6
    <2>3. s + 1 = e - (1 + 2 * (n - 0) + l)
      BY <2>1
    <2> QED
      BY <2>2, <2>3
  <1>10. InGroup(k, 1 + 2 * (count - sub) + Len(Groups(input)[k].data))'
    BY <1>1, <1>2, <1>4, <1>5, <1>6, <1>9 DEF InGroup
  <1>11. SlotsOf(k, 1, sub)'
    <2>1. 1..sub' = {}
      BY <1>1
    <2> QED
      BY <2>1 DEF SlotsOf
  <1>12. AtOpen(k)'
    BY <1>1, <1>8, <1>10, <1>11 DEF AtOpen
  <1>13. AtPlace'
    BY <1>1, <1>7, <1>12 DEF AtPlace
  <1> QED
    BY <1>1, <1>6, <1>7, <1>13

LEMMA GroupStartPlace ==
  ASSUME StreamInv, FdsInv, PlaceInv, ShapeInv', GroupStart
  PROVE  PlaceInv'
  <1>1. /\ pc = "next" /\ Version = 2 /\ f < FileCount
        /\ warned' = warned /\ medium' = medium
        /\ pc' \in {"aborted", "open", "close"}
        /\ \/ end' = end /\ success' = success /\ failed' = failed
              /\ (pc' = "close" => ~success)
           \/ success' = FALSE /\ failed' = TRUE
    BY DEF GroupStart, Take
  <1>2. FaultInv /\ FileCount \in Nat
    BY MediumFacts DEF PlaceInv
  <1>5. ~failed => success /\ end = Len(medium)
    BY <1>1, <1>2 DEF FaultInv, AtEmptyEnd
  <1>6. success' /\ end' = Len(medium') => AtPlace'
    BY <1>1, GroupStartGood
  <1>7. ~failed' => end' = Len(medium') /\ pc' = "open" /\ success'
    BY <1>1, <1>5, GroupStartGood
  <1>8. success' /\ end' # Len(medium') => warned'
    BY <1>1, <1>2 DEF FaultInv
  <1>10. FaultInv'
    BY <1>1, <1>7, <1>8 DEF FaultInv
  <1> QED
    BY <1>1, <1>6, <1>10 DEF PlaceInv

\* The next name and head of the group are read from their place.
LEMMA OpenSubFileGood ==
  ASSUME StreamInv, FdsInv, PlaceInv, OpenSubFile, end = Len(medium), success' \/ ~failed'
  PROVE  /\ end' = end /\ success' = (slots'[sub + 1] > 0)
         /\ failed' = (failed \/ slots'[sub + 1] < 0)
         /\ slots'[sub + 1] \in Int /\ (slots'[sub + 1] >= 2 \/ slots'[sub + 1] = -1)
         /\ slots'[sub + 1] >= 2 => AtPlace'
  <1>1. /\ pc = "open" /\ sub < count /\ OpenNext(sub + 1, {<<0, 0>>})
        /\ sub' = sub + 1 /\ count' = count /\ f' = f /\ input' = input /\ medium' = medium
        /\ pc' = IF success' THEN "open" ELSE "close"
    BY DEF OpenSubFile
  <1>2. /\ Version = 2 /\ success /\ count \in 0..MaxIdentical /\ sub \in 0..count
        /\ Opened(1, sub) /\ ShapeInv
    BY <1>1 DEF FdsInv, PlaceInv
  <1>3. MaxIdentical \in Nat
    BY LimitsAssumption DEF LimitsAssumption
  <1>4. PICK i : i = sub + 1
    OBVIOUS
  <1>5. i \in 1..MaxIdentical /\ i \in 1..count /\ sub \in Nat /\ count \in Nat /\ i - 1 = sub
    BY <1>1, <1>2, <1>3, <1>4
  <1>6. PICK k \in 1..Len(Groups(input)) : AtOpen(k)
    BY <1>1, <1>2 DEF PlaceInv, AtPlace
  <1>7. PICK n, l, s, e : GroupAt(k, n, l, s, e)
    BY GroupCells
  <1>8. /\ n = Len(Groups(input)[k].files) /\ l = Len(Groups(input)[k].data)
        /\ s = Starts(input)[k - 1] /\ e = Starts(input)[k]
        /\ n \in Nat /\ l \in Nat /\ s \in Nat /\ e \in Nat
        /\ Groups(input)[k].data \in Seq(Bytes)
        /\ e = s + 2 + 2 * n + l
        /\ \A j \in 1..n :
             /\ medium[s + 2 * j] = Cell("name", NameOf(input, k, j))
             /\ medium[s + 2 * j + 1] = Cell("head", <<Groups(input)[k].files[j].meta, 0>>)
    BY <1>2, <1>7 DEF GroupAt
  <1>9. /\ ~garbled /\ rd = e - (1 + 2 * (count - sub) + l) /\ f = Before(input)[k - 1] /\ count = n
        /\ SlotsOf(k, 1, sub) /\ Partly(input, disk, k, sub, 0, 0)
    BY <1>6, <1>8 DEF AtOpen, InGroup
  <1>10. rd + 1 = s + 2 * i /\ rd + 2 = s + 2 * i + 1 /\ i \in 1..n
    <2>1. rd = e - (1 + 2 * (n - sub) + l) /\ e = s + 2 + 2 * n + l
      BY <1>8, <1>9
    <2>10. n \in Nat /\ l \in Nat /\ s \in Nat /\ sub \in Nat /\ i = sub + 1
      BY <1>4, <1>5, <1>8
    <2>2. rd + 1 = s + 2 * i /\ rd + 2 = s + 2 * i + 1
      BY <2>1, <2>10
    <2> QED
      BY <2>2, <1>5, <1>9
  <1>11. PICK x : x = NameOf(input, k, i)
    OBVIOUS
  <1>12. PICK h : h = <<Groups(input)[k].files[i].meta, 0>>
    OBVIOUS
  <1>13. medium[rd + 1] = Cell("name", x) /\ medium[rd + 2] = Cell("head", h)
    BY <1>8, <1>10, <1>11, <1>12
  <1>14. OpenNext(i, {<<0, 0>>})
    BY <1>1, <1>4
  <1>15. /\ rd' = rd + 2 /\ end' = end /\ ~garbled'
         /\ heads'[i] = h /\ \A j \in 1..MaxIdentical : j # i => heads'[j] = heads[j]
         /\ Open(i, x)
         /\ success' = (success /\ slots'[i] > 0) /\ failed' = (failed \/ slots'[i] < 0)
    BY <1>2, <1>5, <1>9, <1>13, <1>14, NextFile
  <1>16. DOMAIN fds = Foreign \union Used(1, sub)
    BY <1>2 DEF Opened
  <1>17. OpenEffect(i, x)
    BY <1>5, <1>15, <1>16, OpenFacts
  <1>18. slots'[i] \in Int /\ (slots'[i] >= 2 \/ slots'[i] = -1)
    BY <1>5, <1>17 DEF OpenEffect
  <1>19. ASSUME slots'[i] >= 2 PROVE AtPlace'
    <2>1. /\ \A j \in 1..MaxIdentical : j # i => slots'[j] = slots[j]
          /\ \A y \in DOMAIN fds : fds'[y] = fds[y]
          /\ fds'[slots'[i]] = [name |-> x, off |-> 0]
          /\ disk' = [y \in DOMAIN disk \union {x} |->
                         IF y = x THEN [data |-> <<>>, meta |-> 0] ELSE disk[y]]
      BY <1>17, <1>19 DEF OpenEffect
    <2>2. Partly(input, disk', k, sub + 1, 0, 0)
      <3>1. input \in Inputs /\ x = NameOf(input, k, sub + 1) /\ sub \in Nat
        BY <1>4, <1>5, <1>11 DEF StreamInv
      <3>2. PICK j : j = sub
        OBVIOUS
      <3>3. Partly(input, disk, k, j, 0, 0) /\ j \in Nat /\ x = NameOf(input, k, j + 1)
        BY <1>9, <3>1, <3>2
      <3>4. Groups(input)[k].data \in Seq(Bytes)
        BY <1>8
      <3>5. disk' = [y \in DOMAIN disk \union {x} |->
                         IF y = x THEN [data |-> <<>>, meta |-> 0] ELSE disk[y]]
        BY <2>1, Zenon
      <3>6. Partly(input, disk', k, j + 1, 0, 0)
        BY <3>1, <3>3, <3>4, <3>5, PartlyOpened
      <3> QED
        BY <3>2, <3>6
    <2>3. SlotsOf(k, 1, sub)'
      <3>1. ASSUME NEW j \in 1..i
            PROVE  /\ fds'[slots'[j]].name = NameOf(input, k, j)
                   /\ heads'[j][1] = Groups(input)[k].files[j].meta
        <4>1. CASE j = i
          BY <1>11, <1>12, <1>15, <2>1, <4>1
        <4>2. CASE j # i
          <5>1. j \in 1..sub /\ j \in 1..MaxIdentical
            BY <1>3, <1>4, <1>5, <4>2
          <5>2. slots'[j] = slots[j] /\ heads'[j] = heads[j]
            BY <1>15, <2>1, <4>2, <5>1
          <5>3. slots[j] \in DOMAIN fds
            BY <1>16, <5>1 DEF Used
          <5>4. fds[slots[j]].name = NameOf(input, k, j) /\ heads[j][1] = Groups(input)[k].files[j].meta
            BY <1>9, <5>1 DEF SlotsOf
          <5> QED
            BY <2>1, <5>2, <5>3, <5>4
        <4> QED
          BY <4>1, <4>2
      <3> QED
        BY <1>1, <1>4, <3>1 DEF SlotsOf
    <2>40. rd = e - (1 + 2 * (n - sub) + l)
      BY <1>9
    <2>4. rd' = e - (1 + 2 * (count' - sub') + l)
      <3>1. rd' = rd + 2 /\ rd = e - (1 + 2 * (n - sub) + l) /\ count' = n /\ sub' = sub + 1
        BY <1>1, <1>9, <1>15, <2>40
      <3>2. n \in Nat /\ l \in Nat /\ e \in Nat /\ sub \in Nat
        BY <1>5, <1>8
      <3>3. (e - (1 + 2 * (n - sub) + l)) + 2 = e - (1 + 2 * (n - (sub + 1)) + l)
        BY <3>2
      <3> QED
        BY <3>1, <3>3
    <2>5. InGroup(k, 1 + 2 * (count - sub) + Len(Groups(input)[k].data))'
      BY <1>1, <1>8, <1>9, <1>15, <2>4 DEF InGroup
    <2>6. AtOpen(k)'
      BY <1>1, <2>2, <2>3, <2>5 DEF AtOpen
    <2>7. success' /\ pc' = "open"
      <3>1. slots'[i] > 0
        BY <1>18, <1>19
      <3> QED
        BY <1>1, <1>2, <1>15, <3>1
    <2> QED
      BY <1>1, <2>6, <2>7 DEF AtPlace
  <1> QED
    BY <1>2, <1>4, <1>15, <1>18, <1>19

LEMMA OpenSubFilePlace ==
  ASSUME StreamInv, FdsInv, PlaceInv, ShapeInv', OpenSubFile
  PROVE  PlaceInv'
  <1>1. /\ pc = "open" /\ OpenNext(sub + 1, {<<0, 0>>})
        /\ pc' = IF success' THEN "open" ELSE "close"
        /\ warned' = warned /\ medium' = medium
    BY DEF OpenSubFile
  <1>2. FaultInv /\ success
    BY <1>1 DEF PlaceInv, FdsInv
  <1>3. \/ end' = end /\ (~failed' => ~failed)
        \/ success' = FALSE /\ failed' = TRUE
    BY <1>1 DEF OpenNext, Take
  <1>5. ~failed => end = Len(medium)
    BY <1>2 DEF FaultInv
  <1>6. success' /\ end' = Len(medium') => AtPlace'
    <2> SUFFICES ASSUME success', end' = Len(medium) PROVE AtPlace'
      BY <1>1
    <2>1. end = Len(medium)
      BY <1>3
    <2>2. PICK z : z = slots'[sub + 1]
      OBVIOUS
    <2>3. z > 0 /\ z \in Int /\ (z >= 2 \/ z = -1) /\ (z >= 2 => AtPlace')
      BY <2>1, <2>2, OpenSubFileGood
    <2>4. z >= 2
      BY <2>3
    <2> QED
      BY <2>3, <2>4
  <1>7. ~failed' => end' = Len(medium') /\ success'
    <2> SUFFICES ASSUME ~failed' PROVE end' = Len(medium') /\ success'
      OBVIOUS
    <2>1. end = Len(medium)
      BY <1>3, <1>5
    <2>2. PICK z : z = slots'[sub + 1]
      OBVIOUS
    <2>3. end' = end /\ success' = (z > 0) /\ ~(z < 0) /\ z \in Int /\ (z >= 2 \/ z = -1)
      BY <2>1, <2>2, OpenSubFileGood
    <2>4. z > 0
      BY <2>3
    <2> QED
      BY <1>1, <2>1, <2>3, <2>4
  <1>8. success' /\ end' # Len(medium') => warned'
    BY <1>1, <1>2, <1>3 DEF FaultInv
  <1>10. FaultInv'
    BY <1>1, <1>7, <1>8 DEF FaultInv
  <1> QED
    BY <1>1, <1>6, <1>10 DEF PlaceInv

\* The size of the group is read from its place.
LEMMA GroupSizeGood ==
  ASSUME StreamInv, FdsInv, PlaceInv, GroupSize, Take(1, "size"),
         left' \in Value(0, "size", Sizes), end = Len(medium)
  PROVE  \/ pc' = "copy" /\ AtPlace'
         \/ pc' = "copyFailed" /\ EmptyEnd /\ f' + count' = FileCount
  <1>1. /\ pc = "open" /\ sub = count /\ sub' = 0 /\ pc' = CopyFrom
        /\ input' = input /\ medium' = medium /\ f' = f /\ count' = count
        /\ slots' = slots /\ heads' = heads /\ fds' = fds /\ disk' = disk
    BY DEF GroupSize
  <1>2. /\ Version = 2 /\ success /\ count \in 0..MaxIdentical
        /\ \A i \in 1..sub : fds[slots[i]].off = 0
    BY <1>1 DEF FdsInv
  <1>3. PICK k \in 1..Len(Groups(input)) : AtOpen(k)
    BY <1>1, <1>2 DEF PlaceInv, AtPlace
  <1>4. PICK n, l, s, e : GroupAt(k, n, l, s, e)
    BY GroupCells
  <1>5. /\ n = Len(Groups(input)[k].files) /\ l = Len(Groups(input)[k].data)
        /\ s = Starts(input)[k - 1] /\ e = Starts(input)[k]
        /\ n \in Nat /\ l \in Nat /\ s \in Nat /\ e \in Nat
        /\ e = s + 2 + 2 * n + l
        /\ medium[s + 2 + 2 * n] = Cell("size", l)
    BY <1>2, <1>4 DEF GroupAt
  <1>6. /\ ~garbled /\ rd = e - (1 + 2 * (count - sub) + l) /\ f = Before(input)[k - 1] /\ count = n
        /\ SlotsOf(k, 1, sub) /\ Partly(input, disk, k, sub, 0, 0)
    BY <1>3, <1>5 DEF AtOpen, InGroup
  <1>7. rd + 1 = s + 2 + 2 * n /\ rd + 1 = e - l /\ rd + 0 + 1 = rd + 1
    <2>1. rd = e - (1 + 2 * (n - n) + l) /\ e = s + 2 + 2 * n + l
      BY <1>1, <1>5, <1>6
    <2>2. n \in Nat /\ l \in Nat /\ s \in Nat
      BY <1>5
    <2> QED
      BY <2>1, <2>2
  <1>8. medium[rd + 1] = Cell("size", l) /\ medium[rd + 0 + 1] = Cell("size", l)
    BY <1>5, <1>7
  <1>9. left' = l
    <2>1. Value(0, "size", Sizes) = {l}
      BY <1>6, <1>8 DEF Value, Cell
    <2> QED
      BY <2>1
  <1>10. rd' = e - l /\ end' = end /\ ~garbled'
    <2>1. medium[rd + 1].kind = "size"
      BY <1>8 DEF Cell
    <2> QED
      BY <1>6, <1>7, <2>1 DEF Take
  <1>11. CASE rd' >= Len(medium)
    <2>1. pc' = "copyFailed"
      BY <1>1, <1>11 DEF CopyFrom
    <2>2. Starts(input)[k] - Len(Groups(input)[k].data) >= Len(medium)
      BY <1>5, <1>10, <1>11
    <2>3. EmptyEnd /\ Before(input)[k - 1] + Len(Groups(input)[k].files) = FileCount
      BY <2>2, EndCells
    <2> QED
      BY <1>1, <1>5, <1>6, <2>1, <2>3
  <1>12. CASE ~(rd' >= Len(medium))
    <2>1. pc' = "copy"
      BY <1>1, <1>12 DEF CopyFrom
    <2>2. InGroup(k, left)'
      BY <1>1, <1>5, <1>6, <1>9, <1>10 DEF InGroup
    <2>3. SlotsOf(k, 1, count)'
      BY <1>1, <1>6 DEF SlotsOf
    <2>4. left' \in 0..l /\ l - left' = 0
      BY <1>5, <1>9
    <2>5. \A i \in 1..count' : fds'[slots'[i]].off = l - left'
      BY <1>1, <1>2, <2>4
    <2>6. Partly(input, disk, k, count, 0, l - left')
      BY <1>1, <1>6, <2>4
    <2>7. AtCopy(k)'
      BY <1>1, <1>5, <2>2, <2>3, <2>4, <2>5, <2>6 DEF AtCopy
    <2> QED
      BY <1>1, <2>1, <2>7 DEF AtPlace
  <1> QED
    BY <1>11, <1>12

LEMMA GroupSizePlace ==
  ASSUME StreamInv, FdsInv, PlaceInv, ShapeInv', GroupSize
  PROVE  PlaceInv'
  <1>1. /\ pc = "open" /\ pc' = CopyFrom /\ warned' = warned /\ medium' = medium
        /\ f' = f /\ count' = count
    BY DEF GroupSize
  <1>2. FaultInv /\ Version = 2 /\ success
    BY <1>1 DEF PlaceInv, FdsInv
  <1>3. pc' \in {"copy", "copyFailed"} /\ Version' = 2
    BY <1>1, <1>2 DEF CopyFrom, Version
  <1>4. CASE /\ left' \in Value(0, "size", Sizes) /\ Take(1, "size")
             /\ UNCHANGED <<success, failed>>
    <2>1. end' = end /\ success' = success /\ failed' = failed
      BY <1>4 DEF Take
    <2>2. end = Len(medium) =>
            \/ pc' = "copy" /\ AtPlace'
            \/ pc' = "copyFailed" /\ EmptyEnd /\ f' + count' = FileCount
      BY <1>4, GroupSizeGood
    <2>3. success' /\ end' = Len(medium') => AtPlace'
      BY <1>1, <2>1, <2>2 DEF AtPlace
    <2>4. end = Len(medium) /\ pc' = "copyFailed" => AtEmptyEnd'
      BY <1>1, <2>2 DEF AtEmptyEnd, EmptyEnd, FileCount
    <2>5. FaultInv'
      BY <1>1, <1>2, <1>3, <2>1, <2>4 DEF FaultInv
    <2> QED
      BY <1>3, <2>3, <2>5 DEF PlaceInv
  <1>5. CASE Lose(0) /\ success' = FALSE /\ failed' = TRUE
    <2>1. rd \in Nat /\ end \in Nat /\ end <= Len(medium) /\ Len(medium) \in Nat
      BY MediumFacts DEF StreamInv
    <2>2. end' = Len(medium) => rd' = Len(medium)
      BY <1>5, <2>1 DEF Lose
    <2>3. end' = Len(medium) => pc' = "copyFailed"
      BY <1>1, <2>1, <2>2 DEF CopyFrom
    <2>4. FaultInv'
      BY <1>1, <1>3, <1>5, <2>3 DEF FaultInv
    <2> QED
      BY <1>3, <1>5, <2>4 DEF PlaceInv
  <1> QED
    BY <1>4, <1>5 DEF GroupSize

\* The next byte of a group goes into all of its files.
LEMMA CopyGood ==
  ASSUME StreamInv, FdsInv, PlaceInv, Copy, success, end = Len(medium)
  PROVE  AtPlace'
  <1>1. /\ pc = "copy" /\ left > 0 /\ Take(1, "byte") /\ left' = left - 1 /\ pc' = "copy"
        /\ input' = input /\ medium' = medium /\ f' = f /\ count' = count
        /\ slots' = slots /\ heads' = heads
        /\ \E c \in Value(0, "byte", {JUNK}) : Write(c, count)
    BY DEF Copy, groupVars
  <1>2. count \in 0..MaxIdentical /\ Opened(1, count) /\ slots \in [1..MaxIdentical -> Int]
    BY <1>1 DEF FdsInv
  <1>20. MaxIdentical \in Nat
    BY LimitsAssumption DEF LimitsAssumption
  <1>3. PICK k \in 1..Len(Groups(input)) : AtCopy(k)
    BY <1>1 DEF PlaceInv, AtPlace
  <1>4. PICK n, l, s, e : GroupAt(k, n, l, s, e)
    BY GroupCells
  <1>5. /\ n = Len(Groups(input)[k].files) /\ l = Len(Groups(input)[k].data)
        /\ e = Starts(input)[k] /\ n \in Nat /\ l \in Nat /\ e \in Nat
        /\ Groups(input)[k].data \in Seq(Bytes)
        /\ \A j \in 1..l : medium[e - l + j] = Cell("byte", Groups(input)[k].data[j])
    BY <1>4 DEF GroupAt
  <1>6. /\ ~garbled /\ rd = e - left /\ f = Before(input)[k - 1] /\ count = n
        /\ left \in 0..l
        /\ SlotsOf(k, 1, count)
        /\ \A i \in 1..count : fds[slots[i]].off = l - left
        /\ Partly(input, disk, k, count, 0, l - left)
    BY <1>3, <1>5 DEF AtCopy, InGroup
  <1>7. PICK off : off = l - left
    OBVIOUS
  <1>8. /\ off \in Nat /\ off < l /\ off + 1 \in 1..l
        /\ rd + 1 = e - l + (off + 1) /\ rd + 0 + 1 = rd + 1
        /\ rd + 1 = e - (left - 1) /\ left - 1 \in 0..l /\ l - (left - 1) = off + 1
    <2>1. l \in Nat /\ e \in Nat /\ left \in 0..l /\ left > 0 /\ rd = e - left
      BY <1>1, <1>5, <1>6
    <2> QED
      BY <1>7, <2>1
  <1>9. PICK c : c = Groups(input)[k].data[off + 1]
    OBVIOUS
  <1>10. medium[rd + 1] = Cell("byte", c) /\ medium[rd + 0 + 1] = Cell("byte", c)
    BY <1>5, <1>8, <1>9
  <1>11. Write(c, count)
    <2>1. Value(0, "byte", {JUNK}) = {c}
      BY <1>6, <1>10 DEF Value, Cell
    <2> QED
      BY <1>1, <2>1
  <1>12. rd' = rd + 1 /\ end' = end /\ ~garbled'
    <2>1. medium[rd + 1].kind = "byte"
      BY <1>10 DEF Cell
    <2> QED
      BY <1>1, <1>6, <2>1 DEF Take
  <1> DEFINE to == {slots[i] : i \in 1..count}
             H(y) == {x \in to : fds[x].name = y}
  <1>13. /\ fds' = [x \in DOMAIN fds |->
                  IF x \in to THEN [name |-> fds[x].name, off |-> fds[x].off + 1] ELSE fds[x]]
         /\ disk' = [y \in DOMAIN disk |->
                   IF H(y) = {} THEN disk[y]
                   ELSE [data |-> SubSeq(disk[y].data, 1, fds[Min(H(y))].off) \o <<c>>,
                         meta |-> disk[y].meta]]
    BY <1>11 DEF Write
  <1>14. to \subseteq DOMAIN fds /\ to \subseteq Nat
    <2>1. to = Used(1, count) /\ DOMAIN fds = Foreign \union Used(1, count)
      BY <1>2 DEF Used, Opened
    <2>2. \A i \in 1..count : slots[i] >= 2 /\ slots[i] \in Int
      BY <1>2, <1>20 DEF Opened
    <2> QED
      BY <2>1, <2>2
  <1>15. \A i \in 1..count : slots[i] \in to
    OBVIOUS
  <1>16. \A x \in to : \E i \in 1..count : x = slots[i]
    OBVIOUS
  <1>17. \A y : H(y) \subseteq to /\ \A x \in to : x \in H(y) <=> fds[x].name = y
    OBVIOUS
  <1> HIDE DEF to, H
  <1>18. ASSUME NEW i \in 1..count
         PROVE  /\ fds'[slots[i]].name = NameOf(input, k, i)
                /\ fds'[slots[i]].off = off + 1
    <2>1. fds'[slots[i]] = [name |-> fds[slots[i]].name, off |-> fds[slots[i]].off + 1]
      BY <1>13, <1>14, <1>15
    <2> QED
      BY <1>6, <1>7, <2>1 DEF SlotsOf
  <1>19. DOMAIN disk' = DOMAIN disk
    BY <1>13
  <1>21. ASSUME NEW y \in DOMAIN disk, y \notin NamesIn(input, k, count)
         PROVE  disk'[y] = disk[y]
    <2>1. H(y) = {}
      <3> SUFFICES ASSUME NEW x \in H(y) PROVE FALSE
        OBVIOUS
      <3>1. x \in to /\ fds[x].name = y
        BY <1>17
      <3>2. PICK i \in 1..count : x = slots[i]
        BY <1>16, <3>1
      <3>3. y = NameOf(input, k, i)
        BY <1>6, <3>1, <3>2 DEF SlotsOf
      <3> QED
        BY <1>21, <3>3 DEF NamesIn
    <2> QED
      BY <1>13, <2>1
  <1>22. ASSUME NEW i \in 1..count
         PROVE  disk'[NameOf(input, k, i)].data =
                  SubSeq(disk[NameOf(input, k, i)].data, 1, off) \o <<Groups(input)[k].data[off + 1]>>
    <2>1. PICK y : y = NameOf(input, k, i)
      OBVIOUS
    <2>2. slots[i] \in H(y)
      BY <1>6, <1>15, <1>17, <2>1 DEF SlotsOf
    <2>3. H(y) # {} /\ H(y) \subseteq Nat
      BY <1>14, <1>17, <2>2
    <2>4. Min(H(y)) \in H(y)
      BY <2>3, MinIn
    <2>5. PICK j \in 1..count : Min(H(y)) = slots[j]
      BY <1>16, <1>17, <2>4
    <2>6. fds[Min(H(y))].off = off
      BY <1>6, <1>7, <2>5
    <2>7. y \in DOMAIN disk
      <3>1. y \in NamesIn(input, k, count)
        BY <2>1 DEF NamesIn
      <3> QED
        BY <1>6, <3>1 DEF Partly
    <2>80. PICK z : z = SubSeq(disk[y].data, 1, off) \o <<c>>
      OBVIOUS
    <2>8. disk'[y] = [data |-> z, meta |-> disk[y].meta]
      BY <1>13, <2>3, <2>6, <2>7, <2>80
    <2>81. disk'[y].data = z
      BY <2>8
    <2>9. disk'[y].data = SubSeq(disk[y].data, 1, off) \o <<c>>
      BY <2>80, <2>81
    <2> QED
      BY <1>9, <2>1, <2>9
  <1>23. \A g \in 1..(k - 1) : \A i \in DOMAIN Groups(input)[g].files :
            NameOf(input, g, i) \in NamesUpTo(input, k - 1)
    <2>1. input \in Inputs /\ Len(Groups(input)) \in Nat
      BY GroupsType DEF StreamInv
    <2>2. k - 1 \in 0..Len(Groups(input))
      BY <2>1
    <2> QED
      BY <2>1, <2>2, NameUpTo
  <1>24. Partly(input, disk', k, count, 0, off + 1)
    <2>1. Partly(input, disk, k, count, 0, off) /\ count \in Nat /\ off < Len(Groups(input)[k].data)
      BY <1>5, <1>6, <1>7, <1>8
    <2>2. PICK more : more = disk'
      OBVIOUS
    <2>3. /\ DOMAIN more = DOMAIN disk
          /\ \A y \in DOMAIN disk : y \notin NamesIn(input, k, count) => more[y] = disk[y]
      BY <1>19, <1>21, <2>2
    <2>4. \A i \in 1..count :
            more[NameOf(input, k, i)].data =
              SubSeq(disk[NameOf(input, k, i)].data, 1, off) \o <<Groups(input)[k].data[off + 1]>>
      BY <1>22, <2>2
    <2>5. Groups(input)[k].data \in Seq(Bytes) /\ off \in Nat
      BY <1>5, <1>8
    <2>6. Partly(input, more, k, count, 0, off + 1)
      BY ONLY <1>23, <2>1, <2>3, <2>4, <2>5, PartlyWritten
    <2> QED
      BY <2>2, <2>6
  <1>25. InGroup(k, left)'
    BY <1>1, <1>5, <1>6, <1>8, <1>12 DEF InGroup
  <1>26. SlotsOf(k, 1, count)'
    BY <1>1, <1>6, <1>18 DEF SlotsOf
  <1>27. l - left' = off + 1 /\ left' \in 0..l
    BY <1>1, <1>8
  <1>28. \A i \in 1..count' : fds'[slots'[i]].off = l - left'
    BY <1>1, <1>18, <1>27
  <1>29. AtCopy(k)'
    BY <1>1, <1>5, <1>24, <1>25, <1>26, <1>27, <1>28 DEF AtCopy
  <1> QED
    BY <1>1, <1>29 DEF AtPlace

LEMMA CopyPlace ==
  ASSUME StreamInv, FdsInv, PlaceInv, ShapeInv', Copy \/ WriteFails \/ ReadFails
  PROVE  PlaceInv'
  <1>1. /\ pc = "copy" /\ warned' = warned /\ medium' = medium /\ input' = input
        /\ success' = success /\ left > 0
    BY DEF Copy, WriteFails, ReadFails
  <1>2. FaultInv /\ Version' = Version /\ Version \in {1, 2}
    BY <1>1, MediumFacts DEF PlaceInv, Version
  <1>3. CASE Copy
    <2>1. pc' = "copy" /\ end' = end /\ failed' = failed
      BY <1>3 DEF Copy, Take
    <2>2. success' /\ end' = Len(medium') => AtPlace'
      BY <1>1, <1>3, <2>1, CopyGood
    <2>3. ~failed => success
      BY <1>1, <1>2 DEF FaultInv, AtEmptyEnd
    <2>4. FaultInv'
      BY <1>1, <1>2, <2>1, <2>3 DEF FaultInv
    <2> QED
      BY <2>1, <2>2, <2>4 DEF PlaceInv
  <1>4. CASE WriteFails \/ ReadFails
    <2>1. pc' \in {"copyFailed", "hung"} /\ failed' = TRUE
      BY <1>4 DEF WriteFails, ReadFails
    <2>2. pc' = "hung" => Version = 1
      <3> SUFFICES ASSUME pc' = "hung", Version = 2 PROVE FALSE
        BY <1>2
      <3>1. rd = Len(medium)
        BY <1>4 DEF WriteFails, ReadFails
      <3>2. rd \in Nat /\ end \in Nat /\ rd <= end /\ end <= Len(medium)
        BY DEF StreamInv
      <3>3. end = Len(medium)
        BY <3>1, <3>2
      <3>4. PICK k \in 1..Len(Groups(input)) : AtCopy(k)
        BY <1>1, <1>2, <3>3 DEF FaultInv, PlaceInv, AtPlace
      <3>5. PICK n, l, s, e : GroupAt(k, n, l, s, e)
        BY GroupCells
      <3>6. e \in Nat /\ l \in Nat /\ e <= Len(medium) /\ l = Len(Groups(input)[k].data)
            /\ e = Starts(input)[k]
        BY <3>5 DEF GroupAt
      <3>7. left \in 0..l /\ rd = e - left
        BY <3>4, <3>6 DEF AtCopy, InGroup
      <3> QED
        BY <1>1, <3>1, <3>2, <3>6, <3>7
    <2>3. FaultInv'
      BY <1>1, <1>2, <2>1, <2>2 DEF FaultInv
    <2>4. AtPlace'
      BY <2>1 DEF AtPlace
    <2> QED
      BY <2>1, <2>3, <2>4 DEF PlaceInv
  <1> QED
    BY <1>3, <1>4

LEMMA CopyReturnsPlace ==
  ASSUME StreamInv, FdsInv, PlaceInv, ShapeInv', CopyReturns
  PROVE  PlaceInv'
  <1>1. /\ pc = "copyFailed" \/ (pc = "copy" /\ left = 0)
        /\ success' = (success /\ pc = "copy")
        /\ \/ pc' = "finish" /\ f' = f
           \/ pc' = "next" /\ f' = f + count
        /\ Version = 1 \/ (success' /\ count > 0) => pc' = "finish" /\ f' = f
        /\ input' = input /\ medium' = medium /\ rd' = rd /\ end' = end /\ garbled' = garbled
        /\ warned' = warned /\ failed' = failed /\ count' = count /\ sub' = sub
        /\ slots' = slots /\ heads' = heads /\ fds' = fds /\ disk' = disk
    BY DEF CopyReturns, CopyResult, streamVars, groupVars
  <1>2. FaultInv /\ sub = 0 /\ (Version = 1 => count = 1)
    BY <1>1 DEF PlaceInv, FdsInv
  <1>3. success' /\ end' = Len(medium') => AtPlace'
    <2> SUFFICES ASSUME success', end = Len(medium) PROVE AtPlace'
      BY <1>1
    <2>1. success /\ pc = "copy" /\ left = 0
      BY <1>1
    <2>2. PICK k \in 1..Len(Groups(input)) : AtCopy(k)
      BY <2>1 DEF PlaceInv, AtPlace
    <2>3. PICK n, l, s, e : GroupAt(k, n, l, s, e)
      BY GroupCells
    <2>4. /\ n = Len(Groups(input)[k].files) /\ l = Len(Groups(input)[k].data)
          /\ n \in 1..MaxIdentical /\ n \in Nat /\ l \in Nat
      BY <2>3 DEF GroupAt
    <2>5. /\ InGroup(k, 0) /\ count = n /\ SlotsOf(k, 1, count) /\ Partly(input, disk, k, count, 0, l - left)
      BY <2>1, <2>2, <2>4 DEF AtCopy, InGroup
    <2>6. count > 0 /\ l - left = l /\ sub + 1 = 1
      BY <1>2, <2>1, <2>4, <2>5
    <2>7. pc' = "finish" /\ f' = f
      BY <1>1, <2>6
    <2>8. Partly(input, disk, k, count, sub, l)
      BY <1>2, <2>5, <2>6
    <2>9. SlotsOf(k, sub + 1, count)
      BY <2>5, <2>6
    <2>10. AtFinish(k)
      BY <2>4, <2>5, <2>8, <2>9 DEF AtFinish
    <2>11. AtFinish(k)'
      BY <1>1, <2>7, <2>10 DEF AtFinish, InGroup, SlotsOf
    <2> QED
      BY <1>1, <2>7, <2>11 DEF AtPlace
  <1>4. ~failed /\ ~success' => AtEmptyEnd'
    <2> SUFFICES ASSUME ~failed, ~success' PROVE AtEmptyEnd'
      OBVIOUS
    <2>1. AtEmptyEnd
      BY <1>1, <1>2 DEF FaultInv
    <2>2. EmptyEnd /\ f + count = FileCount
      BY <1>1, <2>1 DEF AtEmptyEnd
    <2> QED
      BY <1>1, <2>2 DEF AtEmptyEnd, EmptyEnd, FileCount
  <1>5. FaultInv'
    <2>1. pc' \in {"finish", "next"}
      BY <1>1
    <2> QED
      BY <1>1, <1>2, <1>4, <2>1 DEF FaultInv
  <1> QED
    BY <1>1, <1>3, <1>5 DEF PlaceInv

\* Time and attributes of one file of a group; the last one ends the group.
LEMMA FinishGood ==
  ASSUME StreamInv, FdsInv, PlaceInv, ShapeInv', Finish, success', end = Len(medium)
  PROVE  AtPlace'
  <1>1. /\ pc = "finish" /\ success
        /\ disk' = [disk EXCEPT ![fds[slots[sub + 1]].name] = [data |-> @.data, meta |-> heads[sub + 1][1]]]
        /\ fds' = Closed({slots[sub + 1]})
        /\ sub' = sub + 1
        /\ IF sub' = count THEN pc' = "next" /\ f' = f + count ELSE pc' = "finish" /\ f' = f
        /\ input' = input /\ medium' = medium /\ rd' = rd /\ end' = end /\ garbled' = garbled
        /\ count' = count /\ slots' = slots /\ heads' = heads
    BY DEF Finish, HeadOfFile, streamVars
  <1>2. sub \in 0..(count - 1) /\ Opened(sub + 1, count) /\ count \in 0..MaxIdentical
    BY <1>1 DEF FdsInv
  <1>20. MaxIdentical \in Nat
    BY LimitsAssumption DEF LimitsAssumption
  <1>3. PICK k \in 1..Len(Groups(input)) : AtFinish(k)
    BY <1>1 DEF PlaceInv, AtPlace
  <1>4. /\ InGroup(k, 0) /\ SlotsOf(k, sub + 1, count)
        /\ Partly(input, disk, k, count, sub, Len(Groups(input)[k].data))
    BY <1>3 DEF AtFinish
  <1>5. PICK i : i = sub + 1
    OBVIOUS
  <1>6. i \in (sub + 1)..count /\ count \in Nat /\ sub \in Nat /\ i \in 1..count
    BY <1>2, <1>20, <1>5
  <1>7. PICK x : x = NameOf(input, k, i)
    OBVIOUS
  <1>8. fds[slots[i]].name = x /\ heads[i][1] = Groups(input)[k].files[i].meta
    BY <1>4, <1>6, <1>7 DEF SlotsOf
  <1>9. disk' = [disk EXCEPT ![x] = [data |-> disk[x].data, meta |-> Groups(input)[k].files[i].meta]]
    BY <1>1, <1>5, <1>8
  <1>10. /\ input \in Inputs /\ Len(Groups(input)) \in Nat /\ k - 1 \in 0..Len(Groups(input))
         /\ k \in Nat
    <2>1. input \in Inputs /\ Len(Groups(input)) \in Nat
      BY GroupsType DEF StreamInv
    <2> QED
      BY <2>1
  <1>11. \A g \in 1..(k - 1) : \A j \in DOMAIN Groups(input)[g].files :
            NameOf(input, g, j) \in NamesUpTo(input, k - 1)
    BY <1>10, NameUpTo
  <1>12. Partly(input, disk', k, count, sub + 1, Len(Groups(input)[k].data))
    <2>1. PICK m : m = sub
      OBVIOUS
    <2>2. m \in 0..(count - 1) /\ i = m + 1
      BY <1>2, <1>5, <2>1
    <2>3. PICK more : more = disk'
      OBVIOUS
    <2>4. more = [disk EXCEPT ![x] = [data |-> disk[x].data, meta |-> Groups(input)[k].files[m + 1].meta]]
      BY <1>9, <2>2, <2>3
    <2>5. x = NameOf(input, k, m + 1)
      BY <1>7, <2>2
    <2>6. Partly(input, disk, k, count, m, Len(Groups(input)[k].data))
      BY <1>4, <2>1
    <2>7. Partly(input, more, k, count, m + 1, Len(Groups(input)[k].data))
      BY ONLY <1>6, <1>11, <2>2, <2>4, <2>5, <2>6, PartlyFinished
    <2> QED
      BY <2>1, <2>3, <2>7
  <1>13. CASE sub' = count
    <2>1. pc' = "next" /\ f' = f + count /\ sub + 1 = count
      BY <1>1, <1>13
    <2>2. count = Len(Groups(input)[k].files)
      BY <1>4 DEF InGroup
    <2>3. Partly(input, disk', k, count, count, Len(Groups(input)[k].data))
      BY <1>12, <2>1
    <2>4. \A y \in DOMAIN disk' : disk'[y] = [data |-> disk'[y].data, meta |-> disk'[y].meta]
      BY DEF ShapeInv
    <2>5. Holds(input, disk', k)
      BY <1>10, <2>2, <2>3, <2>4, PartlyHolds
    <2>6. Before(input)[k] = Before(input)[k - 1] + Len(Groups(input)[k].files)
      BY <1>10, BeforeFacts
    <2>7. f' = Before(input)[k]
      BY <1>4, <2>1, <2>2, <2>6 DEF InGroup
    <2>8. rd = Starts(input)[k]
      <3>1. rd = Starts(input)[k] - 0
        BY <1>4 DEF InGroup
      <3>2. Starts(input)[k] \in Nat
        <4>1. k \in 0..Len(Groups(input))
          BY <1>10
        <4> QED
          BY <1>10, <4>1, StartsFacts
      <3> QED
        BY <3>1, <3>2
    <2>9. k \in 0..Len(Groups(input))
      BY <1>10
    <2>10. AtNext(k)'
      BY <1>1, <1>4, <2>5, <2>7, <2>8, <2>9 DEF AtNext, InGroup
    <2>11. input' = input
      BY <1>1
    <2> QED
      BY <2>1, <2>9, <2>10, <2>11 DEF AtPlace
  <1>14. CASE sub' # count
    <2>1. pc' = "finish" /\ f' = f
      BY <1>1, <1>14
    <2>2. ASSUME NEW j \in (i + 1)..count
          PROVE  /\ fds'[slots[j]].name = NameOf(input, k, j)
                 /\ heads[j][1] = Groups(input)[k].files[j].meta
      <3>1. j \in (sub + 1)..count /\ j # i
        BY <1>5, <1>6
      <3>2. slots[j] # slots[i] /\ slots[j] \in DOMAIN fds
        BY <1>2, <1>6, <3>1 DEF Opened, Used
      <3>3. fds' = [y \in DOMAIN fds \ {slots[i]} |-> fds[y]]
        BY <1>1, <1>5 DEF Closed
      <3>4. fds'[slots[j]] = fds[slots[j]]
        BY <3>2, <3>3
      <3> QED
        BY <1>4, <3>1, <3>4 DEF SlotsOf
    <2>30. PICK m : m = i + 1
      OBVIOUS
    <2>31. sub' + 1 = m /\ count' = count /\ slots' = slots /\ heads' = heads /\ input' = input
      BY <1>1, <1>5, <2>30
    <2>32. \A j \in m..count : /\ fds'[slots[j]].name = NameOf(input, k, j)
                               /\ heads[j][1] = Groups(input)[k].files[j].meta
      BY <2>2, <2>30
    <2>3. SlotsOf(k, sub + 1, count)'
      BY <2>31, <2>32 DEF SlotsOf
    <2>4. InGroup(k, 0)'
      BY <1>1, <1>4, <2>1 DEF InGroup
    <2>5. AtFinish(k)'
      BY <1>1, <1>12, <2>3, <2>4 DEF AtFinish
    <2>6. input' = input
      BY <1>1
    <2> QED
      BY <2>1, <2>5, <2>6 DEF AtPlace
  <1> QED
    BY <1>13, <1>14

LEMMA FinishPlace ==
  ASSUME StreamInv, FdsInv, PlaceInv, ShapeInv', Finish
  PROVE  PlaceInv'
  <1>0. /\ pc = "finish"
        /\ \/ success' = success /\ failed' = failed
           \/ success' = FALSE /\ failed' = TRUE
    BY DEF Finish
  <1>01. \/ pc' = "next" /\ f' = f + count
         \/ pc' = "finish" /\ f' = f
    BY DEF Finish
  <1>1. /\ pc = "finish" /\ pc' \in {"next", "finish"}
        /\ \/ success' = success /\ failed' = failed
           \/ success' = FALSE /\ failed' = TRUE
        /\ warned' = warned /\ medium' = medium /\ end' = end /\ count' = count
    BY <1>0, <1>01 DEF Finish, streamVars
  <1>2. FaultInv
    BY DEF PlaceInv
  <1>3. success' /\ end' = Len(medium') => AtPlace'
    BY <1>1, FinishGood
  <1>4. ~failed' /\ ~success' => AtEmptyEnd'
    <2> SUFFICES ASSUME ~failed', ~success' PROVE AtEmptyEnd'
      OBVIOUS
    <2>1. AtEmptyEnd
      BY <1>1, <1>2 DEF FaultInv
    <2>2. EmptyEnd /\ f + count = FileCount
      BY <1>1, <2>1 DEF AtEmptyEnd
    <2> QED
      BY <1>01, <1>1, <2>2 DEF AtEmptyEnd, EmptyEnd, FileCount
  <1>5. FaultInv'
    <2>1. ~failed' => end = Len(medium)
      BY <1>1, <1>2 DEF FaultInv
    <2>2. success' /\ end' # Len(medium') => warned'
      BY <1>1, <1>2 DEF FaultInv
    <2> QED
      BY <1>1, <1>4, <2>1, <2>2 DEF FaultInv
  <1> QED
    BY <1>1, <1>3, <1>5 DEF PlaceInv

\* After the last file of an archive the partition holds all of its groups.
LEMMA FilesDonePlace ==
  ASSUME StreamInv, FdsInv, PlaceInv, ShapeInv', FilesDone
  PROVE  PlaceInv'
  <1>1. /\ pc = "next" /\ f >= FileCount
        /\ pc' = IF Version = 2 /\ ~success THEN "close" ELSE "done"
        /\ input' = input /\ medium' = medium /\ end' = end /\ success' = success
        /\ warned' = warned /\ failed' = failed /\ f' = f /\ count' = count /\ disk' = disk
    BY DEF FilesDone, streamVars, groupVars
  <1>2. FaultInv
    BY DEF PlaceInv
  <1>3. success' /\ end' = Len(medium') => AtPlace'
    <2> SUFFICES ASSUME success, end = Len(medium) PROVE AtPlace'
      BY <1>1
    <2>1. pc' = "done"
      BY <1>1
    <2>2. PICK k \in 0..Len(Groups(input)) : AtNext(k)
      BY <1>1 DEF PlaceInv, AtPlace
    <2>3. /\ input \in Inputs /\ Len(Groups(input)) \in Nat
          /\ FileCount = Len(input.files) /\ FileCount \in Nat
      BY GroupsType, MediumFacts DEF StreamInv
    <2>4. k = Len(Groups(input))
      <3> SUFFICES ASSUME k # Len(Groups(input)) PROVE FALSE
        OBVIOUS
      <3>1. k \in 0..(Len(Groups(input)) - 1)
        BY <2>3
      <3>2. Before(input)[k] < FileCount /\ Before(input)[k] \in Nat
        BY <2>3, <3>1, BeforeFacts
      <3>3. f = Before(input)[k]
        BY <2>2 DEF AtNext
      <3> QED
        BY <1>1, <2>3, <3>2, <3>3
    <2>5. Holds(input, disk, Len(Groups(input)))
      BY <2>2, <2>4 DEF AtNext
    <2> QED
      BY <1>1, <2>1, <2>5 DEF AtPlace
  <1>4. ~failed /\ ~success => AtEmptyEnd'
    <2> SUFFICES ASSUME ~failed, ~success PROVE AtEmptyEnd'
      OBVIOUS
    <2>1. AtEmptyEnd
      BY <1>1, <1>2 DEF FaultInv
    <2>2. pc' \in {"close", "done"}
      BY <1>1
    <2> QED
      BY <1>1, <2>1, <2>2 DEF AtEmptyEnd, EmptyEnd
  <1>5. FaultInv'
    BY <1>1, <1>2, <1>4 DEF FaultInv
  <1> QED
    BY <1>1, <1>3, <1>5 DEF PlaceInv

LEMMA ClosePlace ==
  ASSUME StreamInv, FdsInv, PlaceInv, ShapeInv', Close
  PROVE  PlaceInv'
  <1>1. /\ pc = "close" /\ pc' = "done" /\ success' = success /\ failed' = failed
        /\ medium' = medium /\ end' = end
    BY DEF Close, streamVars
  <1>2. FaultInv /\ ~success
    BY <1>1 DEF PlaceInv, FaultInv
  <1>3. ~failed => AtEmptyEnd'
    <2>1. ~failed => AtEmptyEnd
      BY <1>2 DEF FaultInv
    <2> QED
      BY <1>1, <2>1 DEF AtEmptyEnd, EmptyEnd
  <1>4. FaultInv'
    BY <1>1, <1>2, <1>3 DEF FaultInv
  <1> QED
    BY <1>1, <1>2, <1>4 DEF PlaceInv

\* A read only goes astray in V1, after a call has failed.
LEMMA HangsInV1 ==
  ASSUME StreamInv, FdsInv, PlaceInv, ReadHangs
  PROVE  Version = 1 /\ failed
  <1>1. PICK kind \in {"name", "size"} : ReadsLong(kind) /\ Astray(kind)
    BY DEF ReadHangs
  <1>2. end = Len(medium) /\ rd \in Nat
    BY DEF ReadHangs, StreamInv
  <1>3. CASE pc = "open"
    <2>1. Version = 2 /\ success /\ count \in 0..MaxIdentical /\ sub \in 0..count
      BY <1>3 DEF FdsInv
    <2>2. PICK k \in 1..Len(Groups(input)) : AtOpen(k)
      BY <1>2, <1>3, <2>1 DEF PlaceInv, AtPlace
    <2>3. PICK n, l, s, e : GroupAt(k, n, l, s, e)
      BY GroupCells
    <2>4. /\ n = Len(Groups(input)[k].files) /\ l = Len(Groups(input)[k].data)
          /\ e = Starts(input)[k]
          /\ n \in Nat /\ l \in Nat /\ s \in Nat /\ e \in Nat
          /\ e = s + 2 + 2 * n + l
      BY <2>1, <2>3 DEF GroupAt
    <2>40. /\ \A i \in 1..n : medium[s + 2 * i].kind = "name"
           /\ medium[s + 2 + 2 * n].kind = "size"
      <3>1. /\ \A i \in 1..n : medium[s + 2 * i] = Cell("name", NameOf(input, k, i))
            /\ medium[s + 2 + 2 * n] = Cell("size", l)
        BY <2>1, <2>3 DEF GroupAt
      <3>2. medium[s + 2 + 2 * n].kind = "size"
        BY <3>1 DEF Cell
      <3>3. ASSUME NEW i \in 1..n PROVE medium[s + 2 * i].kind = "name"
        <4>1. PICK x : x = NameOf(input, k, i)
          OBVIOUS
        <4>2. medium[s + 2 * i] = Cell("name", x)
          BY <3>1, <4>1
        <4> QED
          BY <4>2 DEF Cell
      <3> QED
        BY <3>2, <3>3
    <2>5. ~garbled /\ rd = e - (1 + 2 * (n - sub) + l) /\ count = n
      BY <2>2, <2>4 DEF AtOpen, InGroup
    <2>6. sub \in Nat /\ sub <= n /\ (sub < count <=> sub < n)
      BY <2>1, <2>4, <2>5
    <2>60. PICK i : i = sub + 1
      OBVIOUS
    <2>7. rd + 1 = s + 2 * i
      <3>1. rd = e - (1 + 2 * (n - sub) + l) /\ e = s + 2 + 2 * n + l
        BY <2>4, <2>5
      <3>2. n \in Nat /\ l \in Nat /\ s \in Nat /\ sub \in Nat /\ i = sub + 1
        BY <2>4, <2>6, <2>60
      <3> QED
        BY <3>1, <3>2
    <2>8. CASE sub < n
      <3>1. i \in 1..n
        BY <2>4, <2>6, <2>60, <2>8
      <3>2. medium[rd + 1].kind = "name"
        BY <2>40, <2>7, <3>1
      <3>3. kind = "name"
        BY <1>1, <1>3, <2>6, <2>8 DEF ReadsLong
      <3> QED
        BY <1>1, <2>5, <3>2, <3>3 DEF Astray
    <2>9. CASE ~(sub < n)
      <3>1. rd + 1 = s + 2 + 2 * n
        <4>1. i = n + 1
          BY <2>4, <2>6, <2>60, <2>9
        <4>2. n \in Nat /\ s \in Nat
          BY <2>4
        <4> QED
          BY <2>7, <4>1, <4>2
      <3>2. medium[rd + 1].kind = "size"
        BY <2>40, <3>1
      <3>3. kind = "size"
        BY <1>1, <1>3, <2>6, <2>9 DEF ReadsLong
      <3> QED
        BY <1>1, <2>5, <3>2, <3>3 DEF Astray
    <2> QED
      BY <2>8, <2>9
  <1>4. CASE pc # "open"
    <2>1. pc = "next" /\ Version = 1 /\ f < FileCount /\ kind = "name"
      BY <1>1, <1>4 DEF ReadsLong
    <2>2. ASSUME ~failed PROVE FALSE
      <3>1. FileCount \in Nat
        BY MediumFacts DEF StreamInv
      <3>2. success
        BY <2>1, <2>2, <3>1 DEF PlaceInv, FaultInv, AtEmptyEnd
      <3>3. PICK k \in 1..Len(Groups(input)) : ~garbled /\ rd = Starts(input)[k - 1]
        BY <1>2, <2>1, <3>2, NextGroup
      <3>4. PICK n, l, s, e : GroupAt(k, n, l, s, e)
        BY GroupCells
      <3>5. s = Starts(input)[k - 1] /\ medium[s + 1] = Cell("name", NameOf(input, k, 1))
        BY <2>1, <3>4 DEF GroupAt
      <3>6. medium[rd + 1].kind = "name"
        BY <3>3, <3>5 DEF Cell
      <3> QED
        BY <1>1, <2>1, <3>3, <3>6 DEF Astray
    <2>3. failed \in BOOLEAN
      BY DEF StreamInv
    <2> QED
      BY <2>1, <2>2, <2>3
  <1> QED
    BY <1>3, <1>4

LEMMA ReadHangsPlace ==
  ASSUME StreamInv, FdsInv, PlaceInv, ShapeInv', ReadHangs
  PROVE  PlaceInv'
  <1>1. /\ pc' = "hung" /\ end = Len(medium)
        /\ end' = end /\ medium' = medium /\ failed' = failed /\ success' = success
    BY DEF ReadHangs
  <1>2. Version' = 1 /\ failed'
    BY <1>1, HangsInV1 DEF Version
  <1>3. FaultInv'
    BY <1>1, <1>2 DEF FaultInv
  <1>4. AtPlace'
    BY <1>1 DEF AtPlace
  <1> QED
    BY <1>1, <1>3, <1>4 DEF PlaceInv

LEMMA StutterPlace == PlaceInv /\ UNCHANGED vars => PlaceInv'
  <1> SUFFICES ASSUME PlaceInv, UNCHANGED vars PROVE PlaceInv'
    OBVIOUS
  <1>1. /\ input' = input /\ medium' = medium /\ rd' = rd /\ end' = end /\ garbled' = garbled
        /\ pc' = pc /\ success' = success /\ warned' = warned /\ d' = d /\ f' = f
        /\ count' = count /\ sub' = sub /\ slots' = slots /\ heads' = heads /\ left' = left
        /\ fds' = fds /\ disk' = disk /\ failed' = failed
    BY DEF vars, streamVars, groupVars
  <1>2. ShapeInv' = ShapeInv
    BY <1>1 DEF ShapeInv
  <1>3. AtDirs' = AtDirs
    BY <1>1 DEF AtDirs, DirCount
  <1>4. AtEmptyEnd' = AtEmptyEnd
    BY <1>1 DEF AtEmptyEnd, EmptyEnd, FileCount
  <1>5. FaultInv' = FaultInv
    BY <1>1, <1>4 DEF FaultInv, Version
  <1>6. AtPlace' = AtPlace
    BY <1>1 DEF AtPlace, AtNext, AtOpen, AtCopy, AtFinish, InGroup, SlotsOf
  <1> QED
    BY <1>1, <1>2, <1>3, <1>5, <1>6 DEF PlaceInv

LEMMA NextPlace == StreamInv /\ FdsInv /\ PlaceInv /\ [Next]_vars => PlaceInv'
  <1> SUFFICES ASSUME StreamInv, FdsInv, PlaceInv, [Next]_vars PROVE PlaceInv'
    OBVIOUS
  <1>1. ShapeInv'
    BY ShapeStep DEF PlaceInv
  <1>2. CASE Header \/ CreateDirectory \/ DirectoriesDone
    BY <1>1, <1>2, StartPlace
  <1>3. CASE FileV1
    BY <1>1, <1>3, FileV1Place
  <1>4. CASE GroupStart
    BY <1>1, <1>4, GroupStartPlace
  <1>5. CASE OpenSubFile
    BY <1>1, <1>5, OpenSubFilePlace
  <1>6. CASE GroupSize
    BY <1>1, <1>6, GroupSizePlace
  <1>7. CASE Copy \/ WriteFails \/ ReadFails
    BY <1>1, <1>7, CopyPlace
  <1>8. CASE CopyReturns
    BY <1>1, <1>8, CopyReturnsPlace
  <1>9. CASE Finish
    BY <1>1, <1>9, FinishPlace
  <1>10. CASE FilesDone
    BY <1>1, <1>10, FilesDonePlace
  <1>11. CASE Close
    BY <1>1, <1>11, ClosePlace
  <1>12. CASE Ended \/ UNCHANGED vars
    BY <1>12, StutterPlace DEF Ended
  <1>13. CASE ReadHangs
    BY <1>1, <1>13, ReadHangsPlace
  <1> QED
    BY <1>2, <1>3, <1>4, <1>5, <1>6, <1>7, <1>8, <1>9, <1>10, <1>11, <1>12, <1>13 DEF Next

\* PlaceInv holds: as long as no read error was cancelled, a successful
\* unpacker is where it takes itself to be in the archive, and the partition
\* holds what is before that place.
THEOREM SpecPlace == Spec => [](StreamInv /\ FdsInv /\ PlaceInv)
  <1>1. Init => StreamInv /\ FdsInv /\ PlaceInv
    BY InitStream, InitFds, InitPlace
  <1>2. StreamInv /\ FdsInv /\ PlaceInv /\ [Next]_vars => (StreamInv /\ FdsInv /\ PlaceInv)'
    BY NextStream, NextFds, NextPlace
  <1> QED
    BY <1>1, <1>2, PTL DEF Spec

\* SoundArchiveUnpacks for every archive: if no call fails no assertion fails
\* and nothing spins, success is only lost when the last file is empty; and
\* V2 never spins.
THEOREM SpecSoundArchiveUnpacks == Spec => []SoundArchiveUnpacks
  <1>1. PlaceInv => SoundArchiveUnpacks
    BY DEF PlaceInv, FaultInv, AtEmptyEnd, EmptyEnd, SoundArchiveUnpacks
  <1> QED
    BY <1>1, SpecPlace, PTL

(***************************************************************************)
(* What the groups of an archive amount to.                                *)
(***************************************************************************)
LEMMA MaxIn ==
  ASSUME NEW N \in Nat, NEW T, T \subseteq 1..N, T # {}
  PROVE  Max(T) \in T /\ \A y \in T : y <= Max(T)
  <1> DEFINE U == {N - y : y \in T}
  <1>1. U \subseteq Nat /\ U # {}
    <2>1. ASSUME NEW y \in T PROVE N - y \in Nat
      <3>1. y \in 1..N
        OBVIOUS
      <3> QED
        BY <3>1
    <2> QED
      BY <2>1
  <1>2. PICK u \in U : \A x \in U : u <= x
    BY <1>1, LeastNat
  <1>3. PICK t \in T : u = N - t
    OBVIOUS
  <1>4. ASSUME NEW y \in T PROVE t >= y
    <2>1. N - y \in U
      OBVIOUS
    <2>2. N - t <= N - y
      BY <1>2, <1>3, <2>1
    <2>3. y \in Nat /\ t \in Nat
      OBVIOUS
    <2> QED
      BY <2>2, <2>3
  <1>5. \E x \in T : \A y \in T : x >= y
    BY <1>4
  <1>6. Max(T) \in T /\ \A y \in T : Max(T) >= y
    BY <1>5 DEF Max
  <1>7. \A x, y \in T : x >= y => y <= x
    OBVIOUS
  <1> QED
    BY <1>6, <1>7

\* A file of the archive and the file that was packed there.
LEMMA FileOfGroup ==
  ASSUME NEW in \in Inputs, NEW g \in 1..Len(Groups(in)), NEW i \in DOMAIN Groups(in)[g].files,
         NEW m, m = Groups(in)[g].files[i].meta
  PROVE  /\ m \in 1..Len(in.files)
         /\ NameOf(in, g, i) = in.files[m].name
         /\ Groups(in)[g].data = in.files[m].data
  <1>1. DOMAIN Groups(in)[g].files = 1..Len(Groups(in)[g].files)
    BY GroupsType
  <1>2. FileOK(Groups(in), in.files, Len(in.files), g, i)
    BY <1>1, GroupsSorted DEF Sorted
  <1> QED
    BY <1>2 DEF FileOK, NameOf

\* The file that was packed under a name last is the last one of its name.
LEMMA LastIsPacked ==
  ASSUME NEW in \in Inputs, NEW n, NEW k \in 1..Len(in.files), in.files[k].name = n,
         \A j \in 1..Len(in.files) : in.files[j].name = n => j <= k
  PROVE  \E g \in 1..Len(Groups(in)) : \E i \in DOMAIN Groups(in)[g].files :
           /\ LastOne(in, Len(Groups(in)), g, i)
           /\ Groups(in)[g].files[i].meta = k
           /\ NameOf(in, g, i) = n
           /\ Groups(in)[g].data = in.files[k].data
  <1>1. /\ Len(Groups(in)) \in Nat /\ DOMAIN Groups(in) = 1..Len(Groups(in))
        /\ \A g \in 1..Len(Groups(in)) : DOMAIN Groups(in)[g].files = 1..Len(Groups(in)[g].files)
    BY GroupsType
  <1>2. PICK g \in 1..Len(Groups(in)) : \E i \in 1..Len(Groups(in)[g].files) :
          Groups(in)[g].files[i].meta = k
    BY GroupsSorted DEF Sorted
  <1>3. PICK i \in 1..Len(Groups(in)[g].files) : Groups(in)[g].files[i].meta = k
    BY <1>2
  <1>4. i \in DOMAIN Groups(in)[g].files
    BY <1>1
  <1>5. NameOf(in, g, i) = n /\ Groups(in)[g].data = in.files[k].data
    <2>1. NameOf(in, g, i) = in.files[k].name /\ Groups(in)[g].data = in.files[k].data
      BY <1>3, <1>4, FileOfGroup
    <2> QED
      BY <2>1
  <1>6. ASSUME NEW h \in g..Len(Groups(in)), NEW j \in DOMAIN Groups(in)[h].files,
               h > g \/ j > i, NameOf(in, h, j) = NameOf(in, g, i)
        PROVE  FALSE
    <2>1. h \in 1..Len(Groups(in)) /\ h \in Nat /\ g \in Nat /\ h >= g
      BY <1>1
    <2>2. j \in 1..Len(Groups(in)[h].files) /\ j \in Nat /\ i \in Nat
      BY <1>1, <2>1
    <2>3. PICK m : m = Groups(in)[h].files[j].meta
      OBVIOUS
    <2>4. m \in 1..Len(in.files) /\ NameOf(in, h, j) = in.files[m].name
      BY <2>1, <2>3, FileOfGroup
    <2>5. m <= k
      BY <1>5, <1>6, <2>4
    <2>6. CASE m = k
      <3>0. \A a, b \in 1..Len(Groups(in)) :
              \A x \in 1..Len(Groups(in)[a].files), y \in 1..Len(Groups(in)[b].files) :
                Groups(in)[a].files[x].meta = Groups(in)[b].files[y].meta => a = b /\ x = y
        BY GroupsSorted DEF Sorted
      <3>00. Groups(in)[h].files[j].meta = Groups(in)[g].files[i].meta
        BY <1>3, <2>3, <2>6
      <3>1. h = g /\ j = i
        BY <2>1, <2>2, <3>0, <3>00, Zenon
      <3> QED
        BY <1>6, <2>1, <2>2, <3>1
    <2>7. CASE m # k
      <3>1. m < k
        BY <2>4, <2>5, <2>7
      <3>2. Groups(in)[h].files[j].name = Groups(in)[g].files[i].name
        BY <1>6 DEF NameOf
      <3>3. Groups(in)[h].files[j].meta < Groups(in)[g].files[i].meta
        BY <1>3, <2>3, <3>1
      <3>4. h < g \/ (h = g /\ j < i)
        BY <1>1, <1>4, <1>6, <2>1, <3>2, <3>3, OrderAssumption DEF OrderAssumption
      <3> QED
        BY <1>6, <2>1, <2>2, <3>4
    <2> QED
      BY <2>6, <2>7
  <1>7. LastOne(in, Len(Groups(in)), g, i)
    BY <1>6 DEF LastOne
  <1> QED
    BY <1>3, <1>4, <1>5, <1>7

\* SuccessMeansUnpacked for every tree that is packed: when the unpacker
\* reports success, the partition holds the files mercypak.py packed, each
\* with the data, time and attributes of the last one of its name, and no
\* others.
THEOREM SpecSuccessMeansUnpacked == Spec => []SuccessMeansUnpacked
  <1>1. ASSUME StreamInv, PlaceInv, pc = "done", success, warned => end = Len(medium)
        PROVE  /\ DOMAIN disk = PackedNames
               /\ \A n \in PackedNames : disk[n] = Packed(n)
    <2>1. end = Len(medium)
      BY <1>1 DEF PlaceInv, FaultInv
    <2>2. Holds(input, disk, Len(Groups(input)))
      BY <1>1, <2>1 DEF PlaceInv, AtPlace
    <2>3. /\ input \in Inputs /\ Len(Groups(input)) \in Nat
          /\ \A g \in 1..Len(Groups(input)) : DOMAIN Groups(input)[g].files = 1..Len(Groups(input)[g].files)
          /\ Len(input.files) \in Nat /\ DOMAIN input.files = 1..Len(input.files)
      <3>1. input \in Inputs
        BY <1>1 DEF StreamInv
      <3>2. DOMAIN input.files = 1..Len(input.files) /\ Len(input.files) \in Nat
        BY <3>1, InputType
      <3> QED
        BY <3>1, <3>2, GroupsType
    <2>4. ASSUME NEW n \in PackedNames
          PROVE  n \in DOMAIN disk /\ disk[n] = Packed(n)
      <3> DEFINE T == {j \in DOMAIN input.files : input.files[j].name = n}
      <3>1. T \subseteq 1..Len(input.files) /\ T # {}
        BY <2>3 DEF PackedNames
      <3>2. PICK k : k = Max(T)
        OBVIOUS
      <3>3. k \in T /\ \A y \in T : y <= k
        BY <2>3, <3>1, <3>2, MaxIn
      <3>4. Packed(n) = [data |-> input.files[k].data, meta |-> k]
        BY <3>2 DEF Packed
      <3>5. k \in 1..Len(input.files) /\ input.files[k].name = n
            /\ \A j \in 1..Len(input.files) : input.files[j].name = n => j <= k
        BY <2>3, <3>3
      <3> HIDE DEF T
      <3>6. PICK g \in 1..Len(Groups(input)) : \E i \in DOMAIN Groups(input)[g].files :
              /\ LastOne(input, Len(Groups(input)), g, i)
              /\ Groups(input)[g].files[i].meta = k
              /\ NameOf(input, g, i) = n
              /\ Groups(input)[g].data = input.files[k].data
        <4>1. input \in Inputs
          BY <2>3
        <4> QED
          BY ONLY <4>1, <3>5, LastIsPacked
      <3>7. PICK i \in DOMAIN Groups(input)[g].files :
              /\ LastOne(input, Len(Groups(input)), g, i)
              /\ Groups(input)[g].files[i].meta = k
              /\ NameOf(input, g, i) = n
              /\ Groups(input)[g].data = input.files[k].data
        BY <3>6
      <3>8. IsPacked(input, disk, g, i)
        BY <2>2, <3>7 DEF Holds
      <3>9. n \in DOMAIN disk
        <4>1. n \in NamesIn(input, g, Len(Groups(input)[g].files))
          BY <2>3, <3>7 DEF NamesIn
        <4>2. n \in NamesUpTo(input, Len(Groups(input)))
          BY <4>1 DEF NamesUpTo
        <4> QED
          BY <2>2, <4>2 DEF Holds
      <3> QED
        BY <3>4, <3>7, <3>8, <3>9 DEF IsPacked
    <2>5. ASSUME NEW n \in DOMAIN disk PROVE n \in PackedNames
      <3>1. n \in NamesUpTo(input, Len(Groups(input)))
        BY <2>2 DEF Holds
      <3>2. PICK g \in 1..Len(Groups(input)) : n \in NamesIn(input, g, Len(Groups(input)[g].files))
        BY <3>1 DEF NamesUpTo
      <3>3. PICK i \in 1..Len(Groups(input)[g].files) : n = NameOf(input, g, i)
        BY <3>2 DEF NamesIn
      <3>4. PICK m : m = Groups(input)[g].files[i].meta
        OBVIOUS
      <3>5. m \in 1..Len(input.files) /\ NameOf(input, g, i) = input.files[m].name
        <4>1. i \in DOMAIN Groups(input)[g].files
          BY <2>3
        <4> QED
          BY <2>3, <3>4, <4>1, FileOfGroup
      <3> QED
        BY <2>3, <3>3, <3>5 DEF PackedNames
    <2> QED
      BY <2>4, <2>5
  <1>2. StreamInv /\ PlaceInv => SuccessMeansUnpacked
    BY <1>1 DEF SuccessMeansUnpacked
  <1> QED
    BY <1>2, SpecPlace, PTL
=============================================================================
