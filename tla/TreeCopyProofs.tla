--------------------------- MODULE TreeCopyProofs ---------------------------
(***************************************************************************)
(* Proofs about TreeCopy, for every tree, every size of its files and any  *)
(* number of failures: what is reported as copied is the source's, what a  *)
(* failure costs, and that the progress bar fits.                          *)
(***************************************************************************)
EXTENDS TreeCopy, FiniteSetTheorems, TLAPS

-----------------------------------------------------------------------------
(***************************************************************************)
(* Paths.                                                                  *)
(***************************************************************************)
\* p is f, or a directory above it.
Over(p, f) == p = f \/ p \in Above(f)

\* What is over a path is the beginning of it.
LEMMA OverIsPrefix ==
  ASSUME NEW f \in Paths, NEW p, Over(p, f)
  PROVE  /\ p \in Seq(Names) /\ Len(p) <= Len(f) /\ p = SubSeq(f, 1, Len(p))
         /\ p \in Paths
         /\ p # f => p \in Dirs /\ Len(p) < Len(f)
<1>1. f \in Seq(Names)
  BY PathsAssumption
<1>2. CASE p = f
  BY <1>1, <1>2
<1>3. CASE p \in Above(f)
  <2>1. PICK n \in 0..(Len(f) - 1) : p = SubSeq(f, 1, n)
    BY <1>3 DEF Above
  <2>2. p \in Seq(Names) /\ Len(p) = n
    BY <1>1, <2>1
  <2>3. p \in Dirs
    BY <1>3, KindAssumption
  <2>4. QED
    BY <1>1, <2>1, <2>2, <2>3 DEF Dirs
<1>4. QED
  BY <1>2, <1>3 DEF Over

LEMMA PrefixIsOver ==
  ASSUME NEW f \in Paths, NEW n \in 0..Len(f)
  PROVE  Over(SubSeq(f, 1, n), f)
<1>1. f \in Seq(Names)
  BY PathsAssumption
<1>2. CASE n = Len(f)
  BY <1>1, <1>2 DEF Over
<1>3. CASE n # Len(f)
  <2>1. n \in 0..(Len(f) - 1)
    BY <1>1, <1>3
  <2>2. QED
    BY <2>1 DEF Over, Above
<1>4. QED
  BY <1>2, <1>3

\* Of two paths over a third, the shorter is over the longer.
LEMMA OverBoth ==
  ASSUME NEW f \in Paths, NEW p, NEW q, Over(p, f), Over(q, f), Len(p) <= Len(q)
  PROVE  Over(p, q) /\ (Len(p) = Len(q) => p = q)
<1>1. /\ p \in Seq(Names) /\ p = SubSeq(f, 1, Len(p)) /\ q \in Paths
      /\ q \in Seq(Names) /\ q = SubSeq(f, 1, Len(q)) /\ Len(q) <= Len(f) /\ f \in Seq(Names)
  BY OverIsPrefix, PathsAssumption
<1>2. p = SubSeq(q, 1, Len(p))
  <2> DEFINE r == SubSeq(q, 1, Len(p))
  <2>1. r \in Seq(Names) /\ Len(r) = Len(p)
    BY <1>1
  <2>2. \A i \in 1..Len(p) : r[i] = p[i]
    BY <1>1
  <2>3. QED
    BY <1>1, <2>1, <2>2
<1>3. Len(p) \in 0..Len(q)
  BY <1>1
<1>4. QED
  BY <1>1, <1>2, <1>3, PrefixIsOver

LEMMA OverTrans ==
  ASSUME NEW f \in Paths, NEW p, NEW q, Over(p, q), Over(q, f)
  PROVE  Over(p, f)
<1>1. q \in Paths
  BY OverIsPrefix
<1>2. /\ q \in Seq(Names) /\ q = SubSeq(f, 1, Len(q)) /\ Len(q) <= Len(f) /\ f \in Seq(Names)
      /\ p \in Seq(Names) /\ p = SubSeq(q, 1, Len(p)) /\ Len(p) <= Len(q)
  BY <1>1, OverIsPrefix, PathsAssumption
<1>3. p = SubSeq(f, 1, Len(p))
  <2> DEFINE r == SubSeq(f, 1, Len(p))
  <2>1. r \in Seq(Names) /\ Len(r) = Len(p)
    BY <1>2
  <2>2. \A i \in 1..Len(p) : r[i] = p[i]
    BY <1>2
  <2>3. QED
    BY <1>2, <2>1, <2>2
<1>4. Len(p) \in 0..Len(f)
  BY <1>2
<1>5. QED
  BY <1>3, <1>4, PrefixIsOver

\* What readdir returns for a directory.
LEMMA EntryFacts ==
  ASSUME NEW d \in Paths, NEW e \in Entries(d)
  PROVE  /\ e \in Paths /\ Len(e) = Len(d) + 1 /\ Len(d) \in Nat /\ Parent(e) = d
         /\ d \in Above(e) /\ e # << >>
<1>1. e \in Seq(Names) /\ d \in Seq(Names) /\ e \in Paths /\ Len(e) = Len(d) + 1 /\ SubSeq(e, 1, Len(d)) = d
  <2>1. e \in Paths /\ Len(e) = Len(d) + 1 /\ SubSeq(e, 1, Len(d)) = d
    BY DEF Entries
  <2>2. QED
    BY <2>1, PathsAssumption
<1>2. Len(d) \in 0..(Len(e) - 1) /\ Len(e) - 1 = Len(d)
  BY <1>1
<1>3. d \in Above(e)
  BY <1>1, <1>2 DEF Above
<1>4. Parent(e) = d
  BY <1>1, <1>2 DEF Parent
<1>5. Len(d) \in Nat /\ e # << >>
  BY <1>1
<1>6. QED
  BY <1>1, <1>3, <1>4, <1>5

\* What is over an entry, and is not the entry, is over its directory.
LEMMA OverEntry ==
  ASSUME NEW d \in Paths, NEW e \in Entries(d), NEW p, Over(p, e), Len(p) <= Len(d)
  PROVE  Over(p, d)
BY EntryFacts, OverBoth DEF Over

\* A file below a directory is one of its entries, or below one.
LEMMA BelowEntry ==
  ASSUME NEW f \in Paths, NEW d \in Above(f)
  PROVE  \E e \in Entries(d) : Over(e, f)
<1>1. /\ d \in Seq(Names) /\ Len(d) <= Len(f) /\ d = SubSeq(f, 1, Len(d)) /\ f \in Seq(Names) /\ d \in Paths
  BY OverIsPrefix, PathsAssumption DEF Over
<1>2. Len(d) < Len(f)
  <2>1. PICK n \in 0..(Len(f) - 1) : d = SubSeq(f, 1, n)
    BY DEF Above
  <2>2. QED
    BY <1>1, <2>1
<1> DEFINE e == SubSeq(f, 1, Len(d) + 1)
<1>3. Over(e, f)
  BY <1>1, <1>2, PrefixIsOver
<1>4. e \in Paths /\ e \in Seq(Names) /\ Len(e) = Len(d) + 1
  BY <1>1, <1>2, <1>3, OverIsPrefix
<1>5. SubSeq(e, 1, Len(d)) = d
  <2> DEFINE r == SubSeq(e, 1, Len(d))
  <2>1. r \in Seq(Names) /\ Len(r) = Len(d)
    BY <1>1, <1>4
  <2>2. \A i \in 1..Len(d) : r[i] = d[i]
    BY <1>1, <1>2, <1>4
  <2>3. QED
    BY <1>1, <2>1, <2>2
<1>6. QED
  BY <1>3, <1>4, <1>5 DEF Entries

-----------------------------------------------------------------------------
(***************************************************************************)
(* The stack of calls.                                                     *)
(***************************************************************************)
Frame == [dir : Dirs, left : SUBSET Paths, ok : BOOLEAN]

\* Each call is for an entry of the directory of the call under it, and what
\* is left to read is not on the way to it.
StackOK(s) ==
  /\ s \in Seq(Frame)
  /\ \A i \in 1..Len(s) : Len(s[i].dir) = i - 1 /\ s[i].left \subseteq Entries(s[i].dir)
  /\ \A i, j \in 1..Len(s) : j < i => \A e \in s[j].left : ~Over(e, s[i].dir)

\* The calls will still come to f: it is left, or a directory above it is.
Pending(s, f) == \E i \in 1..Len(s) : \E e \in s[i].left : Over(e, f)

LEMMA DirsArePaths == Dirs \subseteq Paths
BY DEF Dirs

LEMMA FrameWithLeft ==
  \A c \in Frame : \A x : [c EXCEPT !.left = x] = [dir |-> c.dir, left |-> x, ok |-> c.ok]
BY DEF Frame

LEMMA FrameWithOk ==
  \A c \in Frame : \A x : [c EXCEPT !.ok = x] = [dir |-> c.dir, left |-> c.left, ok |-> x]
BY DEF Frame

LEMMA LastFrame ==
  ASSUME NEW s \in Seq(Frame), s # << >>
  PROVE  /\ Len(s) \in Nat /\ Len(s) \in 1..Len(s) /\ s[Len(s)] \in Frame
         /\ s[Len(s)].dir \in Dirs /\ s[Len(s)].left \subseteq Paths /\ s[Len(s)].ok \in BOOLEAN
<1>1. Len(s) \in Nat /\ Len(s) \in 1..Len(s) /\ s[Len(s)] \in Frame
  OBVIOUS
<1>2. QED
  BY <1>1 DEF Frame

LEMMA FrameSet ==
  ASSUME NEW s \in Seq(Frame), s # << >>, NEW c \in Frame,
         NEW t, t = [s EXCEPT ![Len(s)] = c]
  PROVE  /\ t \in Seq(Frame) /\ Len(t) = Len(s) /\ t[Len(s)] = c
         /\ \A i \in 1..Len(s) : i # Len(s) => t[i] = s[i]
OBVIOUS

\* t is s without entry e of the last call, or with another ok.
Taken(s, t, e) ==
  /\ t \in Seq(Frame) /\ Len(t) = Len(s)
  /\ t[Len(s)].left = s[Len(s)].left \ {e}
  /\ \A i \in 1..Len(s) : /\ t[i].dir = s[i].dir /\ t[i].ok = s[i].ok
                          /\ i # Len(s) => t[i].left = s[i].left
Marked(s, t, ok) ==
  /\ t \in Seq(Frame) /\ Len(t) = Len(s)
  /\ t[Len(s)].ok = ok
  /\ \A i \in 1..Len(s) : /\ t[i].dir = s[i].dir /\ t[i].left = s[i].left
                          /\ i # Len(s) => t[i].ok = s[i].ok

\* Taking an entry out of the directory of the last call.
LEMMA TakeFrame ==
  ASSUME NEW s \in Seq(Frame), s # << >>, NEW e, NEW t
  PROVE  t = [s EXCEPT ![Len(s)].left = @ \ {e}] => Taken(s, t, e)
<1> DEFINE c == s[Len(s)]
           d == [dir |-> c.dir, left |-> c.left \ {e}, ok |-> c.ok]
<1>1. c \in Frame
  BY LastFrame
<1>2. [c EXCEPT !.left = c.left \ {e}] = d
  BY <1>1, FrameWithLeft, Zenon
<1>3. t = [s EXCEPT ![Len(s)].left = @ \ {e}] => t = [s EXCEPT ![Len(s)] = d]
  BY <1>2, Zenon
<1>4. d \in Frame
  BY <1>1 DEF Frame
<1>5. d.dir = c.dir /\ d.left = c.left \ {e} /\ d.ok = c.ok
  OBVIOUS
<1> HIDE DEF d
<1>6. t = [s EXCEPT ![Len(s)] = d] =>
        /\ t \in Seq(Frame) /\ Len(t) = Len(s) /\ t[Len(s)] = d
        /\ \A i \in 1..Len(s) : i # Len(s) => t[i] = s[i]
  BY <1>4, FrameSet
<1>7. QED
  BY <1>3, <1>5, <1>6, Zenon DEF Taken

\* Noting what became of a file in the last call.
LEMMA MarkFrame ==
  ASSUME NEW s \in Seq(Frame), s # << >>, NEW ok \in BOOLEAN, NEW t
  PROVE  t = [s EXCEPT ![Len(s)].ok = ok] => Marked(s, t, ok)
<1> DEFINE c == s[Len(s)]
           d == [dir |-> c.dir, left |-> c.left, ok |-> ok]
<1>1. c \in Frame
  BY LastFrame
<1>2. [c EXCEPT !.ok = ok] = d
  BY <1>1, FrameWithOk, Zenon
<1>3. t = [s EXCEPT ![Len(s)].ok = ok] => t = [s EXCEPT ![Len(s)] = d]
  BY <1>2, Zenon
<1>4. d \in Frame
  BY <1>1 DEF Frame
<1>5. d.dir = c.dir /\ d.left = c.left /\ d.ok = ok
  OBVIOUS
<1> HIDE DEF d
<1>6. t = [s EXCEPT ![Len(s)] = d] =>
        /\ t \in Seq(Frame) /\ Len(t) = Len(s) /\ t[Len(s)] = d
        /\ \A i \in 1..Len(s) : i # Len(s) => t[i] = s[i]
  BY <1>4, FrameSet
<1>7. QED
  BY <1>3, <1>5, <1>6, Zenon DEF Marked


\* In a good stack, no directory left to read is the top one, and what is
\* left in one call is not over what is left in a later one.
LEMMA LeftFacts ==
  ASSUME NEW s, StackOK(s), NEW i \in 1..Len(s), NEW e \in s[i].left
  PROVE  /\ Len(s) \in Nat /\ s[i] \in Frame /\ s[i].dir \in Paths /\ s[i].dir \in Dirs
         /\ e \in Paths /\ e \in Entries(s[i].dir) /\ Len(e) = i /\ Parent(e) = s[i].dir
         /\ s[i].dir \in Above(e)
<1>1. Len(s) \in Nat /\ s[i] \in Frame
  BY DEF StackOK
<1>2. s[i].dir \in Dirs /\ s[i].dir \in Paths
  BY <1>1, DirsArePaths DEF Frame
<1>3. e \in Entries(s[i].dir) /\ Len(s[i].dir) = i - 1
  BY DEF StackOK
<1>4. QED
  BY <1>1, <1>2, <1>3, EntryFacts

LEMMA LeftNotOverNext ==
  ASSUME NEW s, StackOK(s), s # << >>, NEW e \in s[Len(s)].left,
         NEW i \in 1..Len(s), NEW p \in s[i].left, p # e
  PROVE  ~Over(p, e)
<1> SUFFICES ASSUME Over(p, e) PROVE FALSE
  OBVIOUS
<1> DEFINE n == Len(s)
<1>1. n \in Nat /\ n \in 1..Len(s)
  BY DEF StackOK
<1>2. Len(p) = i /\ p \in Paths
  BY LeftFacts
<1>3. Len(e) = n /\ e \in Paths /\ s[n].dir \in Paths /\ e \in Entries(s[n].dir)
  BY <1>1, LeftFacts
<1>4. i < n
  <2>1. CASE i = n
    BY <2>1, <1>1, <1>2, <1>3, OverBoth DEF Over
  <2>2. QED
    BY <2>1, <1>1
<1>5. Over(p, s[n].dir)
  <2>1. Len(s[n].dir) = n - 1
    BY <1>1 DEF StackOK
  <2>2. QED
    BY <1>1, <1>2, <1>3, <1>4, <2>1, OverEntry
<1>6. ~Over(p, s[n].dir)
  BY <1>1, <1>4 DEF StackOK
<1>7. QED
  BY <1>5, <1>6

\* Taking an entry: what is at or below it is no longer pending, and all the
\* rest still is.
LEMMA TakeStack ==
  ASSUME NEW s, StackOK(s), s # << >>, NEW e \in s[Len(s)].left, NEW t
  PROVE  t = [s EXCEPT ![Len(s)].left = @ \ {e}] =>
           /\ StackOK(t) /\ Len(t) = Len(s)
           /\ \A i \in 1..Len(s) : t[i].dir = s[i].dir /\ t[i].ok = s[i].ok
           /\ \A f \in Paths : Pending(t, f) <=> Pending(s, f) /\ ~Over(e, f)
           /\ \A i \in 1..Len(s) : \A p \in t[i].left : ~Over(p, e)
           /\ e \in Entries(s[Len(s)].dir)
<1> DEFINE n == Len(s)
<1>1. s \in Seq(Frame) /\ n \in Nat /\ n \in 1..n
  BY DEF StackOK
<1>2. t = [s EXCEPT ![Len(s)].left = @ \ {e}] => Taken(s, t, e)
  BY <1>1, TakeFrame, Zenon
<1>3. ASSUME Taken(s, t, e)
      PROVE  /\ StackOK(t) /\ Len(t) = Len(s)
             /\ \A i \in 1..Len(s) : t[i].dir = s[i].dir /\ t[i].ok = s[i].ok
             /\ \A f \in Paths : Pending(t, f) <=> Pending(s, f) /\ ~Over(e, f)
             /\ \A i \in 1..Len(s) : \A p \in t[i].left : ~Over(p, e)
             /\ e \in Entries(s[Len(s)].dir)
  <2>1. \A i \in 1..n : t[i].left \subseteq s[i].left /\ \A p \in s[i].left : p # e => p \in t[i].left
    BY <1>3 DEF Taken
  <2>2. \A i \in 1..n : \A p \in t[i].left : p # e
    <3> SUFFICES ASSUME NEW i \in 1..n, e \in t[i].left PROVE FALSE
      OBVIOUS
    <3>1. Len(e) = i /\ Len(e) = n
      BY <1>1, <2>1, LeftFacts
    <3>2. QED
      BY <3>1, <1>3 DEF Taken
  <2>3. StackOK(t)
    BY <1>1, <1>3, <2>1 DEF StackOK, Taken
  <2>4. \A i \in 1..n : \A p \in t[i].left : ~Over(p, e)
    BY <2>1, <2>2, LeftNotOverNext
  <2>5. ASSUME NEW f \in Paths, Pending(t, f)
        PROVE  Pending(s, f) /\ ~Over(e, f)
    <3>1. PICK i \in 1..Len(t) : \E p \in t[i].left : Over(p, f)
      BY <2>5 DEF Pending
    <3>2. PICK p \in t[i].left : Over(p, f)
      BY <3>1
    <3>3. p \in s[i].left /\ p # e /\ i \in 1..n
      BY <1>3, <2>1, <2>2 DEF Taken
    <3>4. Len(p) = i /\ Len(e) = n
      BY <3>3, <1>1, LeftFacts
    <3>5. ~Over(e, f)
      BY <3>2, <3>3, <3>4, <2>4, <1>1, <1>3, OverBoth DEF Taken
    <3>6. QED
      BY <3>2, <3>3, <3>5 DEF Pending
  <2>6. ASSUME NEW f \in Paths, Pending(s, f), ~Over(e, f)
        PROVE  Pending(t, f)
    BY <2>6, <1>3, <2>1 DEF Pending, Taken
  <2>7. e \in Entries(s[n].dir)
    BY <1>1, LeftFacts
  <2>8. QED
    BY <1>3, <2>3, <2>4, <2>5, <2>6, <2>7 DEF Taken
<1>4. QED
  BY <1>2, <1>3, Zenon

\* Emptying the directory of the last call: what was in it is no longer pending.
Cleared(s, t) ==
  /\ t \in Seq(Frame) /\ Len(t) = Len(s) /\ t[Len(s)].left = {}
  /\ \A i \in 1..Len(s) : /\ t[i].dir = s[i].dir /\ t[i].ok = s[i].ok
                          /\ i # Len(s) => t[i].left = s[i].left
ClearedStack(s, t) ==
  /\ StackOK(t) /\ Len(t) = Len(s)
  /\ \A i \in 1..Len(s) : t[i].dir = s[i].dir /\ t[i].ok = s[i].ok
  /\ \A f \in Paths : /\ Pending(t, f) => Pending(s, f)
                      /\ Pending(s, f) => Pending(t, f) \/ \E e \in s[Len(s)].left : Over(e, f)

LEMMA ClearFrame ==
  ASSUME NEW s \in Seq(Frame), s # << >>, NEW t
  PROVE  t = [s EXCEPT ![Len(s)].left = {}] => Cleared(s, t)
<1> DEFINE c == s[Len(s)]
           d == [dir |-> c.dir, left |-> {}, ok |-> c.ok]
<1>1. c \in Frame
  BY LastFrame
<1>2. [c EXCEPT !.left = {}] = d
  BY <1>1, FrameWithLeft, Zenon
<1>3. t = [s EXCEPT ![Len(s)].left = {}] => t = [s EXCEPT ![Len(s)] = d]
  BY <1>2, Zenon
<1>4. d \in Frame
  BY <1>1 DEF Frame
<1>5. d.dir = c.dir /\ d.left = {} /\ d.ok = c.ok
  OBVIOUS
<1> HIDE DEF d
<1>6. t = [s EXCEPT ![Len(s)] = d] =>
        /\ t \in Seq(Frame) /\ Len(t) = Len(s) /\ t[Len(s)] = d
        /\ \A i \in 1..Len(s) : i # Len(s) => t[i] = s[i]
  BY <1>4, FrameSet
<1>7. QED
  BY <1>3, <1>5, <1>6, Zenon DEF Cleared

LEMMA ClearStack ==
  ASSUME NEW s, StackOK(s), s # << >>, NEW t
  PROVE  t = [s EXCEPT ![Len(s)].left = {}] => ClearedStack(s, t)
<1>1. s \in Seq(Frame) /\ Len(s) \in Nat /\ Len(s) \in 1..Len(s)
  BY DEF StackOK
<1>2. t = [s EXCEPT ![Len(s)].left = {}] => Cleared(s, t)
  BY <1>1, ClearFrame, Zenon
<1>3. ASSUME Cleared(s, t)
      PROVE  ClearedStack(s, t)
  <2>1. \A i \in 1..Len(s) : t[i].left \subseteq s[i].left
    BY <1>3 DEF Cleared
  <2>2. StackOK(t)
    BY <1>1, <1>3, <2>1 DEF StackOK, Cleared
  <2>3. QED
    BY <1>1, <1>3, <2>1, <2>2 DEF ClearedStack, Cleared, Pending
<1>4. QED
  BY <1>2, <1>3, Zenon

\* t is s after the last call noted ok.
MarkedStack(s, t, ok) ==
  /\ StackOK(t) /\ Len(t) = Len(s) /\ t[Len(s)].ok = ok
  /\ \A i \in 1..Len(s) : t[i].dir = s[i].dir /\ (i # Len(s) => t[i].ok = s[i].ok)
  /\ \A f \in Paths : Pending(t, f) <=> Pending(s, f)

LEMMA MarkStack ==
  ASSUME NEW s, StackOK(s), s # << >>, NEW ok \in BOOLEAN, NEW t
  PROVE  t = [s EXCEPT ![Len(s)].ok = ok] => MarkedStack(s, t, ok)
<1> DEFINE n == Len(s)
<1>1. s \in Seq(Frame) /\ n \in Nat /\ n \in 1..n
  BY DEF StackOK
<1>2. t = [s EXCEPT ![Len(s)].ok = ok] => Marked(s, t, ok)
  BY <1>1, MarkFrame, Zenon
<1>3. ASSUME Marked(s, t, ok)
      PROVE  MarkedStack(s, t, ok)
  <2>1. StackOK(t)
    BY <1>1, <1>3 DEF StackOK, Marked
  <2>2. QED
    BY <1>3, <2>1 DEF Pending, Marked, MarkedStack
<1>4. QED
  BY <1>2, <1>3, Zenon

LEMMA PushStack ==
  ASSUME NEW s, StackOK(s), NEW c \in Frame, c.left = Entries(c.dir), Len(c.dir) = Len(s),
         \A i \in 1..Len(s) : \A p \in s[i].left : ~Over(p, c.dir)
  PROVE  /\ StackOK(Append(s, c)) /\ Len(Append(s, c)) = Len(s) + 1
         /\ Append(s, c)[Len(s) + 1] = c
         /\ \A i \in 1..Len(s) : Append(s, c)[i] = s[i]
         /\ \A f \in Paths : Pending(Append(s, c), f) <=> Pending(s, f) \/ \E e \in Entries(c.dir) : Over(e, f)
<1> DEFINE t == Append(s, c)
<1>1. s \in Seq(Frame) /\ Len(s) \in Nat
  BY DEF StackOK
<1>2. /\ t \in Seq(Frame) /\ Len(t) = Len(s) + 1
      /\ t[Len(t)] = c /\ \A i \in 1..Len(s) : t[i] = s[i]
  BY <1>1
<1> HIDE DEF t
<1>3. StackOK(t)
  <2>1. \A i \in 1..Len(t) : i \in 1..Len(s) \/ i = Len(t)
    BY <1>1, <1>2
  <2>2. \A i \in 1..Len(t) : Len(t[i].dir) = i - 1 /\ t[i].left \subseteq Entries(t[i].dir)
    <3> SUFFICES ASSUME NEW i \in 1..Len(t)
                 PROVE  Len(t[i].dir) = i - 1 /\ t[i].left \subseteq Entries(t[i].dir)
      OBVIOUS
    <3>1. CASE i = Len(t)
      <4>1. i - 1 = Len(s)
        BY <1>1, <1>2, <3>1
      <4>2. QED
        BY <1>2, <3>1, <4>1
    <3>2. CASE i \in 1..Len(s)
      BY <1>2, <3>2 DEF StackOK
    <3>3. QED
      BY <2>1, <3>1, <3>2
  <2>3. \A i, j \in 1..Len(t) : j < i => \A e \in t[j].left : ~Over(e, t[i].dir)
    <3> SUFFICES ASSUME NEW i \in 1..Len(t), NEW j \in 1..Len(t), j < i
                 PROVE  \A e \in t[j].left : ~Over(e, t[i].dir)
      OBVIOUS
    <3>1. j \in 1..Len(s) /\ t[j] = s[j]
      BY <1>1, <1>2
    <3>2. CASE i = Len(t)
      BY <1>2, <3>1, <3>2
    <3>3. CASE i \in 1..Len(s)
      BY <1>2, <3>1, <3>3 DEF StackOK
    <3>4. QED
      BY <2>1, <3>2, <3>3
  <2>4. QED
    BY <1>2, <2>2, <2>3 DEF StackOK
<1>4. \A f \in Paths : Pending(t, f) <=> Pending(s, f) \/ \E e \in Entries(c.dir) : Over(e, f)
  BY <1>1, <1>2 DEF Pending
<1>5. QED
  BY <1>2, <1>3, <1>4 DEF t

LEMMA PopStack ==
  ASSUME NEW s, StackOK(s), s # << >>, NEW t, t = SubSeq(s, 1, Len(s) - 1)
  PROVE  /\ StackOK(t) /\ Len(t) = Len(s) - 1
         /\ \A i \in 1..Len(t) : t[i] = s[i]
         /\ \A f \in Paths : Pending(s, f) <=> Pending(t, f) \/ \E e \in s[Len(s)].left : Over(e, f)
<1>1. s \in Seq(Frame) /\ Len(s) \in Nat /\ Len(s) > 0
  BY DEF StackOK
<1> DEFINE m == Len(s) - 1
<1>2. t \in Seq(Frame) /\ Len(t) = Len(s) - 1 /\ \A i \in 1..Len(t) : t[i] = s[i]
  <2>1. m \in Nat /\ m <= Len(s) /\ t = SubSeq(s, 1, m)
    BY <1>1
  <2> HIDE DEF m
  <2>2. t \in Seq(Frame) /\ Len(t) = m /\ \A i \in 1..m : t[i] = s[i]
    BY <1>1, <2>1
  <2>3. QED
    BY <2>2 DEF m
<1>3. StackOK(t)
  <2>1. \A i \in 1..Len(t) : i \in 1..Len(s)
    BY <1>1, <1>2
  <2>2. \A i \in 1..Len(t) : Len(t[i].dir) = i - 1 /\ t[i].left \subseteq Entries(t[i].dir)
    BY <1>2, <2>1 DEF StackOK
  <2>3. \A i, j \in 1..Len(t) : j < i => \A e \in t[j].left : ~Over(e, t[i].dir)
    BY <1>2, <2>1 DEF StackOK
  <2>4. QED
    BY <1>2, <2>2, <2>3 DEF StackOK
<1>4. QED
  BY <1>1, <1>2, <1>3 DEF Pending

-----------------------------------------------------------------------------
(***************************************************************************)
(* The inductive invariant.                                                *)
(***************************************************************************)
TargetOK == target = [p \in Paths |-> target[p]]

PhaseOK ==
  /\ result \in {"none", "running", "ok", "failed", "hangs"}
  /\ calls # << >> => result \in {"running", "hangs"}
  /\ result = "hangs" => calls # << >> /\ file # NoFile
  /\ result \in {"none", "running"} /\ calls = << >> =>
       copied = {} /\ file = NoFile /\ hit = {} /\ passed = {} /\ cut = {} /\ count = 0

\* The file that is being copied is in the directory of the last call, which
\* has seen no failure; what is at the destination is the beginning of it.
FileOK ==
  /\ file # NoFile => /\ file \in Files \ copied /\ ~Pending(calls, file)
                      /\ calls # << >> /\ Current.ok /\ Parent(file) = Current.dir
  /\ opened \in BOOLEAN /\ offset \in Nat
  /\ opened => file # NoFile /\ offset <= Size[file] /\ target[file] = New(offset)
  /\ ~opened => offset = 0

\* The source's first blocks, and all of them unless f was cut.
IsSource(f) == \E n \in 0..Size[f] : target[f] = New(n) /\ (f \notin cut => n = Size[f])
CopiedOK ==
  /\ copied \subseteq Files
  /\ \A f \in copied : IsSource(f) /\ ~Pending(calls, f)

\* A call that has seen a failure is for a directory that was hit; a failure
\* in the top directory is not forgotten.
HitOK ==
  /\ \A i \in 1..Len(calls) : ~calls[i].ok => calls[i].dir \in hit
  /\ << >> \in hit => result = "failed" \/ (calls # << >> /\ ~calls[1].ok)
  /\ result = "failed" => hit # {}

\* No file is forgotten.
Lost(f) == f \in passed \/ \E d \in Above(f) : d \in hit \union passed
CoverOK ==
  calls # << >> \/ result = "ok" =>
    \A f \in Files : f \in copied \/ f = file \/ Pending(calls, f) \/ Lost(f)

\* The files that are still to be counted.
Ahead == {f \in Files : f = file \/ Pending(calls, f)}
BarOK ==
  /\ count \in Nat /\ count + Cardinality(Ahead) <= Cardinality(Files)
  /\ hit = {} => count = Cardinality(copied)
  /\ max \in Nat /\ (result # "none" /\ ~unread => max = Cardinality(Files))

Inv ==
  /\ TargetOK /\ StackOK(calls)
  /\ PhaseOK /\ FileOK /\ CopiedOK /\ HitOK /\ CoverOK /\ BarOK

-----------------------------------------------------------------------------
LEMMA FilesFinite ==
  /\ Files \subseteq Paths /\ IsFiniteSet(Files) /\ Cardinality(Files) \in Nat
  /\ Files \intersect Dirs = {} /\ NoFile \notin Files
  /\ \A S \in SUBSET Files : IsFiniteSet(S) /\ Cardinality(S) \in Nat /\ Cardinality(S) <= Cardinality(Files)
<1>1. Files \subseteq Paths /\ Files \intersect Dirs = {}
  BY DEF Files, Dirs
<1>2. IsFiniteSet(Files)
  BY <1>1, PathsAssumption, FS_Subset
<1>3. \A S \in SUBSET Files : IsFiniteSet(S) /\ Cardinality(S) \in Nat /\ Cardinality(S) <= Cardinality(Files)
  BY <1>2, FS_Subset, FS_CardinalityType
<1>4. QED
  BY <1>1, <1>2, <1>3, FS_CardinalityType, PathsAssumption

LEMMA SizeType == \A f \in Files : Size[f] \in Nat
BY SizeAssumption

LEMMA EmptyStack == StackOK(<< >>) /\ \A f : ~Pending(<< >>, f)
BY DEF StackOK, Pending

LEMMA StackType ==
  ASSUME NEW s, StackOK(s)
  PROVE  Len(s) \in Nat /\ (s # << >> <=> Len(s) > 0) /\ (s # << >> => Len(s) \in 1..Len(s))
         /\ \A i \in 1..Len(s) : s[i].dir \in Dirs /\ s[i].ok \in BOOLEAN /\ s[i].left \subseteq Paths
                                 /\ Len(s[i].dir) = i - 1 /\ (s[i].dir = << >> <=> i = 1)
<1>1. s \in Seq(Frame) /\ \A i \in 1..Len(s) : Len(s[i].dir) = i - 1
  BY DEF StackOK
<1>2. \A i \in 1..Len(s) : s[i] \in Frame
  BY <1>1
<1>3. \A i \in 1..Len(s) : s[i].dir \in Dirs /\ s[i].ok \in BOOLEAN /\ s[i].left \subseteq Paths
  BY <1>2 DEF Frame
<1>4. \A i \in 1..Len(s) : s[i].dir \in Seq(Names)
  BY <1>3, DirsArePaths, PathsAssumption
<1>5. \A i \in 1..Len(s) : s[i].dir = << >> <=> i = 1
  BY <1>1, <1>4
<1>6. QED
  BY <1>1, <1>3, <1>5

\* What the call for a directory does to the stack and to the destination.
LEMMA CallFacts ==
  ASSUME NEW d \in Dirs, NEW s, StackOK(s), Len(d) = Len(s), Call(d, s),
         \A i \in 1..Len(s) : \A p \in s[i].left : ~Over(p, d),
         TargetOK
  PROVE  /\ StackOK(calls') /\ (calls' = s \/ Len(calls') = Len(s) + 1)
         /\ \A i \in 1..Len(s) : calls'[i] = s[i]
         /\ calls' # s => calls'[Len(s) + 1].dir = d /\ (~calls'[Len(s) + 1].ok => d \in hit')
         /\ calls' = s => d \in hit'
         /\ hit' = hit \/ (hit' = hit \union {d} /\ (calls' = s \/ ~calls'[Len(s) + 1].ok))
         /\ TargetOK'
         /\ \A f \in Files : target'[f] = target[f]
         /\ \A f \in Paths : Pending(calls', f) => Pending(s, f) \/ Over(d, f)
         /\ \A f \in Files : Pending(s, f) => Pending(calls', f)
         /\ \A f \in Files : d \in Above(f) => Pending(calls', f) \/ \E x \in Above(f) : x \in hit'
<1> DEFINE Pushed(ok) == calls' = Append(s, [dir |-> d, left |-> Entries(d), ok |-> ok])
           Made == [target EXCEPT ![d] = Folder]
<1>1. \/ /\ Pushed(TRUE) /\ target' = Made /\ hit' = hit
      \/ /\ Pushed(FALSE) /\ target' \in {target, Made} /\ hit' = hit \union {d}
      \/ /\ calls' = s /\ target' = target /\ hit' = hit \union {d}
  BY DEF Call, CallWith
<1>2. /\ TargetOK'
      /\ \A f \in Files : target'[f] = target[f]
  <2>1. Made = [p \in Paths |-> Made[p]] /\ \A f \in Files : Made[f] = target[f]
    BY FilesFinite DEF TargetOK
  <2>2. target' \in {target, Made}
    BY <1>1
  <2>3. CASE target' = target
    BY <2>3 DEF TargetOK
  <2>4. CASE target' = Made
    BY <2>1, <2>4 DEF TargetOK
  <2>5. QED
    BY <2>2, <2>3, <2>4
<1>3. Len(s) \in Nat
  BY StackType
<1>4. ASSUME NEW ok \in BOOLEAN, Pushed(ok)
      PROVE  /\ StackOK(calls') /\ Len(calls') = Len(s) + 1
             /\ \A i \in 1..Len(s) : calls'[i] = s[i]
             /\ calls'[Len(s) + 1].dir = d /\ calls'[Len(s) + 1].ok = ok
             /\ \A f \in Paths : Pending(calls', f) => Pending(s, f) \/ Over(d, f)
             /\ \A f \in Files : Pending(s, f) => Pending(calls', f)
             /\ \A f \in Files : d \in Above(f) => Pending(calls', f)
  <2> DEFINE c == [dir |-> d, left |-> Entries(d), ok |-> ok]
  <2>0. c \in Frame /\ c.dir = d /\ c.left = Entries(d) /\ c.ok = ok /\ calls' = Append(s, c)
    BY <1>4 DEF Frame, Entries
  <2> HIDE DEF c
  <2>1. /\ StackOK(calls') /\ Len(calls') = Len(s) + 1
        /\ calls'[Len(s) + 1] = c
        /\ \A i \in 1..Len(s) : calls'[i] = s[i]
        /\ \A f \in Paths : Pending(calls', f) <=> Pending(s, f) \/ \E e \in Entries(d) : Over(e, f)
    <3>1. \A i \in 1..Len(s) : \A p \in s[i].left : ~Over(p, c.dir)
      BY <2>0
    <3>2. /\ StackOK(Append(s, c)) /\ Len(Append(s, c)) = Len(s) + 1
          /\ Append(s, c)[Len(s) + 1] = c
          /\ \A i \in 1..Len(s) : Append(s, c)[i] = s[i]
          /\ \A f \in Paths : Pending(Append(s, c), f) <=> Pending(s, f) \/ \E e \in Entries(c.dir) : Over(e, f)
      BY <2>0, <3>1, PushStack
    <3>3. QED
      BY <2>0, <3>2
  <2>2. \A f \in Paths : \A e \in Entries(d) : Over(e, f) => Over(d, f)
    <3> SUFFICES ASSUME NEW f \in Paths, NEW e \in Entries(d), Over(e, f) PROVE Over(d, f)
      OBVIOUS
    <3>1. Over(d, e)
      BY DirsArePaths, EntryFacts DEF Over
    <3>2. QED
      BY <3>1, OverTrans
  <2>3. \A f \in Files : d \in Above(f) => \E e \in Entries(d) : Over(e, f)
    BY BelowEntry, FilesFinite
  <2>4. QED
    BY <2>0, <2>1, <2>2, <2>3, FilesFinite
<1> HIDE DEF Pushed, Made
<1>5. CASE Pushed(TRUE) /\ hit' = hit
  <2>1. /\ StackOK(calls') /\ Len(calls') = Len(s) + 1
        /\ \A i \in 1..Len(s) : calls'[i] = s[i]
        /\ calls'[Len(s) + 1].dir = d /\ calls'[Len(s) + 1].ok = TRUE
        /\ \A f \in Paths : Pending(calls', f) => Pending(s, f) \/ Over(d, f)
        /\ \A f \in Files : Pending(s, f) => Pending(calls', f)
        /\ \A f \in Files : d \in Above(f) => Pending(calls', f)
    BY <1>4, <1>5, Zenon
  <2>2. calls' # s
    BY <1>3, <2>1
  <2>3. QED
    BY <1>2, <1>5, <2>1, <2>2
<1>6. CASE Pushed(FALSE) /\ hit' = hit \union {d}
  <2>1. /\ StackOK(calls') /\ Len(calls') = Len(s) + 1
        /\ \A i \in 1..Len(s) : calls'[i] = s[i]
        /\ calls'[Len(s) + 1].dir = d /\ calls'[Len(s) + 1].ok = FALSE
        /\ \A f \in Paths : Pending(calls', f) => Pending(s, f) \/ Over(d, f)
        /\ \A f \in Files : Pending(s, f) => Pending(calls', f)
        /\ \A f \in Files : d \in Above(f) => Pending(calls', f)
    BY <1>4, <1>6, Zenon
  <2>2. calls' # s
    BY <1>3, <2>1
  <2>3. QED
    BY <1>2, <1>6, <2>1, <2>2
<1>7. CASE calls' = s /\ hit' = hit \union {d}
  BY <1>2, <1>7
<1>8. QED
  BY <1>1, <1>5, <1>6, <1>7

-----------------------------------------------------------------------------
LEMMA InitInv == Init => Inv
<1> SUFFICES ASSUME Init PROVE Inv
  OBVIOUS
<1>1. /\ calls = << >> /\ file = NoFile /\ opened = FALSE /\ offset = 0 /\ count = 0
      /\ max = 0 /\ result = "none" /\ hit = {} /\ passed = {} /\ copied = {} /\ cut = {} /\ TargetOK
  BY DEF Init, TargetOK
<1>2. StackOK(calls) /\ \A f : ~Pending(calls, f)
  BY <1>1, EmptyStack
<1>3. Ahead = {}
  BY <1>1, <1>2, FilesFinite DEF Ahead
<1>4. BarOK
  BY <1>1, <1>3, FilesFinite, FS_EmptySet DEF BarOK
<1>5. PhaseOK /\ FileOK /\ CopiedOK /\ CoverOK
  BY <1>1 DEF PhaseOK, FileOK, CopiedOK, IsSource, CoverOK, Lost
<1>6. HitOK
  BY <1>1 DEF HitOK
<1>7. QED
  BY <1>1, <1>2, <1>4, <1>5, <1>6 DEF Inv

LEMMA StartStep == Inv /\ Start => Inv'
<1> SUFFICES ASSUME Inv, Start PROVE Inv'
  OBVIOUS
<1>0. /\ result = "none" /\ result' = "running"
      /\ target' = target /\ calls' = calls /\ file' = file /\ opened' = opened
      /\ offset' = offset /\ count' = count /\ hit' = hit /\ passed' = passed
      /\ copied' = copied /\ cut' = cut
  BY DEF Start, fileVars
<1>1. PICK unseen : max' = Cardinality(Counted(unseen)) /\ (~unread' => unseen = {})
  <2>1. PICK missed \in SUBSET Paths, torn \in SUBSET Dirs :
             /\ \E rest \in SUBSET UNION {Entries(d) : d \in torn} :
                  max' = Cardinality(Counted(missed \union rest))
             /\ unread' = (missed \union torn # {})
    BY DEF Start
  <2>2. PICK rest \in SUBSET UNION {Entries(d) : d \in torn} :
             max' = Cardinality(Counted(missed \union rest))
    BY <2>1
  <2>3. torn = {} => rest = {}
    OBVIOUS
  <2>4. ~unread' => missed \union rest = {}
    BY <2>1, <2>3
  <2>5. QED
    BY <2>2, <2>4
<1>2. calls = << >> /\ StackOK(calls)
  BY <1>0 DEF Inv, PhaseOK
<1>3. ~unread' => Counted(unseen) = Files
  BY <1>1 DEF Counted
<1>4. PhaseOK'
  BY <1>0, <1>2 DEF Inv, PhaseOK
<1>5. FileOK'
  BY <1>0, <1>2 DEF Inv, FileOK, Current
<1>6. CopiedOK'
  BY <1>0 DEF Inv, CopiedOK, IsSource
<1>7. HitOK'
  BY <1>0, <1>2 DEF Inv, HitOK
<1>8. CoverOK'
  BY <1>0, <1>2 DEF Inv, CoverOK, Lost
<1>9. BarOK'
  <2>1. Ahead' = Ahead
    BY <1>0 DEF Ahead
  <2>2. Counted(unseen) \subseteq Files
    BY DEF Counted
  <2>3. Cardinality(Counted(unseen)) \in Nat
    BY <2>2, FilesFinite
  <2>4. QED
    BY <1>0, <1>1, <1>3, <2>1, <2>3 DEF Inv, BarOK
<1>10. (TargetOK /\ StackOK(calls))'
  BY <1>0, <1>2 DEF Inv, TargetOK
<1>11. QED
  BY <1>4, <1>5, <1>6, <1>7, <1>8, <1>9, <1>10 DEF Inv

\* The number of files that are still ahead never rises.
LEMMA AheadShrinks ==
  ASSUME BarOK, Ahead' \subseteq Ahead, count' = count, hit' = {} => hit = {}, copied' = copied,
         max' = max, unread' = unread, result' # "none" => result # "none"
  PROVE  BarOK'
<1>1. /\ Cardinality(Ahead) \in Nat /\ Cardinality(Ahead') \in Nat /\ IsFiniteSet(Ahead)
  BY FilesFinite DEF Ahead
<1>2. Cardinality(Ahead') <= Cardinality(Ahead)
  BY <1>1, FS_Subset
<1>3. count \in Nat /\ count + Cardinality(Ahead) <= Cardinality(Files) /\ Cardinality(Files) \in Nat
  BY FilesFinite DEF BarOK
<1>4. count' + Cardinality(Ahead') <= Cardinality(Files)
  BY <1>1, <1>2, <1>3
<1>5. (hit = {} => count = Cardinality(copied))' /\ max' \in Nat /\ (result # "none" /\ ~unread => max = Cardinality(Files))'
  BY DEF BarOK
<1>6. QED
  BY <1>3, <1>4, <1>5 DEF BarOK

LEMMA CallTopStep == Inv /\ CallTop => Inv'
<1> SUFFICES ASSUME Inv, CallTop PROVE Inv'
  OBVIOUS
<1>1. /\ result = "running" /\ calls = << >> /\ Call(<< >>, << >>)
      /\ result' = IF calls' = << >> THEN "failed" ELSE result
      /\ file' = file /\ opened' = opened /\ offset' = offset /\ count' = count /\ copied' = copied
      /\ max' = max /\ unread' = unread /\ passed' = passed /\ cut' = cut
  BY DEF CallTop, fileVars
<1>2. /\ TargetOK
      /\ copied = {} /\ file = NoFile /\ hit = {} /\ passed = {} /\ count = 0 /\ opened = FALSE /\ offset = 0
  BY <1>1 DEF Inv, PhaseOK, FileOK
<1>3. << >> \in Dirs /\ << >> \in Paths
  BY KindAssumption DEF Dirs
<1>4. /\ StackOK(calls') /\ (calls' = << >> \/ Len(calls') = 1)
      /\ calls' # << >> => calls'[1].dir = << >> /\ (~calls'[1].ok => << >> \in hit')
      /\ calls' = << >> => << >> \in hit'
      /\ hit' = hit \/ (hit' = hit \union {<< >>} /\ (calls' = << >> \/ ~calls'[1].ok))
      /\ TargetOK'
      /\ \A f \in Files : << >> \in Above(f) => Pending(calls', f) \/ \E x \in Above(f) : x \in hit'
  <2>1. PICK d, s : d = << >> /\ s = << >>
    OBVIOUS
  <2>2. /\ d \in Dirs /\ StackOK(s) /\ Call(d, s) /\ Len(d) = Len(s) /\ Len(s) = 0 /\ Len(s) + 1 = 1
        /\ \A i \in 1..Len(s) : \A p \in s[i].left : ~Over(p, d)
    BY <1>1, <1>3, <2>1, EmptyStack
  <2>3. /\ StackOK(calls') /\ (calls' = s \/ Len(calls') = Len(s) + 1)
        /\ calls' # s => calls'[Len(s) + 1].dir = d /\ (~calls'[Len(s) + 1].ok => d \in hit')
        /\ calls' = s => d \in hit'
        /\ hit' = hit \/ (hit' = hit \union {d} /\ (calls' = s \/ ~calls'[Len(s) + 1].ok))
        /\ TargetOK'
        /\ \A f \in Files : d \in Above(f) => Pending(calls', f) \/ \E x \in Above(f) : x \in hit'
    BY <1>2, <2>2, CallFacts
  <2>4. QED
    BY <2>1, <2>2, <2>3
<1>5. PhaseOK'
  BY <1>1, <1>4 DEF PhaseOK
<1>6. FileOK'
  BY <1>1, <1>2 DEF FileOK
<1>7. CopiedOK'
  BY <1>1, <1>2 DEF CopiedOK, IsSource
<1>8. HitOK'
  BY <1>1, <1>2, <1>4 DEF HitOK
<1>9. CoverOK'
  <2>1. \A f \in Files : << >> \in Above(f)
    <3> SUFFICES ASSUME NEW f \in Files PROVE << >> \in Above(f)
      OBVIOUS
    <3>1. f \in Paths /\ f \in Seq(Names) /\ f # << >>
      BY <1>3, FilesFinite, PathsAssumption
    <3>2. SubSeq(f, 1, 0) = << >> /\ 0 \in 0..(Len(f) - 1)
      BY <3>1
    <3>3. QED
      BY <3>2 DEF Above
  <2>2. QED
    BY <1>1, <1>4, <2>1 DEF CoverOK, Lost
<1>10. BarOK'
  <2>1. Cardinality(Ahead') \in Nat /\ Cardinality(Ahead') <= Cardinality(Files) /\ Cardinality(Files) \in Nat
    BY FilesFinite DEF Ahead
  <2>2. (hit = {} => count = Cardinality(copied))'
    BY <1>1, <1>2, FS_EmptySet
  <2>3. max' \in Nat /\ (result # "none" /\ ~unread => max = Cardinality(Files))'
    BY <1>1 DEF Inv, BarOK
  <2>4. count' = 0
    BY <1>1, <1>2
  <2>5. QED
    BY <2>1, <2>2, <2>3, <2>4 DEF BarOK
<1>11. QED
  BY <1>4, <1>5, <1>6, <1>7, <1>8, <1>9, <1>10 DEF Inv

LEMMA ReadsFacts ==
  ASSUME Inv, Reads
  PROVE  /\ calls # << >> /\ file = NoFile /\ result = "running" /\ opened = FALSE /\ offset = 0
         /\ StackOK(calls) /\ Len(calls) \in Nat /\ Len(calls) \in 1..Len(calls)
         /\ Current = calls[Len(calls)] /\ Current.dir \in Dirs /\ Current.left \subseteq Paths
         /\ Current.ok \in BOOLEAN
BY StackType DEF Inv, Reads, PhaseOK, FileOK, Current

\* What the last call has not read yet is pending.
LEMMA LeftIsPending ==
  ASSUME Inv, Reads, NEW e \in Current.left
  PROVE  Pending(calls, e)
BY ReadsFacts DEF Pending, Over

LEMMA TakeFacts ==
  ASSUME Inv, Reads, NEW e \in Current.left, NEW t
  PROVE  t = Without(e) =>
           /\ StackOK(t) /\ Len(t) = Len(calls) /\ t # << >>
           /\ \A i \in 1..Len(calls) : t[i].dir = calls[i].dir /\ t[i].ok = calls[i].ok
           /\ \A f \in Paths : Pending(t, f) <=> Pending(calls, f) /\ ~Over(e, f)
           /\ \A i \in 1..Len(calls) : \A p \in t[i].left : ~Over(p, e)
           /\ e \in Entries(Current.dir)
<1>1. StackOK(calls) /\ calls # << >> /\ e \in calls[Len(calls)].left /\ Len(calls) > 0
  BY ReadsFacts
<1>2. t = [calls EXCEPT ![Len(calls)].left = @ \ {e}] =>
        /\ StackOK(t) /\ Len(t) = Len(calls)
        /\ \A i \in 1..Len(calls) : t[i].dir = calls[i].dir /\ t[i].ok = calls[i].ok
        /\ \A f \in Paths : Pending(t, f) <=> Pending(calls, f) /\ ~Over(e, f)
        /\ \A i \in 1..Len(calls) : \A p \in t[i].left : ~Over(p, e)
        /\ e \in Entries(calls[Len(calls)].dir)
  BY <1>1, TakeStack, Zenon
<1>3. StackOK(t) /\ Len(t) = Len(calls) => t # << >>
  BY <1>1
<1>4. QED
  BY <1>2, <1>3, Zenon DEF Without, Current

LEMMA EntryFileStep == Inv /\ EntryFile => Inv'
<1> SUFFICES ASSUME Inv, EntryFile PROVE Inv'
  OBVIOUS
<1>1. PICK e \in Current.left \intersect Files : file' = e /\ calls' = Without(e)
  BY Zenon DEF EntryFile
<1>2. /\ Reads /\ Current.ok /\ opened' = FALSE /\ offset' = 0
      /\ target' = target /\ max' = max /\ count' = count /\ result' = result
      /\ unread' = unread /\ hit' = hit /\ passed' = passed
      /\ copied' = copied /\ cut' = cut
  BY DEF EntryFile, ghosts
<1>3. e \in Current.left /\ e \in Files /\ e \in Paths /\ e # NoFile /\ e \notin Dirs
  BY FilesFinite
<1>4. Pending(calls, e)
  BY <1>2, LeftIsPending
<1>5. /\ StackOK(calls') /\ Len(calls') = Len(calls) /\ calls' # << >>
      /\ \A i \in 1..Len(calls) : calls'[i].dir = calls[i].dir /\ calls'[i].ok = calls[i].ok
      /\ \A f \in Paths : Pending(calls', f) <=> Pending(calls, f) /\ ~Over(e, f)
      /\ e \in Entries(Current.dir)
  <2>1. calls' = Without(e)
    BY <1>1
  <2>2. QED
    BY <1>2, <1>3, <2>1, TakeFacts, Zenon
<1> HIDE <1>1
<1>6. file' = e
  BY <1>1, Zenon
<1>7. TargetOK'
  BY <1>2 DEF Inv, TargetOK
<1>8. PhaseOK'
  BY <1>2, <1>5, ReadsFacts DEF Inv, PhaseOK
<1>9. FileOK'
  <2>1. Current'.ok /\ Current'.dir = Current.dir
    BY <1>2, <1>5, ReadsFacts DEF Current
  <2>2. Parent(e) = Current.dir
    BY <1>2, <1>5, ReadsFacts, DirsArePaths, EntryFacts
  <2>3. ~Pending(calls', e)
    BY <1>3, <1>5 DEF Over
  <2>4. e \notin copied
    BY <1>4 DEF Inv, CopiedOK, IsSource
  <2>5. QED
    BY <1>2, <1>3, <1>5, <1>6, <2>1, <2>2, <2>3, <2>4 DEF FileOK
<1>10. CopiedOK'
  BY <1>2, <1>5, FilesFinite DEF Inv, CopiedOK, IsSource
<1>11. HitOK'
  BY <1>2, <1>5, ReadsFacts DEF Inv, HitOK
<1>12. CoverOK'
  <2>1. \A f \in Files : Over(e, f) => f = e
    BY <1>3, OverIsPrefix, FilesFinite
  <2>2. QED
    BY <1>2, <1>5, <1>6, <2>1, ReadsFacts, FilesFinite DEF Inv, CoverOK, Lost
<1>13. BarOK'
  <2>1. Ahead' \subseteq Ahead
    BY <1>4, <1>5, <1>6, FilesFinite DEF Ahead
  <2>2. QED
    BY <1>2, <2>1, AheadShrinks DEF Inv
<1>14. QED
  BY <1>5, <1>7, <1>8, <1>9, <1>10, <1>11, <1>12, <1>13 DEF Inv

LEMMA EntryLinkStep == Inv /\ EntryLink => Inv'
<1> SUFFICES ASSUME Inv, EntryLink PROVE Inv'
  OBVIOUS
<1>1. PICK e \in Current.left \ (Files \union Dirs) : calls' = Without(e)
  BY Zenon DEF EntryLink
<1>2. /\ Reads /\ opened' = opened /\ offset' = offset /\ file' = file
      /\ target' = target /\ max' = max /\ count' = count /\ result' = result
      /\ unread' = unread /\ hit' = hit /\ passed' = passed
      /\ copied' = copied /\ cut' = cut
  BY DEF EntryLink, ghosts, fileVars
<1>3. e \in Current.left /\ e \notin Files /\ e \notin Dirs
  OBVIOUS
<1>4. /\ StackOK(calls') /\ Len(calls') = Len(calls) /\ calls' # << >>
      /\ \A i \in 1..Len(calls) : calls'[i].dir = calls[i].dir /\ calls'[i].ok = calls[i].ok
      /\ \A f \in Paths : Pending(calls', f) <=> Pending(calls, f) /\ ~Over(e, f)
  <2>1. calls' = Without(e)
    BY <1>1
  <2>2. QED
    BY <1>2, <1>3, <2>1, TakeFacts, Zenon
<1> HIDE <1>1
<1>5. TargetOK'
  BY <1>2 DEF Inv, TargetOK
<1>6. PhaseOK'
  BY <1>2, <1>4, ReadsFacts DEF Inv, PhaseOK
<1>7. FileOK'
  BY <1>2, ReadsFacts DEF FileOK
<1>8. CopiedOK'
  BY <1>2, <1>4, FilesFinite DEF Inv, CopiedOK, IsSource
<1>9. HitOK'
  BY <1>2, <1>4, ReadsFacts DEF Inv, HitOK
<1>10. CoverOK'
  <2>1. \A f \in Files : ~Over(e, f)
    BY <1>3, OverIsPrefix, FilesFinite
  <2>2. QED
    BY <1>2, <1>4, <2>1, ReadsFacts, FilesFinite DEF Inv, CoverOK, Lost
<1>11. BarOK'
  <2>1. Ahead' \subseteq Ahead
    BY <1>2, <1>4, FilesFinite DEF Ahead
  <2>2. QED
    BY <1>2, <2>1, AheadShrinks DEF Inv
<1>12. QED
  BY <1>4, <1>5, <1>6, <1>7, <1>8, <1>9, <1>10, <1>11 DEF Inv

LEMMA EntryPassedStep == Inv /\ EntryPassed => Inv'
<1> SUFFICES ASSUME Inv, EntryPassed PROVE Inv'
  OBVIOUS
<1>1. PICK e \in Current.left \intersect (Files \union Dirs) : calls' = Without(e) /\ passed' = passed \union {e}
  BY Zenon DEF EntryPassed
<1>2. /\ Reads /\ opened' = opened /\ offset' = offset /\ file' = file
      /\ target' = target /\ max' = max /\ count' = count /\ result' = result
      /\ unread' = unread /\ hit' = hit /\ copied' = copied /\ cut' = cut
  BY DEF EntryPassed, fileVars
<1>3. e \in Current.left
  OBVIOUS
<1>4. /\ StackOK(calls') /\ Len(calls') = Len(calls) /\ calls' # << >>
      /\ \A i \in 1..Len(calls) : calls'[i].dir = calls[i].dir /\ calls'[i].ok = calls[i].ok
      /\ \A f \in Paths : Pending(calls', f) <=> Pending(calls, f) /\ ~Over(e, f)
  <2>1. calls' = Without(e)
    BY <1>1
  <2>2. QED
    BY <1>2, <1>3, <2>1, TakeFacts, Zenon
<1>5. passed' = passed \union {e}
  BY <1>1
<1> HIDE <1>1
<1>6. TargetOK'
  BY <1>2 DEF Inv, TargetOK
<1>7. PhaseOK'
  BY <1>2, <1>4, ReadsFacts DEF Inv, PhaseOK
<1>8. FileOK'
  BY <1>2, ReadsFacts DEF FileOK
<1>9. CopiedOK'
  BY <1>2, <1>4, FilesFinite DEF Inv, CopiedOK, IsSource
<1>10. HitOK'
  BY <1>2, <1>4, ReadsFacts DEF Inv, HitOK
<1>11. CoverOK'
  BY <1>2, <1>4, <1>5, ReadsFacts, FilesFinite DEF Inv, CoverOK, Lost, Over
<1>12. BarOK'
  <2>1. Ahead' \subseteq Ahead
    BY <1>2, <1>4, FilesFinite DEF Ahead
  <2>2. QED
    BY <1>2, <2>1, AheadShrinks DEF Inv
<1>13. QED
  BY <1>4, <1>6, <1>7, <1>8, <1>9, <1>10, <1>11, <1>12 DEF Inv

LEMMA ReadFailsStep == Inv /\ ReadFails => Inv'
<1> SUFFICES ASSUME Inv, ReadFails PROVE Inv'
  OBVIOUS
<1>1. /\ Reads /\ opened' = opened /\ offset' = offset /\ file' = file
      /\ target' = target /\ max' = max /\ count' = count /\ result' = result
      /\ unread' = unread /\ hit' = hit /\ copied' = copied /\ cut' = cut
      /\ passed' = passed \union Current.left
  BY DEF ReadFails, fileVars
<1>2. /\ StackOK(calls') /\ Len(calls') = Len(calls) /\ calls' # << >>
      /\ \A i \in 1..Len(calls) : calls'[i].dir = calls[i].dir /\ calls'[i].ok = calls[i].ok
      /\ \A f \in Paths : /\ Pending(calls', f) => Pending(calls, f)
                          /\ Pending(calls, f) => Pending(calls', f) \/ \E e \in Current.left : Over(e, f)
  <2>1. StackOK(calls) /\ calls # << >> /\ Current = calls[Len(calls)] /\ Len(calls) \in 1..Len(calls)
    BY <1>1, ReadsFacts
  <2>2. calls' = [calls EXCEPT ![Len(calls)].left = {}]
    BY DEF ReadFails
  <2>3. ClearedStack(calls, calls')
    BY <2>1, <2>2, ClearStack, Zenon
  <2>4. Len(calls') = Len(calls) => calls' # << >>
    BY <2>1
  <2>5. QED
    BY <2>1, <2>3, <2>4, Zenon DEF ClearedStack
<1>3. TargetOK'
  BY <1>1 DEF Inv, TargetOK
<1>4. PhaseOK'
  BY <1>1, <1>2, ReadsFacts DEF Inv, PhaseOK
<1>5. FileOK'
  BY <1>1, ReadsFacts DEF FileOK
<1>6. CopiedOK'
  BY <1>1, <1>2, FilesFinite DEF Inv, CopiedOK, IsSource
<1>7. HitOK'
  BY <1>1, <1>2, ReadsFacts DEF Inv, HitOK
<1>8. CoverOK'
  BY <1>1, <1>2, ReadsFacts, FilesFinite DEF Inv, CoverOK, Lost, Over
<1>9. BarOK'
  <2>1. Ahead' \subseteq Ahead
    BY <1>1, <1>2, FilesFinite DEF Ahead
  <2>2. QED
    BY <1>1, <2>1, AheadShrinks DEF Inv
<1>10. QED
  BY <1>2, <1>3, <1>4, <1>5, <1>6, <1>7, <1>8, <1>9 DEF Inv

LEMMA EntryDirStep == Inv /\ EntryDir => Inv'
<1> SUFFICES ASSUME Inv, EntryDir PROVE Inv'
  OBVIOUS
<1>1. PICK e \in Current.left \intersect Dirs : Call(e, Without(e))
  BY Zenon DEF EntryDir
<1>2. /\ Reads /\ opened' = opened /\ offset' = offset /\ file' = file
      /\ max' = max /\ count' = count /\ result' = result
      /\ unread' = unread /\ copied' = copied /\ passed' = passed /\ cut' = cut
  BY DEF EntryDir, fileVars
<1>3. e \in Current.left /\ e \in Dirs /\ e \in Paths /\ e \notin Files
  BY DirsArePaths, FilesFinite
<1>4. PICK t : t = Without(e) /\ Call(e, t)
  BY <1>1, Zenon
<1>5. /\ StackOK(t) /\ Len(t) = Len(calls) /\ t # << >>
      /\ \A i \in 1..Len(calls) : t[i].dir = calls[i].dir /\ t[i].ok = calls[i].ok
      /\ \A f \in Paths : Pending(t, f) <=> Pending(calls, f) /\ ~Over(e, f)
      /\ \A i \in 1..Len(calls) : \A p \in t[i].left : ~Over(p, e)
      /\ e \in Entries(Current.dir)
  BY <1>2, <1>3, <1>4, TakeFacts, Zenon
<1>6. Call(e, t)
  BY <1>4, Zenon
<1> HIDE <1>1, <1>4
<1>7. Len(e) = Len(t) /\ e # << >>
  <2>1. Len(Current.dir) = Len(calls) - 1
    BY <1>2, ReadsFacts, StackType
  <2>2. QED
    BY <1>2, <1>5, <2>1, ReadsFacts, DirsArePaths, EntryFacts
<1>8. /\ StackOK(calls') /\ (calls' = t \/ Len(calls') = Len(t) + 1)
      /\ \A i \in 1..Len(t) : calls'[i] = t[i]
      /\ calls' # t => calls'[Len(t) + 1].dir = e /\ (~calls'[Len(t) + 1].ok => e \in hit')
      /\ hit' = hit \/ (hit' = hit \union {e} /\ (calls' = t \/ ~calls'[Len(t) + 1].ok))
      /\ TargetOK'
      /\ \A f \in Files : target'[f] = target[f]
      /\ \A f \in Paths : Pending(calls', f) => Pending(t, f) \/ Over(e, f)
      /\ \A f \in Files : Pending(t, f) => Pending(calls', f)
      /\ \A f \in Files : e \in Above(f) => Pending(calls', f) \/ \E x \in Above(f) : x \in hit'
  <2>1. TargetOK /\ \A i \in 1..Len(t) : \A p \in t[i].left : ~Over(p, e)
    BY <1>5 DEF Inv
  <2>2. QED
    BY <1>3, <1>5, <1>6, <1>7, <2>1, CallFacts
<1>9. \A f \in Paths : Over(e, f) => Pending(calls, f)
  <2>1. calls # << >> /\ e \in calls[Len(calls)].left /\ Len(calls) \in 1..Len(calls)
    BY <1>2, <1>3, ReadsFacts
  <2>2. QED
    BY <2>1 DEF Pending
<1>10. /\ calls' # << >> /\ Len(calls) \in Nat /\ Len(calls) > 0
       /\ hit \subseteq hit' /\ (<< >> \in hit' => << >> \in hit)
  <2>1. Len(calls) \in Nat /\ Len(calls) > 0
    BY <1>2, ReadsFacts
  <2>2. Len(calls') > 0
    BY <1>5, <1>8, <2>1
  <2>3. hit \subseteq hit' /\ (<< >> \in hit' => << >> \in hit)
    BY <1>7, <1>8
  <2>4. QED
    BY <2>1, <2>2, <2>3
<1>11. PhaseOK'
  BY <1>2, <1>10, ReadsFacts DEF Inv, PhaseOK
<1>12. FileOK'
  BY <1>2, ReadsFacts DEF FileOK
<1>13. CopiedOK'
  BY <1>2, <1>5, <1>8, <1>9, FilesFinite DEF Inv, CopiedOK, IsSource
<1>14. HitOK'
  <2>1. ASSUME NEW i \in 1..Len(calls'), ~calls'[i].ok PROVE calls'[i].dir \in hit'
    <3>1. CASE i \in 1..Len(t)
      BY <1>5, <1>8, <1>10, <2>1, <3>1 DEF Inv, HitOK
    <3>2. CASE i \notin 1..Len(t)
      <4>1. calls' # t /\ i = Len(t) + 1
        BY <1>5, <1>8, <1>10, <3>2
      <4>2. QED
        BY <1>8, <2>1, <4>1
    <3>3. QED
      BY <3>1, <3>2
  <2>2. << >> \in hit' => ~calls'[1].ok
    <3>1. << >> \in hit' => ~calls[1].ok
      BY <1>2, <1>10, ReadsFacts DEF Inv, HitOK
    <3>2. 1 \in 1..Len(calls) /\ 1 \in 1..Len(t)
      BY <1>5, <1>10
    <3>3. calls'[1].ok = calls[1].ok
      BY <1>5, <1>8, <3>2
    <3>4. QED
      BY <3>1, <3>3
  <2>3. result' # "failed"
    BY <1>2, ReadsFacts
  <2>4. QED
    BY <1>10, <2>1, <2>2, <2>3 DEF HitOK
<1>15. CoverOK'
  <2>1. ASSUME NEW f \in Files
        PROVE  f \in copied' \/ f = file' \/ Pending(calls', f) \/ Lost(f)'
    <3>1. f \in copied \/ f = file \/ Pending(calls, f) \/ Lost(f)
      BY <1>2, ReadsFacts DEF Inv, CoverOK, Lost
    <3>2. CASE Pending(calls, f)
      <4>1. f \in Paths
        BY FilesFinite
      <4>2. CASE Over(e, f)
        BY <1>3, <1>8, <4>2 DEF Over, Lost
      <4>3. CASE ~Over(e, f)
        BY <1>5, <1>8, <3>2, <4>1, <4>3
      <4>4. QED
        BY <4>2, <4>3
    <3>3. QED
      BY <1>2, <1>10, <3>1, <3>2 DEF Lost
  <2>2. QED
    BY <2>1 DEF CoverOK, Lost
<1>16. BarOK'
  <2>1. Ahead' \subseteq Ahead
    BY <1>2, <1>5, <1>8, <1>9, FilesFinite DEF Ahead
  <2>2. hit' = {} => hit = {}
    BY <1>10
  <2>3. QED
    BY <1>2, <2>1, <2>2, AheadShrinks DEF Inv
<1>17. QED
  BY <1>8, <1>11, <1>12, <1>13, <1>14, <1>15, <1>16 DEF Inv

LEMMA ReturnStep == Inv /\ Return => Inv'
<1> SUFFICES ASSUME Inv, Return PROVE Inv'
  OBVIOUS
<1>1. /\ Reads /\ (~Current.ok \/ Current.left = {})
      /\ calls' = SubSeq(calls, 1, Len(calls) - 1)
      /\ result' = IF Len(calls) > 1 THEN result ELSE IF Current.ok THEN "ok" ELSE "failed"
      /\ opened' = opened /\ offset' = offset /\ file' = file
      /\ target' = target /\ max' = max /\ count' = count
      /\ unread' = unread /\ hit' = hit /\ passed' = passed
      /\ copied' = copied /\ cut' = cut
  BY DEF Return, ghosts, fileVars
<1> DEFINE n == Len(calls)
<1>2. /\ StackOK(calls') /\ Len(calls') = n - 1 /\ (calls' = << >> <=> n = 1)
      /\ \A i \in 1..Len(calls') : calls'[i] = calls[i]
      /\ \A f \in Paths : Pending(calls, f) <=> Pending(calls', f) \/ \E e \in calls[n].left : Over(e, f)
  <2>1. StackOK(calls) /\ calls # << >>
    BY <1>1, ReadsFacts
  <2>2. PICK t : t = calls' /\ t = SubSeq(calls, 1, Len(calls) - 1)
    BY <1>1
  <2>3. /\ StackOK(t) /\ Len(t) = n - 1 /\ (t = << >> <=> n = 1)
        /\ \A i \in 1..Len(t) : t[i] = calls[i]
        /\ \A f \in Paths : Pending(calls, f) <=> Pending(t, f) \/ \E e \in calls[n].left : Over(e, f)
    <3>1. /\ StackOK(t) /\ Len(t) = n - 1
          /\ \A i \in 1..Len(t) : t[i] = calls[i]
          /\ \A f \in Paths : Pending(calls, f) <=> Pending(t, f) \/ \E e \in calls[n].left : Over(e, f)
      BY <2>1, <2>2, PopStack, Zenon
    <3>2. n \in Nat /\ Len(t) \in Nat /\ (t # << >> <=> Len(t) > 0)
      BY <2>1, <3>1, StackType
    <3>3. t = << >> <=> n = 1
      BY <3>1, <3>2
    <3>4. QED
      BY <3>1, <3>3
  <2>4. QED
    BY <2>2, <2>3, Zenon
<1>3. n \in Nat /\ n \in 1..n /\ Current = calls[n] /\ (calls' = << >> <=> n = 1) /\ \A i \in 1..Len(calls') : i \in 1..n
  BY <1>1, <1>2, ReadsFacts
<1>4. TargetOK'
  BY <1>1 DEF Inv, TargetOK
<1>5. PhaseOK'
  BY <1>1, <1>3, ReadsFacts DEF Inv, PhaseOK
<1>6. FileOK'
  BY <1>1, ReadsFacts DEF FileOK
<1>7. CopiedOK'
  BY <1>1, <1>2, FilesFinite DEF Inv, CopiedOK, IsSource
<1>8. ~Current.ok => Current.dir \in hit
  BY <1>3 DEF Inv, HitOK
<1>9. HitOK'
  <2>1. \A i \in 1..Len(calls') : ~calls'[i].ok => calls'[i].dir \in hit'
    BY <1>1, <1>2, <1>3 DEF Inv, HitOK
  <2>2. << >> \in hit => ~calls[1].ok
    BY <1>1, ReadsFacts DEF Inv, HitOK
  <2>3. CASE n = 1
    <3>1. calls' = << >> /\ Current = calls[1] /\ result' = IF Current.ok THEN "ok" ELSE "failed"
      BY <1>1, <1>3, <2>3
    <3>2. QED
      BY <1>1, <1>8, <2>1, <2>2, <3>1 DEF HitOK
  <2>4. CASE n # 1
    <3>1. calls' # << >> /\ result' = result /\ calls'[1] = calls[1]
      BY <1>1, <1>2, <1>3, <2>4
    <3>2. QED
      BY <1>1, <2>1, <2>2, <3>1, ReadsFacts DEF HitOK
  <2>5. QED
    BY <2>3, <2>4
<1>10. CoverOK'
  <2> SUFFICES ASSUME NEW f \in Files
               PROVE  f \in copied \/ f = file \/ Pending(calls', f) \/ Lost(f)
    BY <1>1 DEF CoverOK, Lost
  <2>1. f \in copied \/ f = file \/ Pending(calls, f) \/ Lost(f)
    BY <1>1, ReadsFacts DEF Inv, CoverOK, Lost
  <2>2. ASSUME NEW e \in calls[n].left, Over(e, f) PROVE Current.dir \in Above(f) /\ Current.dir \in hit
    <3>1. Current.dir \in hit
      BY <1>1, <1>3, <1>8
    <3>2. Current.dir \in Above(e)
      BY <1>1, <1>3, ReadsFacts, LeftFacts
    <3>3. Over(Current.dir, f) /\ Current.dir \in Dirs
      BY <2>2, <3>2, FilesFinite, OverTrans, <1>1, ReadsFacts DEF Over
    <3>4. QED
      BY <3>1, <3>3, FilesFinite DEF Over
  <2>3. QED
    BY <1>2, <2>1, <2>2, FilesFinite DEF Lost
<1>11. BarOK'
  <2>1. Ahead' \subseteq Ahead
    BY <1>1, <1>2, FilesFinite DEF Ahead
  <2>2. QED
    BY <1>1, <2>1, AheadShrinks, ReadsFacts DEF Inv
<1>12. QED
  BY <1>2, <1>4, <1>5, <1>6, <1>7, <1>9, <1>10, <1>11 DEF Inv

\* The state while a file is being copied.
LEMMA CopyFacts ==
  ASSUME Inv, Copies
  PROVE  /\ file \in Files /\ file \in Paths /\ file \notin copied /\ Size[file] \in Nat
         /\ ~Pending(calls, file) /\ calls # << >> /\ Current.ok /\ Parent(file) = Current.dir
         /\ result = "running" /\ StackOK(calls) /\ Len(calls) \in Nat /\ Len(calls) \in 1..Len(calls)
         /\ offset \in Nat /\ (opened => offset <= Size[file] /\ target[file] = New(offset))
BY FilesFinite, SizeType, StackType DEF Inv, FileOK, PhaseOK, Copies

\* util_fileCopy returns, and its result is noted in the call.
LEMMA DoneStep ==
  ASSUME Inv, Copies, NEW ok \in BOOLEAN, Done(ok),
         TargetOK', \A f \in Files \ {file} : target'[f] = target[f],
         cut \subseteq cut', cut' \subseteq cut \union {file},
         ok => \E n \in 0..Size[file] : target'[file] = New(n) /\ (file \notin cut' => n = Size[file]),
         result' = result, max' = max, unread' = unread, passed' = passed
  PROVE  Inv'
<1>1. /\ calls' = [calls EXCEPT ![Len(calls)].ok = ok]
      /\ file' = NoFile /\ offset' = 0 /\ opened' = FALSE /\ count' = count + 1
      /\ copied' = IF ok THEN copied \union {file} ELSE copied
      /\ hit' = IF ok THEN hit ELSE hit \union {Parent(file)}
  BY Zenon DEF Done
<1> DEFINE n == Len(calls)
<1>2. /\ StackOK(calls') /\ Len(calls') = n /\ calls'[n].ok = ok
      /\ \A i \in 1..n : calls'[i].dir = calls[i].dir /\ (i # n => calls'[i].ok = calls[i].ok)
      /\ \A f \in Paths : Pending(calls', f) <=> Pending(calls, f)
  <2>1. StackOK(calls) /\ calls # << >>
    BY CopyFacts
  <2>2. calls' = [calls EXCEPT ![Len(calls)].ok = ok] => MarkedStack(calls, calls', ok)
    BY <2>1, MarkStack, Zenon
  <2>3. MarkedStack(calls, calls', ok)
    BY <1>1, <2>2, Zenon
  <2>4. QED
    BY <2>3, Zenon DEF MarkedStack
<1>3. /\ file' = NoFile /\ offset' = 0 /\ opened' = FALSE /\ count' = count + 1
      /\ copied' = IF ok THEN copied \union {file} ELSE copied
      /\ hit' = IF ok THEN hit ELSE hit \union {Parent(file)}
  BY <1>1, Zenon
<1> HIDE <1>1
<1>4. n \in Nat /\ n \in 1..n /\ calls' # << >> /\ Parent(file) = calls[n].dir /\ calls[n].ok
  BY <1>2, CopyFacts, StackType DEF Current
<1>5. PhaseOK'
  BY <1>4, CopyFacts DEF Inv, PhaseOK
<1>6. FileOK'
  BY <1>3 DEF FileOK
<1>7. CopiedOK'
  <2>1. \A f \in copied : IsSource(f)' /\ ~Pending(calls', f)
    <3> SUFFICES ASSUME NEW f \in copied PROVE IsSource(f)' /\ ~Pending(calls', f)
      OBVIOUS
    <3>1. IsSource(f) /\ ~Pending(calls, f) /\ f \in Files /\ f # file
      BY CopyFacts DEF Inv, CopiedOK
    <3>2. target'[f] = target[f] /\ (f \in cut <=> f \in cut')
      BY <3>1
    <3>3. QED
      BY <1>2, <3>1, <3>2, FilesFinite DEF IsSource
  <2>2. PICK f : f = file
    OBVIOUS
  <2>3. ok => IsSource(f)' /\ ~Pending(calls', f)
    <3>1. ok => IsSource(f)'
      BY <2>2 DEF IsSource
    <3>2. ~Pending(calls', f)
      BY <1>2, <2>2, CopyFacts, FilesFinite
    <3>3. QED
      BY <3>1, <3>2
  <2>4. QED
    BY <1>3, <2>1, <2>2, <2>3, CopyFacts DEF Inv, CopiedOK
<1>8. HitOK'
  <2>1. \A i \in 1..n : ~calls'[i].ok => calls'[i].dir \in hit'
    BY <1>2, <1>3, <1>4 DEF Inv, HitOK
  <2>2. << >> \in hit => ~calls[1].ok /\ n # 1
    BY <1>4, CopyFacts DEF Inv, HitOK
  <2>3. << >> \in hit' => ~calls'[1].ok
    <3>1. CASE << >> \in hit
      BY <1>2, <1>4, <2>2, <3>1
    <3>2. CASE << >> \notin hit
      <4> SUFFICES ASSUME << >> \in hit' PROVE ~calls'[1].ok
        OBVIOUS
      <4>1. ~ok /\ calls[n].dir = << >>
        BY <1>3, <1>4, <3>2
      <4>2. n = 1
        BY <1>4, <4>1, CopyFacts, StackType
      <4>3. QED
        BY <1>2, <4>1, <4>2
    <3>3. QED
      BY <3>1, <3>2
  <2>4. result' # "failed"
    BY CopyFacts
  <2>5. QED
    BY <1>2, <1>4, <2>1, <2>3, <2>4 DEF HitOK
<1>9. Parent(file) \in Above(file)
  <2>1. file \in Seq(Names) /\ Len(calls[n].dir) = n - 1 /\ calls[n].dir \in Dirs
    BY <1>4, CopyFacts, PathsAssumption, StackType
  <2>2. file # << >>
    BY CopyFacts, KindAssumption DEF Files
  <2>3. Len(file) - 1 \in 0..(Len(file) - 1)
    BY <2>1, <2>2
  <2>4. QED
    BY <2>3 DEF Parent, Above
<1>10. CoverOK'
  <2> SUFFICES ASSUME NEW f \in Files
               PROVE  f \in copied' \/ f = file' \/ Pending(calls', f) \/ Lost(f)'
    BY DEF CoverOK, Lost
  <2>1. f \in copied \/ f = file \/ Pending(calls, f) \/ Lost(f)
    BY CopyFacts DEF Inv, CoverOK, Lost
  <2>2. copied \subseteq copied' /\ hit \subseteq hit' /\ (file \in copied' \/ Parent(file) \in hit')
    BY <1>3
  <2>3. QED
    BY <1>2, <1>9, <2>1, <2>2, FilesFinite DEF Lost
<1>11. BarOK'
  <2>1. Ahead' = Ahead \ {file} /\ file \in Ahead
    BY <1>2, <1>3, CopyFacts, FilesFinite DEF Ahead
  <2>2. IsFiniteSet(Ahead) /\ Cardinality(Ahead) \in Nat /\ Cardinality(Ahead) # 0
    BY <2>1, FilesFinite, FS_EmptySet DEF Ahead
  <2>3. Cardinality(Ahead') = Cardinality(Ahead) - 1
    BY <2>1, <2>2, FS_RemoveElement
  <2>4. /\ count \in Nat /\ count + Cardinality(Ahead) <= Cardinality(Files) /\ Cardinality(Files) \in Nat
    BY FilesFinite DEF Inv, BarOK
  <2>5. count' \in Nat /\ count' + Cardinality(Ahead') <= Cardinality(Files)
    BY <1>3, <2>2, <2>3, <2>4
  <2>6. IsFiniteSet(copied) /\ Cardinality(copied) \in Nat
    BY FilesFinite DEF Inv, CopiedOK, IsSource
  <2>7. Cardinality(copied \union {file}) = Cardinality(copied) + 1
    BY <2>6, CopyFacts, FS_AddElement
  <2>8. hit' = {} => count' = Cardinality(copied')
    BY <1>3, <2>7 DEF Inv, BarOK
  <2>9. max' \in Nat /\ (result # "none" /\ ~unread => max = Cardinality(Files))'
    BY DEF Inv, BarOK
  <2>10. QED
    BY <2>5, <2>8, <2>9 DEF BarOK
<1>12. QED
  BY <1>2, <1>5, <1>6, <1>7, <1>8, <1>10, <1>11 DEF Inv

\* The copy of the file goes on, or starts again.
LEMMA StillStep ==
  ASSUME Inv, Copies, file' = file, calls' = calls, copied' = copied, hit' = hit, count' = count,
         result' \in {result, "hangs"}, max' = max, unread' = unread, passed' = passed, cut' = cut,
         TargetOK', \A f \in Files \ {file} : target'[f] = target[f],
         opened' \in BOOLEAN, offset' \in Nat, ~opened' => offset' = 0,
         opened' => offset' <= Size[file] /\ target'[file] = New(offset')
  PROVE  Inv'
<1>1. PhaseOK' /\ HitOK' /\ CoverOK'
  BY CopyFacts DEF Inv, PhaseOK, HitOK, CoverOK, Lost, Copies
<1>2. FileOK'
  BY CopyFacts DEF FileOK, Current, Copies
<1>3. CopiedOK'
  <2>1. file \notin copied
    BY CopyFacts
  <2>2. QED
    BY <2>1 DEF Inv, CopiedOK, IsSource
<1>4. BarOK'
  <2>1. Ahead' \subseteq Ahead
    BY DEF Ahead
  <2>2. QED
    BY <2>1, AheadShrinks, CopyFacts DEF Inv
<1>5. QED
  BY <1>1, <1>2, <1>3, <1>4 DEF Inv

LEMMA TargetSet ==
  ASSUME TargetOK, NEW p \in Paths, NEW v, target' = target \/ target' = [target EXCEPT ![p] = v]
  PROVE  TargetOK' /\ (\A f \in Files \ {p} : target'[f] = target[f])
BY FilesFinite DEF TargetOK

LEMMA GiveUpStep ==
  ASSUME Inv, Copies, GiveUp, TargetOK', \A f \in Files \ {file} : target'[f] = target[f],
         result' = result, max' = max, unread' = unread, passed' = passed
  PROVE  Inv'
<1>1. CASE how = "fallback"
  <2>1. Done(FALSE) /\ cut' = cut
    BY <1>1 DEF GiveUp
  <2>2. QED
    BY <2>1, DoneStep
<1>2. CASE how # "fallback"
  <2>1. /\ file' = file /\ calls' = calls /\ copied' = copied /\ hit' = hit /\ count' = count
        /\ opened' = FALSE /\ offset' = 0 /\ cut' = cut
    BY <1>2 DEF GiveUp
  <2>2. QED
    BY <2>1, StillStep
<1>3. QED
  BY <1>1, <1>2

LEMMA OpenStep == Inv /\ Open => Inv'
<1> SUFFICES ASSUME Inv, Open PROVE Inv'
  OBVIOUS
<1>1. Copies /\ ~opened /\ result' = result /\ max' = max /\ unread' = unread /\ passed' = passed
  BY DEF Open
<1>2. TargetOK /\ offset = 0
  BY <1>1 DEF Inv, FileOK
<1>3. CASE /\ Works /\ target' = [target EXCEPT ![file] = Truncated] /\ opened' = TRUE
           /\ UNCHANGED << calls, file, how, offset, count, copied, hit, cut >>
  <2>1. TargetOK' /\ \A f \in Files \ {file} : target'[f] = target[f]
    BY <1>1, <1>2, <1>3, CopyFacts, TargetSet
  <2>2. target'[file] = << >>
    BY <1>1, <1>2, <1>3, CopyFacts DEF TargetOK, Truncated
  <2>3. New(0) = << >>
    BY DEF New
  <2>4. QED
    BY <1>1, <1>2, <1>3, <2>1, <2>2, <2>3, CopyFacts, StillStep
<1>4. CASE /\ Fails /\ target' \in {target, [target EXCEPT ![file] = Truncated]} /\ GiveUp
  <2>1. TargetOK' /\ \A f \in Files \ {file} : target'[f] = target[f]
    BY <1>1, <1>2, <1>4, CopyFacts, TargetSet
  <2>2. QED
    BY <1>1, <1>4, <2>1, GiveUpStep
<1>5. CASE target' = [target EXCEPT ![file] = Truncated] /\ TakeAsWhole
  <2>1. TargetOK' /\ \A f \in Files \ {file} : target'[f] = target[f]
    BY <1>1, <1>2, <1>5, CopyFacts, TargetSet
  <2>2. target'[file] = << >>
    BY <1>1, <1>2, <1>5, CopyFacts DEF TargetOK, Truncated
  <2>3. New(0) = << >>
    BY DEF New
  <2>4. 0 \in 0..Size[file]
    BY <1>1, CopyFacts
  <2>5. QED
    BY <1>1, <1>5, <2>1, <2>2, <2>3, <2>4, DoneStep DEF TakeAsWhole
<1>6. QED
  BY <1>3, <1>4, <1>5 DEF Open

\* What is written goes on where the copy is.
LEMMA WrittenNew ==
  ASSUME Inv, opened, NEW n \in Nat
  PROVE  Written(n) = New(offset + n)
<1>1. offset \in Nat /\ target[file] = New(offset)
  BY DEF Inv, FileOK
<1>2. Len(target[file]) = offset
  BY <1>1 DEF New
<1>3. \A i \in 1..offset : target[file][i] = "new"
  BY <1>1 DEF New
<1> DEFINE old == target[file]
<1>4. (IF offset + n > Len(old) THEN offset + n ELSE Len(old)) = offset + n
  BY <1>1, <1>2
<1>5. \A i \in 1..(offset + n) :
        (IF i \in (offset + 1)..(offset + n) THEN "new" ELSE IF i <= Len(old) THEN old[i] ELSE "hole") = "new"
  BY <1>1, <1>2, <1>3
<1>6. Written(n) = [i \in 1..(offset + n) |->
        IF i \in (offset + 1)..(offset + n) THEN "new" ELSE IF i <= Len(old) THEN old[i] ELSE "hole"]
  BY <1>4 DEF Written
<1> HIDE DEF old
<1>7. QED
  BY <1>5, <1>6 DEF New

LEMMA TransferStep == Inv /\ Transfer => Inv'
<1> SUFFICES ASSUME Inv, Transfer PROVE Inv'
  OBVIOUS
<1>1. opened /\ Copies /\ result' = result /\ max' = max /\ unread' = unread /\ passed' = passed /\ TargetOK
  BY DEF Transfer, Inv
<1>2. ASSUME NEW n \in 1..(Size[file] - offset),
             target' = [target EXCEPT ![file] = Written(n)], offset' = offset + n,
             UNCHANGED << calls, file, how, opened, count, copied, hit, cut >>
      PROVE  Inv'
  <2>1. TargetOK' /\ \A f \in Files \ {file} : target'[f] = target[f]
    BY <1>1, <1>2, CopyFacts, TargetSet
  <2>2. n \in Nat /\ offset' \in Nat /\ offset' <= Size[file]
    BY <1>1, <1>2, CopyFacts
  <2>3. target'[file] = New(offset')
    BY <1>1, <1>2, <2>2, CopyFacts, WrittenNew DEF TargetOK
  <2>4. QED
    BY <1>1, <1>2, <2>1, <2>2, <2>3, StillStep
<1>3. ASSUME NEW n, target' = [target EXCEPT ![file] = Written(n)], GiveUp
      PROVE  Inv'
  <2>1. TargetOK' /\ \A f \in Files \ {file} : target'[f] = target[f]
    BY <1>1, <1>3, CopyFacts, TargetSet
  <2>2. QED
    BY <1>1, <1>3, <2>1, GiveUpStep
<1>4. QED
  BY <1>2, <1>3 DEF Transfer

LEMMA EndsEarlyStep == Inv /\ EndsEarly => Inv'
<1> SUFFICES ASSUME Inv, EndsEarly PROVE Inv'
  OBVIOUS
<1>1. /\ opened /\ Copies /\ target' = target /\ max' = max /\ unread' = unread /\ passed' = passed
      /\ TargetOK /\ target[file] = New(offset) /\ offset \in 0..Size[file]
  BY CopyFacts DEF EndsEarly, Inv
<1>2. CASE TakeAsWhole /\ result' = result
  <2>1. TargetOK' /\ target'[file] = New(offset)
    BY <1>1 DEF TargetOK
  <2>2. QED
    BY <1>1, <1>2, <2>1, DoneStep DEF TakeAsWhole
<1>3. CASE result' = "hangs" /\ UNCHANGED << calls, fileVars, count, copied, hit, cut >>
  <2>1. TargetOK' /\ offset' = offset /\ opened' = opened /\ file' = file
    BY <1>1, <1>3 DEF TargetOK, fileVars
  <2>2. QED
    BY <1>1, <1>3, <2>1, StillStep
<1>4. QED
  BY <1>2, <1>3 DEF EndsEarly

LEMMA FileEndStep == Inv /\ FileEnd => Inv'
<1> SUFFICES ASSUME Inv, FileEnd PROVE Inv'
  OBVIOUS
<1>1. /\ opened /\ offset = Size[file] /\ Done(TRUE) /\ target' = target
      /\ max' = max /\ result' = result /\ unread' = unread /\ Copies /\ passed' = passed /\ cut' = cut
  BY DEF FileEnd
<1>2. TargetOK' /\ target'[file] = New(Size[file]) /\ Size[file] \in 0..Size[file]
  BY <1>1, CopyFacts DEF Inv, TargetOK
<1>3. QED
  BY <1>1, <1>2, DoneStep

LEMMA StutterStep == Inv /\ UNCHANGED vars => Inv'
<1> SUFFICES ASSUME Inv, UNCHANGED vars PROVE Inv'
  OBVIOUS
<1>1. /\ target' = target /\ calls' = calls /\ file' = file /\ opened' = opened /\ offset' = offset
      /\ max' = max /\ count' = count /\ result' = result /\ unread' = unread /\ hit' = hit /\ passed' = passed
      /\ copied' = copied /\ cut' = cut
  BY DEF vars, fileVars, ghosts
<1>2. TargetOK' /\ StackOK(calls') /\ PhaseOK' /\ HitOK' /\ CopiedOK' /\ CoverOK'
  BY <1>1 DEF Inv, TargetOK, PhaseOK, HitOK, CopiedOK, IsSource, CoverOK, Lost
<1>3. FileOK'
  BY <1>1 DEF Inv, FileOK, Current
<1>4. BarOK'
  BY <1>1, AheadShrinks DEF Inv, Ahead
<1>5. QED
  BY <1>2, <1>3, <1>4 DEF Inv

LEMMA NextInv == Inv /\ [Next]_vars => Inv'
BY StartStep, CallTopStep, EntryFileStep, EntryDirStep, EntryLinkStep, EntryPassedStep, ReadFailsStep,
   ReturnStep, OpenStep, TransferStep, EndsEarlyStep, FileEndStep, StutterStep DEF Next, Stop

LEMMA SpecInv == Spec => []Inv
BY InitInv, NextInv, PTL DEF Spec

-----------------------------------------------------------------------------
LEMMA InvCopied == Inv => CopiedIsSource
BY DEF Inv, CopiedOK, IsSource, CopiedIsSource

LEMMA InvLocal == Inv => FailureIsLocal
<1> SUFFICES ASSUME Inv, result = "ok"
             PROVE  /\ << >> \notin hit
                    /\ \A f \in Files : \/ target[f] = Whole(f) \/ f \in cut \union passed
                                        \/ \E d \in Above(f) : d \in hit \union passed
  BY DEF FailureIsLocal
<1>1. calls = << >> /\ file = NoFile
  BY DEF Inv, PhaseOK, FileOK
<1>2. << >> \notin hit
  BY <1>1 DEF Inv, HitOK
<1>3. \A f \in Files : f \in copied \/ Lost(f)
  BY <1>1, EmptyStack, FilesFinite DEF Inv, CoverOK
<1>4. \A f \in copied : target[f] = Whole(f) \/ f \in cut
  BY DEF Inv, CopiedOK, IsSource, Whole
<1>5. QED
  BY <1>2, <1>3, <1>4 DEF Lost

LEMMA InvBar == Inv => BarFits
<1> SUFFICES ASSUME Inv, ~unread
             PROVE  /\ count <= max
                    /\ result \in {"ok", "failed"} /\ hit = {} /\ passed = {} => count = max
  BY DEF BarFits
<1>1. count \in Nat /\ Cardinality(Files) \in Nat /\ Cardinality(Ahead) \in Nat
      /\ count + Cardinality(Ahead) <= Cardinality(Files)
  BY FilesFinite DEF Inv, BarOK, Ahead
<1>2. CASE result = "none"
  <2>1. count = 0
    BY <1>2 DEF Inv, PhaseOK
  <2>2. QED
    BY <1>2, <2>1 DEF Inv, BarOK
<1>3. CASE result # "none"
  <2>1. max = Cardinality(Files)
    BY <1>3 DEF Inv, BarOK
  <2>2. ASSUME result \in {"ok", "failed"}, hit = {}, passed = {} PROVE count = max
    <3>1. result = "ok" /\ calls = << >> /\ file = NoFile
      BY <2>2 DEF Inv, HitOK, PhaseOK, FileOK
    <3>2. copied = Files
      BY <2>2, <3>1, EmptyStack, FilesFinite DEF Inv, CoverOK, Lost, CopiedOK, IsSource
    <3>3. QED
      BY <2>1, <2>2, <3>2 DEF Inv, BarOK
  <2>3. QED
    BY <1>1, <2>1, <2>2
<1>4. QED
  BY <1>2, <1>3

\* CopiedIsSource for every tree and every number of failures: what util_fileCopy
\* reports as copied is the source's file, also after its second attempt, and only
\* a source that gave no size or ended early is not copied whole.
THEOREM SpecCopiedIsSource == Spec => []CopiedIsSource
BY SpecInv, InvCopied, PTL

\* FailureIsLocal for every tree: when qi_copyFileTree reports success, what is
\* missing was passed over, or is in or below a directory that was, or is below a
\* directory in which a call failed, and that is not the top.
THEOREM SpecFailureIsLocal == Spec => []FailureIsLocal
BY SpecInv, InvLocal, PTL

\* BarFits for every tree: util_getFileCountRecursive counts what the copy will
\* add to the bar, over links, empty and unreadable directories.
THEOREM SpecBarFits == Spec => []BarFits
BY SpecInv, InvBar, PTL
=============================================================================
