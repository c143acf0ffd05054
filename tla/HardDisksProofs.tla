-------------------------- MODULE HardDisksProofs --------------------------
(***************************************************************************)
(* Theorems about HardDisks for every output of lsblk, of any length, and  *)
(* every set of addresses.                                                 *)
(***************************************************************************)
EXTENDS HardDisks, TLAPS, SequenceTheorems

\* s is a list, whatever it holds.
List(s) == s \in Seq({s[i] : i \in DOMAIN s})

\* What ParentsCurrent needs: there is a list of pointers for each disk, and
\* currentDisk is the last of the array as it is now.
ParentsInv ==
  /\ List(disks) /\ List(parents)
  /\ Len(parents) = Len(disks)
  /\ \A d \in 1..Len(parents) : List(parents[d])
  /\ current = NULL \/ (Len(disks) > 0 /\ current = Pointer(arr, Len(disks)))
  /\ ParentsCurrent

\* A list that gets one element more.
LEMMA ListAppend ==
  ASSUME NEW s, List(s), NEW e
  PROVE  /\ List(Append(s, e))
         /\ Len(s) \in Nat /\ Len(Append(s, e)) = Len(s) + 1
         /\ DOMAIN s = 1..Len(s)
         /\ DOMAIN Append(s, e) = 1..(Len(s) + 1)
         /\ \A i \in 1..Len(s) : Append(s, e)[i] = s[i]
         /\ Append(s, e)[Len(s) + 1] = e
  <1> DEFINE S == {s[i] : i \in DOMAIN s} \union {e}
             t == Append(s, e)
  <1>1. s \in Seq(S) /\ e \in S
    BY DEF List
  <1>2. /\ t \in Seq(S) /\ Len(t) = Len(s) + 1
        /\ \A i \in 1..Len(s) : t[i] = s[i]
        /\ t[Len(s) + 1] = e
    BY <1>1, AppendProperties
  <1>3. Len(s) \in Nat /\ DOMAIN s = 1..Len(s) /\ DOMAIN t = 1..(Len(s) + 1)
    BY <1>1, <1>2
  <1>4. t \in Seq({t[i] : i \in DOMAIN t})
    BY <1>2, <1>3
  <1>5. QED
    BY <1>2, <1>3, <1>4 DEF List

LEMMA ListDomain ==
  ASSUME NEW s, List(s)
  PROVE  Len(s) \in Nat /\ DOMAIN s = 1..Len(s)
  BY DEF List

LEMMA ListOfNothing == List(<< >>) /\ Len(<< >>) = 0
  BY DEF List

\* A new array: the list of lists has a new address in every pointer, and an
\* empty list behind the last.
LEMMA ReparentedList ==
  ASSUME ParentsInv, NEW a
  PROVE  /\ List(Reparented(a)) /\ Len(Reparented(a)) = Len(parents)
         /\ \A d \in 1..Len(parents) :
              /\ List(Reparented(a)[d])
              /\ DOMAIN Reparented(a)[d] = DOMAIN parents[d]
              /\ \A p \in DOMAIN parents[d] : Reparented(a)[d][p] = Pointer(a, d)
  <1>1. Len(parents) \in Nat /\ DOMAIN parents = 1..Len(parents)
    BY ListDomain DEF ParentsInv
  <1>2. Reparented(a) = [d \in 1..Len(parents) |-> [p \in DOMAIN parents[d] |-> Pointer(a, d)]]
    BY <1>1 DEF Reparented
  <1>3. List(Reparented(a)) /\ Len(Reparented(a)) = Len(parents)
    BY <1>1, <1>2 DEF List
  <1>4. ASSUME NEW d \in 1..Len(parents)
        PROVE  /\ List(Reparented(a)[d])
               /\ DOMAIN Reparented(a)[d] = DOMAIN parents[d]
               /\ \A p \in DOMAIN parents[d] : Reparented(a)[d][p] = Pointer(a, d)
    <2>1. Len(parents[d]) \in Nat /\ DOMAIN parents[d] = 1..Len(parents[d])
      BY ListDomain DEF ParentsInv
    <2>2. Reparented(a)[d] = [p \in 1..Len(parents[d]) |-> Pointer(a, d)]
      BY <1>2, <2>1
    <2>3. List(Reparented(a)[d])
      BY <2>1, <2>2 DEF List
    <2>4. QED
      BY <2>1, <2>2, <2>3
  <1>5. QED
    BY <1>3, <1>4

LEMMA ParentsInit == Init => ParentsInv
  BY ListOfNothing DEF Init, ParentsInv, ParentsCurrent

\* realloc: the pointers of all disks follow, and the new disk has none.
LEMMA ParentsDisk == ParentsInv /\ DiskLine => ParentsInv'
  <1> SUFFICES ASSUME ParentsInv, DiskLine PROVE ParentsInv'
    OBVIOUS
  <1> DEFINE n == Len(disks)
             moved == Reparented(arr')
  <1>1. parents' = Append(moved, << >>) /\ current' = Pointer(arr', n + 1)
    BY DEF DiskLine, NewDisk
  <1>2. List(disks') /\ Len(disks') = n + 1 /\ n \in Nat
    BY ListAppend DEF ParentsInv, DiskLine
  <1>3. /\ List(moved) /\ Len(moved) = n
        /\ \A d \in 1..n : /\ List(moved[d])
                           /\ \A p \in DOMAIN moved[d] : moved[d][p] = Pointer(arr', d)
    BY ReparentedList DEF ParentsInv
  <1>4. /\ List(parents') /\ Len(parents') = n + 1
        /\ DOMAIN parents' = 1..(n + 1)
        /\ \A d \in 1..n : parents'[d] = moved[d]
        /\ parents'[n + 1] = << >>
    BY <1>1, <1>3, ListAppend
  <1>5. \A d \in 1..(n + 1) : List(parents'[d])
    BY <1>2, <1>3, <1>4, ListOfNothing
  <1>6. \A d \in DOMAIN parents' : \A p \in DOMAIN parents'[d] : parents'[d][p] = Pointer(arr', d)
    <2> SUFFICES ASSUME NEW d \in 1..(n + 1), NEW p \in DOMAIN parents'[d]
                 PROVE  parents'[d][p] = Pointer(arr', d)
      BY <1>4
    <2>1. CASE d \in 1..n
      BY <2>1, <1>3, <1>4
    <2>2. CASE d = n + 1
      BY <2>2, <1>4
    <2>3. QED
      BY <2>1, <2>2, <1>2
  <1>7. QED
    BY <1>1, <1>2, <1>4, <1>5, <1>6 DEF ParentsInv, ParentsCurrent, Pointer

\* A partition goes to the last disk, with the pointer to it.
LEMMA ParentsPartition == ParentsInv /\ PartitionLine => ParentsInv'
  <1> SUFFICES ASSUME ParentsInv, PartitionLine PROVE ParentsInv'
    OBVIOUS
  <1> DEFINE n == Len(disks)
  <1>1. /\ current # NULL /\ parents' = [parents EXCEPT ![current.disk] = Append(@, current)]
        /\ UNCHANGED << arr, disks, current >>
    BY DEF PartitionLine, Accepted
  <1>2. n \in Nat /\ n > 0 /\ current = Pointer(arr, n) /\ current.disk = n
    BY <1>1, ListDomain DEF ParentsInv, Pointer
  <1>3. DOMAIN parents = 1..n /\ List(parents[n])
    BY <1>2, ListDomain DEF ParentsInv
  <1>4. parents' = [d \in 1..n |-> IF d = n THEN Append(parents[n], current) ELSE parents[d]]
    BY <1>1, <1>2, <1>3
  <1>5. List(parents') /\ Len(parents') = n
    BY <1>2, <1>4 DEF List
  <1>6. \A d \in 1..n : List(parents'[d])
    BY <1>2, <1>3, <1>4, ListAppend DEF ParentsInv
  <1>7. \A d \in 1..n : \A p \in DOMAIN parents'[d] : parents'[d][p] = Pointer(arr, d)
    <2> SUFFICES ASSUME NEW d \in 1..n, NEW p \in DOMAIN parents'[d]
                 PROVE  parents'[d][p] = Pointer(arr, d)
      OBVIOUS
    <2>1. CASE d # n
      BY <2>1, <1>3, <1>4 DEF ParentsInv, ParentsCurrent
    <2>2. CASE d = n
      <3>1. /\ DOMAIN parents[n] = 1..Len(parents[n]) /\ Len(parents[n]) \in Nat
            /\ p \in 1..(Len(parents[n]) + 1)
            /\ \A i \in 1..Len(parents[n]) : parents'[n][i] = parents[n][i]
            /\ parents'[n][Len(parents[n]) + 1] = current
        BY <1>2, <1>3, <1>4, <2>2, ListAppend
      <3>2. QED
        BY <3>1, <2>2, <1>2, <1>3 DEF ParentsInv, ParentsCurrent
    <2>3. QED
      BY <2>1, <2>2
  <1>8. ParentsCurrent'
    BY <1>1, <1>2, <1>4, <1>7 DEF ParentsCurrent
  <1>9. QED
    BY <1>1, <1>2, <1>5, <1>6, <1>8 DEF ParentsInv

LEMMA ParentsStep == ParentsInv /\ [Next]_vars => ParentsInv'
  <1> SUFFICES ASSUME ParentsInv, [Next]_vars PROVE ParentsInv'
    OBVIOUS
  <1>1. CASE DiskLine
    BY <1>1, ParentsDisk
  <1>2. CASE PartitionLine
    BY <1>2, ParentsPartition
  <1>3. CASE UNCHANGED << arr, disks, parents, current >>
    BY <1>3 DEF ParentsInv, ParentsCurrent, Pointer
  <1>4. QED
    BY <1>1, <1>2, <1>3 DEF Next, vars, Abort, OtherLine, Finish, Stop

\* Every partition points to the disk it is listed under, wherever realloc
\* moves the array of disks and however long the output of lsblk is.
THEOREM ParentsSafe == Spec => []ParentsCurrent
  <1>1. ParentsInv => ParentsCurrent
    BY DEF ParentsInv
  <1>2. QED
    BY <1>1, ParentsInit, ParentsStep, PTL DEF Spec

-----------------------------------------------------------------------------
(***************************************************************************)
(* The values of a line, and the number at the end of a name.              *)
(***************************************************************************)
LEMMA Suffixes ==
  /\ \A a, b : IsSuffixOf(<<a>>, <<b>>) <=> a = b
  /\ \A a, b, c : ~IsSuffixOf(<<a, b>>, <<c>>)
  /\ \A a, b, c, e : IsSuffixOf(<<a, b>>, <<c, e>>) <=> a = c /\ b = e
  <1>1. ASSUME NEW a, NEW b PROVE IsSuffixOf(<<a>>, <<b>>) <=> a = b
    <2>1. Len(<<a>>) = 1 /\ Len(<<b>>) = 1 /\ <<b>> \in Seq({b})
      OBVIOUS
    <2>2. SubSeq(<<b>>, 1, 1) = <<b>>
      BY <2>1, SubSeqFull
    <2>3. Len(<<b>>) - Len(<<a>>) + 1 = 1
      BY <2>1
    <2>4. QED
      BY <2>1, <2>2, <2>3 DEF IsSuffixOf
  <1>2. ASSUME NEW a, NEW b, NEW c PROVE ~IsSuffixOf(<<a, b>>, <<c>>)
    BY DEF IsSuffixOf
  <1>3. ASSUME NEW a, NEW b, NEW c, NEW e PROVE IsSuffixOf(<<a, b>>, <<c, e>>) <=> a = c /\ b = e
    <2>1. Len(<<a, b>>) = 2 /\ Len(<<c, e>>) = 2 /\ <<c, e>> \in Seq({c, e})
      OBVIOUS
    <2>2. SubSeq(<<c, e>>, 1, 2) = <<c, e>>
      BY <2>1, SubSeqFull
    <2>3. Len(<<c, e>>) - Len(<<a, b>>) + 1 = 1
      BY <2>1
    <2>4. QED
      BY <2>1, <2>2, <2>3 DEF IsSuffixOf
  <1>4. QED
    BY <1>1, <1>2, <1>3

\* Which column is the first to end with a key.
LEMMA Found ==
  ASSUME NEW key, NEW n \in 1..5, IsSuffixOf(key, Columns[n]), \A m \in 1..(n - 1) : ~IsSuffixOf(key, Columns[m]), NEW l
  PROVE  Value(l, key) = l.cols[Columns[n]]
  <1> DEFINE Hit(k) == IsSuffixOf(key, Columns[k]) /\ \A m \in 1..(k - 1) : ~IsSuffixOf(key, Columns[m])
  <1>1. DOMAIN Columns = 1..5
    BY DEF Columns
  <1>2. \A k \in 1..5 : Hit(k) => k = n
    OBVIOUS
  <1>3. (CHOOSE k \in DOMAIN Columns : Hit(k)) = n
    BY <1>1, <1>2
  <1>4. QED
    BY <1>3 DEF Value

LEMMA Values ==
  ASSUME NEW l
  PROVE  /\ Value(l, <<"TYPE">>) = l.cols[<<"TYPE">>] /\ Value(l, <<"KNAME">>) = l.cols[<<"KNAME">>]
         /\ Value(l, <<"PART", "TYPE">>) = l.cols[<<"PART", "TYPE">>] /\ Value(l, <<"FS", "TYPE">>) = l.cols[<<"FS", "TYPE">>]
  <1>1. /\ Columns[1] = <<"TYPE">> /\ Columns[2] = <<"KNAME">> /\ Columns[3] = <<"PART", "TYPE">>
        /\ Columns[4] = <<"PT", "TYPE">> /\ Columns[5] = <<"FS", "TYPE">>
    BY DEF Columns
  <1>2. Value(l, <<"TYPE">>) = l.cols[Columns[1]]
    <2>1. IsSuffixOf(<<"TYPE">>, Columns[1])
      BY <1>1, Suffixes
    <2>2. QED
      BY <2>1, Found
  <1>3. Value(l, <<"KNAME">>) = l.cols[Columns[2]]
    <2>1. ~IsSuffixOf(<<"KNAME">>, Columns[1]) /\ IsSuffixOf(<<"KNAME">>, Columns[2])
      BY <1>1, Suffixes
    <2>2. \A m \in 1..(2 - 1) : ~IsSuffixOf(<<"KNAME">>, Columns[m])
      BY <2>1
    <2>3. QED
      BY <2>1, <2>2, Found
  <1>4. Value(l, <<"PART", "TYPE">>) = l.cols[Columns[3]]
    <2>1. /\ ~IsSuffixOf(<<"PART", "TYPE">>, Columns[1]) /\ ~IsSuffixOf(<<"PART", "TYPE">>, Columns[2])
          /\ IsSuffixOf(<<"PART", "TYPE">>, Columns[3])
      BY <1>1, Suffixes
    <2>2. \A m \in 1..(3 - 1) : ~IsSuffixOf(<<"PART", "TYPE">>, Columns[m])
      BY <2>1
    <2>3. QED
      BY <2>1, <2>2, Found
  <1>5. Value(l, <<"FS", "TYPE">>) = l.cols[Columns[5]]
    <2>1. /\ ~IsSuffixOf(<<"FS", "TYPE">>, Columns[1]) /\ ~IsSuffixOf(<<"FS", "TYPE">>, Columns[2])
          /\ ~IsSuffixOf(<<"FS", "TYPE">>, Columns[3]) /\ ~IsSuffixOf(<<"FS", "TYPE">>, Columns[4])
          /\ IsSuffixOf(<<"FS", "TYPE">>, Columns[5])
      BY <1>1, Suffixes
    <2>2. \A m \in 1..(5 - 1) : ~IsSuffixOf(<<"FS", "TYPE">>, Columns[m])
      BY <2>1
    <2>3. QED
      BY <2>1, <2>2, Found
  <1>6. QED
    BY <1>1, <1>2, <1>3, <1>4, <1>5

LEMMA PrefixIs ==
  ASSUME NEW s \in Seq(STRING), NEW t \in Seq(STRING)
  PROVE  IsPrefixOf(s, t) <=> Len(s) <= Len(t) /\ \A i \in 1..Len(s) : t[i] = s[i]
  <1>1. CASE Len(s) <= Len(t)
    <2>1. /\ SubSeq(t, 1, Len(s)) \in Seq(STRING) /\ Len(SubSeq(t, 1, Len(s))) = Len(s)
          /\ \A i \in 1..Len(s) : SubSeq(t, 1, Len(s))[i] = t[i]
      BY <1>1
    <2>2. (\A i \in 1..Len(s) : t[i] = s[i]) => SubSeq(t, 1, Len(s)) = s
      BY <2>1, SeqEqual
    <2>3. QED
      BY <1>1, <2>1, <2>2 DEF IsPrefixOf
  <1>2. CASE ~(Len(s) <= Len(t))
    BY <1>2 DEF IsPrefixOf
  <1>3. QED
    BY <1>1, <1>2

\* The number of a partition begins behind its disk's name and the "p".
LEMMA NumeralAt ==
  ASSUME NEW name \in Seq(STRING), NEW d \in Seq(STRING), d # << >>, PartNamed(name, d),
         NEW from, from = Len(d) + (IF EndsInDigit(d) THEN 2 ELSE 1)
  PROVE  Numeral(name) = from /\ from \in 1..Len(name) /\ from > Len(d)
  <1>1. Len(d) \in Nat /\ Len(d) > 0 /\ Len(name) \in Nat /\ from \in Nat /\ from > Len(d) /\ from > 1
    BY EmptySeq
  <1>2. IsPrefixOf(d, name) /\ IsNumeral(SubSeq(name, from, Len(name))) /\ (EndsInDigit(d) => name[Len(d) + 1] = "p")
    BY DEF PartNamed
  <1>3. from <= Len(name)
    <2>1. SubSeq(name, from, Len(name)) # << >>
      BY <1>2 DEF IsNumeral
    <2>2. from \in Int /\ Len(name) \in Int
      BY <1>1
    <2>3. ~(Len(name) < from)
      BY <2>1, <2>2, SubSeqEmpty, Zenon
    <2>4. QED
      BY <1>1, <2>3
  <1>4. name[from - 1] \notin DOMAIN Digit
    <2>1. CASE EndsInDigit(d)
      <3>1. from - 1 = Len(d) + 1
        BY <1>1, <2>1
      <3>2. "p" \notin DOMAIN Digit
        BY DEF Digit
      <3>3. QED
        BY <1>2, <2>1, <3>1, <3>2
    <2>2. CASE ~EndsInDigit(d)
      <3>1. from - 1 = Len(d) /\ name[Len(d)] = d[Len(d)]
        BY <1>1, <1>2, <2>2, PrefixIs
      <3>2. QED
        BY <2>2, <3>1 DEF EndsInDigit
    <2>3. QED
      BY <2>1, <2>2
  <1> DEFINE End(k) == SubSeq(name, k, Len(name))
             starts == {k \in 1..Len(name) : IsNumeral(End(k))}
  <1>5. ASSUME NEW k \in starts, k < from PROVE FALSE
    <2>1. k \in 1..Len(name) /\ IsNumeral(End(k)) /\ from - k \in 1..(Len(name) - k + 1)
      BY <1>1, <1>3, <1>5
    <2>2. DOMAIN End(k) = 1..(Len(name) - k + 1) /\ \A i \in 1..(Len(name) - k + 1) : End(k)[i] = name[k + i - 1]
      BY <1>1, <2>1
    <2>3. End(k)[from - k] = name[from - 1]
      <3>1. k + (from - k) - 1 = from - 1
        BY <1>1, <2>1
      <3>2. QED
        BY <2>1, <2>2, <3>1
    <2>4. QED
      BY <1>4, <2>1, <2>2, <2>3 DEF IsNumeral
  <1>6. from \in starts
    BY <1>1, <1>2, <1>3
  <1>7. \A j \in starts : from <= j
    BY <1>1, <1>5
  <1>8. (CHOOSE k \in starts : \A j \in starts : k <= j) = from
    BY <1>1, <1>6, <1>7
  <1>9. Numeral(name) = from
    BY <1>6, <1>8 DEF Numeral
  <1>10. QED
    BY <1>1, <1>3, <1>9

-----------------------------------------------------------------------------
(***************************************************************************)
(* The list is what lsblk printed.                                         *)
(***************************************************************************)
\* A partition in the list is that of a line that the disk in the list took:
\* its name begins with the disk's and the number lies behind it.
CameFrom(d, p) ==
  \E m \in 1..line :
    /\ parts[d][p].device = Named(output[m]) /\ parts[d][p].index = Index(Named(output[m]))
    /\ IsPrefixOf(disks[d].device, Named(output[m])) /\ HasIndex(Named(output[m]), disks[d].device)

\* What ListRight needs, in every state and not only at the end: the disks
\* listed are those of the lines handled, and in an output in order each has
\* the partitions of the lines handled.
ListInv ==
  /\ output \in Outputs /\ line \in 0..Len(output)
  /\ List(parts) /\ Len(parts) = Len(disks)
  /\ \A d \in 1..Len(disks) : List(parts[d])
  /\ current = NULL => Len(disks) = 0
  /\ DisksListed
  /\ \A d \in 1..Len(disks) : \A p \in 1..Len(parts[d]) : CameFrom(d, p)
  /\ InOrder => result # "aborted" /\ \A d \in 1..Len(disks) : PartsListed(d)
  /\ result = "listed" => line = Len(output)

\* One line of an output, and two.
LEMMA LineFacts ==
  ASSUME output \in Outputs, NEW n \in 1..Len(output)
  PROVE  /\ Named(output[n]) \in Seq(STRING) /\ output[n].on \in Seq(STRING) /\ output[n].on # << >>
         /\ IsPart(output[n]) => PartNamed(Named(output[n]), output[n].on)
         /\ ~IsPart(output[n]) => Named(output[n]) = output[n].on
         /\ IsDisk(output[n]) => ~IsPart(output[n])
  <1>1. n \in DOMAIN output
    BY OutputsAssumption DEF OutputsAssumption
  <1>2. QED
    BY <1>1, OutputsAssumption DEF OutputsAssumption, IsDisk, IsPart

LEMMA DiskNames ==
  ASSUME output \in Outputs, NEW m \in 1..Len(output), NEW n \in 1..Len(output), IsDisk(output[m])
  PROVE  /\ IsDisk(output[n]) /\ m # n => Named(output[m]) # Named(output[n])
         /\ EndsInDigit(output[n].on) => Named(output[m]) # Append(output[n].on, "p")
  <1>1. m \in DOMAIN output /\ n \in DOMAIN output
    BY OutputsAssumption DEF OutputsAssumption
  <1>2. QED
    BY <1>1, OutputsAssumption DEF OutputsAssumption

\* A numbering of lines goes on with a later line.
LEMMA RunsOn ==
  ASSUME NEW n \in Nat, NEW L \in SUBSET Nat, NEW f \in [1..n -> L], RunsThrough(f, L),
         NEW last \in Nat, \A x \in L : x < last,
         NEW g, g = [k \in 1..(n + 1) |-> IF k = n + 1 THEN last ELSE f[k]]
  PROVE  g \in [1..(n + 1) -> L \union {last}] /\ RunsThrough(g, L \union {last})
  <1>1. /\ DOMAIN f = 1..n /\ DOMAIN g = 1..(n + 1) /\ g[n + 1] = last
        /\ \A k \in 1..n : g[k] = f[k] /\ f[k] \in L
    OBVIOUS
  <1>2. g \in [1..(n + 1) -> L \union {last}]
    OBVIOUS
  <1>3. ASSUME NEW j \in 1..(n + 1), NEW k \in 1..(n + 1), j < k PROVE g[j] < g[k]
    <2>1. j \in 1..n
      BY <1>3
    <2>2. CASE k = n + 1
      BY <1>1, <2>1, <2>2
    <2>3. CASE k # n + 1
      <3>1. k \in 1..n
        BY <2>3
      <3>2. QED
        BY <1>1, <1>3, <2>1, <3>1 DEF RunsThrough
    <2>4. QED
      BY <2>2, <2>3
  <1>4. ASSUME NEW x \in L \union {last} PROVE \E k \in 1..(n + 1) : g[k] = x
    <2>1. CASE x \in L
      <3>1. PICK k \in 1..n : f[k] = x
        BY <1>1, <2>1 DEF RunsThrough
      <3>2. g[k] = x /\ k \in 1..(n + 1)
        BY <1>1, <3>1
      <3>3. QED
        BY <3>2
    <2>2. CASE x = last
      BY <1>1, <2>2
    <2>3. QED
      BY <2>1, <2>2
  <1>5. QED
    BY <1>1, <1>2, <1>3, <1>4 DEF RunsThrough

\* The numbering of the disks, one disk at a time.
LEMMA DiskOf ==
  ASSUME ListInv, NEW n, n = Len(disks), n \in Nat
  PROVE  \E f \in [1..n -> DiskLines] :
           /\ RunsThrough(f, DiskLines)
           /\ \A d \in 1..n : /\ f[d] \in 1..line /\ f[d] \in 1..Len(output) /\ IsDisk(output[f[d]])
                              /\ disks[d].device = Named(output[f[d]])
                              /\ disks[d].device \in Seq(STRING)
  <1>1. PICK f \in [1..n -> DiskLines] :
           RunsThrough(f, DiskLines) /\ \A d \in 1..n : disks[d].device = Named(output[f[d]])
    BY DEF ListInv, DisksListed
  <1>2. List(output)
    BY OutputsAssumption DEF OutputsAssumption, ListInv, List
  <1>3. Len(output) \in Nat
    BY <1>2, ListDomain
  <1>4. ASSUME NEW d \in 1..n
        PROVE  /\ f[d] \in 1..line /\ f[d] \in 1..Len(output) /\ IsDisk(output[f[d]])
               /\ disks[d].device \in Seq(STRING)
    <2>1. f[d] \in 1..line /\ IsDisk(output[f[d]])
      BY DEF DiskLines
    <2>2. f[d] \in 1..Len(output)
      BY <1>3, <2>1 DEF ListInv
    <2>3. QED
      BY <1>1, <2>1, <2>2, LineFacts DEF ListInv
  <1>5. QED
    BY <1>1, <1>4

\* No two disks in the list have one name.
LEMMA DisksDiffer ==
  ASSUME ListInv, Len(disks) \in Nat, NEW d \in 1..Len(disks), NEW e \in 1..Len(disks), d # e
  PROVE  disks[d].device # disks[e].device
  <1> DEFINE n == Len(disks)
  <1>1. PICK f \in [1..n -> DiskLines] :
          /\ RunsThrough(f, DiskLines)
          /\ \A i \in 1..n : /\ f[i] \in 1..Len(output) /\ IsDisk(output[f[i]])
                             /\ disks[i].device = Named(output[f[i]])
    BY DiskOf
  <1>2. f[d] # f[e]
    <2>1. f[d] \in Nat /\ f[e] \in Nat /\ (d < e => f[d] < f[e]) /\ (e < d => f[e] < f[d])
      BY <1>1 DEF RunsThrough
    <2>2. QED
      BY <2>1
  <1>3. f[d] \in 1..Len(output) /\ f[e] \in 1..Len(output) /\ IsDisk(output[f[d]]) /\ IsDisk(output[f[e]])
    BY <1>1
  <1>4. Named(output[f[d]]) # Named(output[f[e]])
    BY <1>2, <1>3, DiskNames DEF ListInv
  <1>5. QED
    BY <1>1, <1>4

\* In an output in order, a partition's line comes when its disk is the last
\* of the list, and the line is taken.
LEMMA LastDisk ==
  ASSUME ParentsInv, ListInv, InOrder, NEW n, n = Len(disks), n \in Nat,
         line + 1 \in 1..Len(output), IsPart(Line)
  PROVE  n > 0 /\ disks[n].device = Line.on
  <1>1. PICK f \in [1..n -> DiskLines] :
          /\ RunsThrough(f, DiskLines)
          /\ \A i \in 1..n : /\ f[i] \in 1..line /\ IsDisk(output[f[i]])
                             /\ disks[i].device = Named(output[f[i]])
    BY DiskOf
  <1>2. DOMAIN output = 1..Len(output) /\ line \in Nat
    BY OutputsAssumption DEF OutputsAssumption, ListInv
  <1>3. PICK m \in 1..((line + 1) - 1) :
          /\ IsDisk(output[m]) /\ Named(output[m]) = Line.on
          /\ \A k \in (m + 1)..(line + 1) : ~IsDisk(output[k])
    BY <1>2 DEF InOrder, Line
  <1>4. m \in DiskLines
    BY <1>2, <1>3 DEF DiskLines
  <1>5. PICK k \in 1..n : f[k] = m
    BY <1>1, <1>4 DEF RunsThrough
  <1>6. k = n
    <2> SUFFICES ASSUME k < n PROVE FALSE
      OBVIOUS
    <2>1. n \in 1..n /\ f[k] < f[n]
      BY <1>1 DEF RunsThrough
    <2>2. f[n] \in (m + 1)..(line + 1) /\ IsDisk(output[f[n]])
      BY <1>1, <1>2, <1>5, <2>1
    <2>3. QED
      BY <1>3, <2>2
  <1>7. QED
    BY <1>1, <1>3, <1>5, <1>6

LEMMA Taken ==
  ASSUME ParentsInv, ListInv, InOrder, line + 1 \in 1..Len(output), IsPart(Line)
  PROVE  Accepted(Named(Line))
  <1> DEFINE n == Len(disks)
             name == Named(Line)
             dev == disks[n].device
  <1>1. n \in Nat
    BY ListDomain DEF ParentsInv
  <1>2. n > 0 /\ dev = Line.on
    BY <1>1, LastDisk
  <1>3. current # NULL /\ current.disk = n
    BY <1>1, <1>2 DEF ListInv, ParentsInv, Pointer
  <1>4. name \in Seq(STRING) /\ dev \in Seq(STRING) /\ dev # << >> /\ PartNamed(name, dev)
    BY <1>2, LineFacts DEF ListInv, Line
  <1>5. IsPrefixOf(dev, name)
    BY <1>4 DEF PartNamed
  <1>6. HasIndex(name, dev)
    BY <1>4, NumeralAt DEF HasIndex
  <1>7. QED
    BY <1>3, <1>5, <1>6 DEF Accepted, Belongs

LEMMA ListInit == Init => ListInv
  <1> SUFFICES ASSUME Init PROVE ListInv
    OBVIOUS
  <1>1. List(output)
    BY OutputsAssumption DEF OutputsAssumption, Init, List
  <1>2. Len(output) \in Nat
    BY <1>1, ListDomain
  <1>3. /\ output \in Outputs /\ line = 0 /\ line \in 0..Len(output)
        /\ List(disks) /\ Len(disks) = 0 /\ List(parts) /\ Len(parts) = 0
    BY <1>2, ListOfNothing DEF Init
  <1>4. DisksListed
    <2>1. DiskLines = {}
      BY <1>3 DEF DiskLines
    <2> DEFINE f == [d \in 1..0 |-> 0]
    <2>2. f \in [1..Len(disks) -> DiskLines] /\ RunsThrough(f, DiskLines)
      BY <1>3, <2>1 DEF RunsThrough
    <2>3. \A d \in 1..Len(disks) : disks[d].device = Named(output[f[d]])
      BY <1>3
    <2>4. QED
      BY <2>2, <2>3 DEF DisksListed
  <1>5. \A d \in 1..Len(disks) : FALSE
    BY <1>3
  <1>6. result = "running"
    BY DEF Init
  <1>7. QED
    BY <1>3, <1>4, <1>5, <1>6 DEF ListInv

\* The next line, and what a step on it does to the lines handled.
LEMMA NextLine ==
  ASSUME ListInv, NEW t, TypeIs(t)
  PROVE  /\ line \in Nat /\ line + 1 \in 1..Len(output) /\ Len(output) \in Nat
         /\ Line.cols[<<"TYPE">>] = t
         /\ result = "running"
  <1>1. List(output)
    BY OutputsAssumption DEF OutputsAssumption, ListInv, List
  <1>2. Len(output) \in Nat
    BY <1>1, ListDomain
  <1>3. QED
    BY <1>2, Values DEF ListInv, TypeIs

LEMMA LinesOn ==
  ASSUME output' = output, line' = line + 1, line \in Nat
  PROVE  /\ DiskLines' = DiskLines \union (IF IsDisk(Line) THEN {line + 1} ELSE {})
         /\ \A d : disks'[d].device = disks[d].device =>
              OwnLines(d)' = OwnLines(d) \union (IF IsPart(Line) /\ Line.on = disks[d].device THEN {line + 1} ELSE {})
  <1>1. 1..(line + 1) = (1..line) \union {line + 1}
    OBVIOUS
  <1>2. DiskLines' = {n \in 1..(line + 1) : IsDisk(output[n])}
    BY DEF DiskLines
  <1>3. ASSUME NEW d, disks'[d].device = disks[d].device
        PROVE  OwnLines(d)' = {n \in 1..(line + 1) : IsPart(output[n]) /\ output[n].on = disks[d].device}
    BY <1>3 DEF OwnLines
  <1>4. ASSUME NEW d, disks'[d].device = disks[d].device
        PROVE  OwnLines(d)' = OwnLines(d) \union (IF IsPart(Line) /\ Line.on = disks[d].device THEN {line + 1} ELSE {})
    BY <1>1, <1>3, <1>4 DEF OwnLines, Line
  <1>5. DiskLines' = DiskLines \union (IF IsDisk(Line) THEN {line + 1} ELSE {})
    BY <1>1, <1>2 DEF DiskLines, Line
  <1>6. QED
    BY <1>4, <1>5

\* What is the same for a disk whose partitions are left alone.
LEMMA PartsKept ==
  ASSUME output' = output, NEW d, parts'[d] = parts[d], disks'[d].device = disks[d].device,
         line' = line + 1 \/ line' = line, line \in Nat
  PROVE  /\ OwnLines(d)' = OwnLines(d) => (PartsListed(d) => PartsListed(d)')
         /\ \A p : CameFrom(d, p) => CameFrom(d, p)'
  <1>1. (OwnLines(d)' = OwnLines(d)) => (PartsListed(d) => PartsListed(d)')
    BY DEF PartsListed
  <1>2. ASSUME NEW p, CameFrom(d, p) PROVE CameFrom(d, p)'
    <2>1. PICK m \in 1..line :
            /\ parts[d][p].device = Named(output[m]) /\ parts[d][p].index = Index(Named(output[m]))
            /\ IsPrefixOf(disks[d].device, Named(output[m])) /\ HasIndex(Named(output[m]), disks[d].device)
      BY <1>2 DEF CameFrom
    <2>2. m \in 1..line'
      OBVIOUS
    <2>3. QED
      BY <2>1, <2>2 DEF CameFrom
  <1>3. QED
    BY <1>1, <1>2

\* A disk: it is the next of the list, and none of the lines so far is of a
\* partition of it.
LEMMA ListDisk == ParentsInv /\ ListInv /\ DiskLine => ListInv'
  <1> SUFFICES ASSUME ParentsInv, ListInv, DiskLine PROVE ListInv'
    OBVIOUS
  <1>0. PICK n : n = Len(disks)
    OBVIOUS
  <1> DEFINE new == [device |-> Value(Line, <<"KNAME">>), table |-> Value(Line, <<"PT", "TYPE">>)]
  <1>1. /\ arr' \in Addresses /\ disks' = Append(disks, new) /\ parts' = Append(parts, << >>)
        /\ current' = Pointer(arr', n + 1) /\ line' = line + 1 /\ output' = output /\ result' = result
        /\ TypeIs("disk")
    BY <1>0 DEF DiskLine, NewDisk
  <1>2. /\ line \in Nat /\ line + 1 \in 1..Len(output) /\ Len(output) \in Nat /\ result = "running"
        /\ IsDisk(Line) /\ ~IsPart(Line)
    <2>1. /\ line \in Nat /\ line + 1 \in 1..Len(output) /\ Len(output) \in Nat /\ result = "running"
          /\ Line.cols[<<"TYPE">>] = "disk"
      BY <1>1, NextLine
    <2>2. QED
      BY <2>1 DEF IsDisk, IsPart
  <1>3. new.device = Named(Line)
    BY Values DEF Named
  <1>4. /\ n \in Nat /\ Len(disks') = n + 1 /\ \A d \in 1..n : disks'[d] = disks[d]
        /\ disks'[n + 1].device = Named(Line)
    BY <1>0, <1>1, <1>3, ListAppend DEF ParentsInv
  <1>5. /\ List(parts') /\ Len(parts') = n + 1 /\ \A d \in 1..n : parts'[d] = parts[d]
        /\ parts'[n + 1] = << >>
    BY <1>0, <1>1, ListAppend DEF ListInv
  <1>6. \A d \in 1..(n + 1) : List(parts'[d])
    BY <1>0, <1>4, <1>5, ListOfNothing DEF ListInv
  <1>7. current' # NULL
    <2>1. current' \in [arr : Addresses, disk : Nat]
      BY <1>1, <1>4 DEF Pointer
    <2>2. QED
      BY <2>1, AddressAssumption DEF AddressAssumption
  <1>8. DisksListed'
    <2>1. PICK f \in [1..n -> DiskLines] :
            /\ RunsThrough(f, DiskLines)
            /\ \A i \in 1..n : disks[i].device = Named(output[f[i]])
      BY <1>0, <1>4, DiskOf
    <2>2. DiskLines' = DiskLines \union {line + 1}
      BY <1>1, <1>2, LinesOn
    <2> DEFINE g == [k \in 1..(n + 1) |-> IF k = n + 1 THEN line + 1 ELSE f[k]]
    <2>3. DiskLines \in SUBSET Nat /\ \A x \in DiskLines : x < line + 1
      BY <1>2 DEF DiskLines
    <2>4. g \in [1..(n + 1) -> DiskLines'] /\ RunsThrough(g, DiskLines')
      <3> HIDE DEF g
      <3>1. g = [k \in 1..(n + 1) |-> IF k = n + 1 THEN line + 1 ELSE f[k]]
        BY DEF g
      <3>2. line + 1 \in Nat
        BY <1>2
      <3>3. QED
        BY <1>4, <2>1, <2>2, <2>3, <3>1, <3>2, RunsOn
    <2>5. ASSUME NEW d \in 1..(n + 1) PROVE disks'[d].device = Named(output[g[d]])
      <3>1. CASE d = n + 1
        BY <1>4, <3>1 DEF Line
      <3>2. CASE d # n + 1
        BY <1>4, <2>1, <3>2
      <3>3. QED
        BY <3>1, <3>2
    <2> HIDE DEF g
    <2>6. QED
      BY <1>1, <1>4, <2>4, <2>5 DEF DisksListed
  <1>9. ASSUME NEW d \in 1..(n + 1), NEW p \in 1..Len(parts'[d]) PROVE CameFrom(d, p)'
    <2>1. d \in 1..n
      BY <1>4, <1>5, <1>9, ListOfNothing
    <2>2. CameFrom(d, p)
      BY <1>0, <1>5, <2>1 DEF ListInv
    <2>3. QED
      BY <1>1, <1>2, <1>4, <1>5, <2>1, <2>2, PartsKept
  <1>10. ASSUME InOrder' PROVE result' # "aborted" /\ \A d \in 1..(n + 1) : PartsListed(d)'
    <2>1. InOrder
      BY <1>1, <1>10 DEF InOrder
    <2>2. result' # "aborted"
      BY <1>1, <1>2
    <2>3. ASSUME NEW d \in 1..n PROVE PartsListed(d)'
      <3>1. PartsListed(d)
        BY <1>0, <2>1 DEF ListInv
      <3>2. OwnLines(d)' = OwnLines(d)
        BY <1>1, <1>2, <1>4, LinesOn
      <3>3. QED
        BY <1>1, <1>2, <1>4, <1>5, <3>1, <3>2, PartsKept
    <2>4. PartsListed(n + 1)'
      <3>1. OwnLines(n + 1)' = {}
        <4> SUFFICES ASSUME NEW k \in OwnLines(n + 1)' PROVE FALSE
          OBVIOUS
        <4>1. k \in 1..(line + 1) /\ IsPart(output[k]) /\ output[k].on = Named(Line)
          BY <1>1, <1>4 DEF OwnLines
        <4>2. k \in DOMAIN output /\ k \in 1..line
          BY <1>2, <4>1, OutputsAssumption DEF OutputsAssumption, Line, ListInv
        <4>3. PICK m \in 1..(k - 1) : IsDisk(output[m]) /\ Named(output[m]) = output[k].on
          BY <2>1, <4>1, <4>2 DEF InOrder
        <4>4. m \in 1..Len(output) /\ m # line + 1
          BY <1>2, <4>2, <4>3
        <4>5. Named(output[m]) # Named(output[line + 1])
          BY <1>2, <4>3, <4>4, DiskNames DEF ListInv, Line
        <4>6. QED
          BY <4>1, <4>3, <4>5 DEF Line
      <3> DEFINE f == [k \in 1..0 |-> 0]
      <3>2. f \in [1..Len(parts'[n + 1]) -> OwnLines(n + 1)'] /\ RunsThrough(f, OwnLines(n + 1)')
        BY <1>5, <3>1, ListOfNothing DEF RunsThrough
      <3>3. \A p \in 1..Len(parts'[n + 1]) : FALSE
        BY <1>5, ListOfNothing
      <3> HIDE DEF f
      <3>4. QED
        BY <3>2, <3>3 DEF PartsListed
    <2>5. QED
      BY <1>4, <2>2, <2>3, <2>4
  <1>11. output' \in Outputs /\ line' \in 0..Len(output') /\ result' # "listed"
    BY <1>1, <1>2 DEF ListInv
  <1>12. QED
    BY <1>0, <1>4, <1>5, <1>6, <1>7, <1>8, <1>9, <1>10, <1>11 DEF ListInv

\* A partition: it goes to the last disk, whose lines it continues.
LEMMA ListPartition == ParentsInv /\ ListInv /\ PartitionLine => ListInv'
  <1> SUFFICES ASSUME ParentsInv, ListInv, PartitionLine PROVE ListInv'
    OBVIOUS
  <1>0. PICK n : n = Len(disks)
    OBVIOUS
  <1> DEFINE name == Named(Line)
             fs == FsOf(Line.cols[<<"PART", "TYPE">>], Line.cols[<<"FS", "TYPE">>])
             part == [device |-> name, index |-> Index(name), logical |-> Index(name) > 4, fs |-> fs]
             size == Len(parts[n])
  <1>1. /\ Accepted(name) /\ parts' = [parts EXCEPT ![current.disk] = Append(@, part)]
        /\ line' = line + 1 /\ output' = output /\ result' = result /\ disks' = disks /\ current' = current
        /\ TypeIs("part")
    <2>1. /\ Value(Line, <<"KNAME">>) = name /\ Value(Line, <<"PART", "TYPE">>) = Line.cols[<<"PART", "TYPE">>]
          /\ Value(Line, <<"FS", "TYPE">>) = Line.cols[<<"FS", "TYPE">>]
      BY Values DEF Named
    <2>2. QED
      BY <2>1 DEF PartitionLine
  <1>2. /\ line \in Nat /\ line + 1 \in 1..Len(output) /\ Len(output) \in Nat /\ result = "running"
        /\ IsPart(Line) /\ ~IsDisk(Line)
    <2>1. /\ line \in Nat /\ line + 1 \in 1..Len(output) /\ Len(output) \in Nat /\ result = "running"
          /\ Line.cols[<<"TYPE">>] = "part"
      BY <1>1, NextLine
    <2>2. QED
      BY <2>1 DEF IsDisk, IsPart
  <1>3. n \in Nat /\ n > 0 /\ n \in 1..n /\ current # NULL /\ current.disk = n
    <2>1. n \in Nat /\ current # NULL
      BY <1>0, <1>1, ListDomain DEF Accepted, ParentsInv
    <2>2. QED
      BY <1>0, <2>1 DEF ParentsInv, Pointer
  <1>4. IsPrefixOf(disks[n].device, name) /\ HasIndex(name, disks[n].device)
    BY <1>1, <1>3 DEF Accepted, Belongs
  <1>5. DOMAIN parts = 1..n /\ List(parts[n])
    BY <1>0, <1>3, ListDomain DEF ListInv
  <1>6. /\ size \in Nat
        /\ parts' = [d \in 1..n |-> IF d = n THEN Append(parts[n], part) ELSE parts[d]]
    BY <1>1, <1>3, <1>5, ListDomain
  <1>7. /\ \A d \in 1..n : d # n => parts'[d] = parts[d]
        /\ List(parts'[n]) /\ Len(parts'[n]) = size + 1
        /\ \A p \in 1..size : parts'[n][p] = parts[n][p]
        /\ parts'[n][size + 1] = part
    <2>1. parts'[n] = Append(parts[n], part)
      BY <1>3, <1>6
    <2>2. \A d \in 1..n : d # n => parts'[d] = parts[d]
      BY <1>6
    <2> HIDE DEF part
    <2>3. QED
      BY <1>5, <2>1, <2>2, ListAppend
  <1>8. List(parts') /\ Len(parts') = n
    <2> HIDE DEF part, size
    <2>1. parts' = [d \in 1..n |-> IF d = n THEN Append(parts[n], part) ELSE parts[d]]
      BY <1>6
    <2>2. QED
      BY <1>3, <2>1 DEF List
  <1>9. \A d \in 1..n : List(parts'[d])
    BY <1>0, <1>7 DEF ListInv
  <1>10. DisksListed'
    <2>1. DiskLines' = DiskLines
      BY <1>1, <1>2, LinesOn
    <2>2. QED
      BY <1>1, <2>1 DEF ListInv, DisksListed
  <1>11. ASSUME NEW d \in 1..n, NEW p \in 1..Len(parts'[d]) PROVE CameFrom(d, p)'
    <2>1. CASE d # n
      <3>1. CameFrom(d, p)
        BY <1>0, <1>7, <2>1 DEF ListInv
      <3>2. QED
        BY <1>1, <1>2, <1>7, <2>1, <3>1, PartsKept
    <2>2. CASE d = n /\ p = size + 1
      <3>1. line + 1 \in 1..line' /\ parts'[d][p].device = name /\ parts'[d][p].index = Index(name)
        BY <1>1, <1>2, <1>7, <2>2
      <3>2. QED
        BY <1>1, <1>4, <2>2, <3>1 DEF CameFrom, Line
    <2>3. CASE d = n /\ p # size + 1
      <3>1. p \in 1..size /\ parts'[d][p] = parts[d][p]
        BY <1>6, <1>7, <2>3
      <3>2. CameFrom(d, p)
        BY <1>0, <1>3, <2>3, <3>1 DEF ListInv
      <3>3. PICK m \in 1..line :
              /\ parts[d][p].device = Named(output[m]) /\ parts[d][p].index = Index(Named(output[m]))
              /\ IsPrefixOf(disks[d].device, Named(output[m])) /\ HasIndex(Named(output[m]), disks[d].device)
        BY <3>2 DEF CameFrom
      <3>4. m \in 1..line'
        BY <1>1, <1>2
      <3>5. QED
        BY <1>1, <3>1, <3>3, <3>4 DEF CameFrom
    <2>4. QED
      BY <2>1, <2>2, <2>3
  <1>12. ASSUME InOrder' PROVE result' # "aborted" /\ \A d \in 1..n : PartsListed(d)'
    <2>1. InOrder
      BY <1>1, <1>12 DEF InOrder
    <2>2. result' # "aborted"
      BY <1>1, <1>2
    <2>3. disks[n].device = Line.on
      BY <1>0, <1>2, <1>3, <2>1, LastDisk
    <2>4. ASSUME NEW d \in 1..n, d # n PROVE PartsListed(d)'
      <3>1. PartsListed(d)
        BY <1>0, <2>1 DEF ListInv
      <3>2. disks[d].device # Line.on
        BY <1>0, <1>3, <2>3, <2>4, DisksDiffer
      <3>3. OwnLines(d)' = OwnLines(d)
        BY <1>1, <1>2, <3>2, LinesOn
      <3>4. QED
        BY <1>1, <1>2, <1>7, <2>4, <3>1, <3>3, PartsKept
    <2>5. PartsListed(n)'
      <3>1. OwnLines(n)' = OwnLines(n) \union {line + 1}
        BY <1>1, <1>2, <2>3, LinesOn
      <3>2. PartsListed(n)
        BY <1>0, <1>3, <2>1 DEF ListInv
      <3>3. PICK f \in [1..size -> OwnLines(n)] :
              /\ RunsThrough(f, OwnLines(n))
              /\ \A p \in 1..size : /\ parts[n][p].device = Named(output[f[p]])
                                    /\ parts[n][p].fs = FsOf(output[f[p]].cols[<<"PART", "TYPE">>], output[f[p]].cols[<<"FS", "TYPE">>])
        BY <3>2 DEF PartsListed
      <3> DEFINE g == [k \in 1..(size + 1) |-> IF k = size + 1 THEN line + 1 ELSE f[k]]
      <3>4. OwnLines(n) \in SUBSET Nat /\ \A x \in OwnLines(n) : x < line + 1
        BY <1>2 DEF OwnLines
      <3>5. /\ g \in [1..Len(parts'[n]) -> OwnLines(n)'] /\ RunsThrough(g, OwnLines(n)')
        <4> HIDE DEF g
        <4>1. g = [k \in 1..(size + 1) |-> IF k = size + 1 THEN line + 1 ELSE f[k]]
          BY DEF g
        <4>2. line + 1 \in Nat
          BY <1>2
        <4>3. g \in [1..(size + 1) -> OwnLines(n) \union {line + 1}] /\ RunsThrough(g, OwnLines(n) \union {line + 1})
          BY <1>6, <3>3, <3>4, <4>1, <4>2, RunsOn
        <4>4. QED
          BY <1>7, <3>1, <4>3
      <3>6. ASSUME NEW p \in 1..(size + 1)
            PROVE  /\ parts'[n][p].device = Named(output[g[p]])
                   /\ parts'[n][p].fs = FsOf(output[g[p]].cols[<<"PART", "TYPE">>], output[g[p]].cols[<<"FS", "TYPE">>])
        <4>1. CASE p = size + 1
          <5>1. output[g[p]] = Line /\ parts'[n][p].device = name /\ parts'[n][p].fs = fs
            BY <1>7, <4>1 DEF Line
          <5>2. QED
            BY <5>1
        <4>2. CASE p # size + 1
          <5>1. p \in 1..size
            BY <1>6, <4>2
          <5>2. parts'[n][p] = parts[n][p]
            BY <1>7, <5>1
          <5>3. g[p] = f[p]
            BY <4>2
          <5>4. QED
            BY <3>3, <5>1, <5>2, <5>3
        <4>3. QED
          BY <4>1, <4>2
      <3> HIDE DEF g, part, size, fs, name
      <3>7. Len(parts'[n]) = size + 1 /\ output' = output
        BY <1>1, <1>7
      <3>8. \A p \in 1..Len(parts'[n]) : LET l == output'[g[p]] IN
              /\ parts'[n][p].device = Named(l)
              /\ parts'[n][p].fs = FsOf(l.cols[<<"PART", "TYPE">>], l.cols[<<"FS", "TYPE">>])
        BY <3>6, <3>7
      <3>9. QED
        BY <3>5, <3>8, Zenon DEF PartsListed
    <2>6. QED
      BY <2>2, <2>4, <2>5
  <1>13. output' \in Outputs /\ line' \in 0..Len(output') /\ result' # "listed" /\ current' # NULL
    BY <1>1, <1>2, <1>3 DEF ListInv
  <1>14. QED
    BY <1>0, <1>1, <1>8, <1>9, <1>10, <1>11, <1>12, <1>13 DEF ListInv

\* In order, no line ends the program; the other lines change nothing.
LEMMA ListAbort == ParentsInv /\ ListInv /\ Abort => ListInv'
  <1> SUFFICES ASSUME ParentsInv, ListInv, Abort PROVE ListInv'
    OBVIOUS
  <1>1. /\ TypeIs("part") /\ ~Accepted(Named(Line)) /\ result' = "aborted"
        /\ UNCHANGED << output, line, disks, parts, current >>
    <2>1. Value(Line, <<"KNAME">>) = Named(Line)
      BY Values DEF Named
    <2>2. QED
      BY <2>1 DEF Abort
  <1>2. line + 1 \in 1..Len(output) /\ IsPart(Line) /\ line \in Nat
    <2>1. line + 1 \in 1..Len(output) /\ Line.cols[<<"TYPE">>] = "part" /\ line \in Nat
      BY <1>1, NextLine
    <2>2. QED
      BY <2>1 DEF IsPart
  <1>3. ~InOrder
    BY <1>1, <1>2, Taken
  <1>4. ~InOrder'
    BY <1>1, <1>3 DEF InOrder
  <1>5. DisksListed'
    BY <1>1 DEF ListInv, DisksListed, DiskLines
  <1>6. \A d \in 1..Len(disks) : \A p \in 1..Len(parts[d]) : CameFrom(d, p)'
    BY <1>1 DEF ListInv, CameFrom
  <1>7. result' # "listed"
    BY <1>1
  <1>8. QED
    BY <1>1, <1>4, <1>5, <1>6, <1>7 DEF ListInv

LEMMA ListOther == ParentsInv /\ ListInv /\ OtherLine => ListInv'
  <1> SUFFICES ASSUME ParentsInv, ListInv, OtherLine PROVE ListInv'
    OBVIOUS
  <1>1. /\ line' = line + 1 /\ line < Len(output) /\ result = "running"
        /\ ~TypeIs("disk") /\ ~TypeIs("part")
        /\ UNCHANGED << output, disks, parts, current, result >>
    BY DEF OtherLine
  <1>2. List(output)
    BY OutputsAssumption DEF OutputsAssumption, ListInv, List
  <1>3. Len(output) \in Nat /\ line \in Nat /\ line' \in 0..Len(output)
    BY <1>1, <1>2, ListDomain DEF ListInv
  <1>4. ~IsDisk(Line) /\ ~IsPart(Line)
    BY <1>1, Values DEF TypeIs, IsDisk, IsPart
  <1>5. DisksListed'
    <2>1. DiskLines' = DiskLines
      BY <1>1, <1>3, <1>4, LinesOn
    <2>2. QED
      BY <1>1, <2>1 DEF ListInv, DisksListed
  <1>6. ASSUME NEW d \in 1..Len(disks), NEW p \in 1..Len(parts[d]) PROVE CameFrom(d, p)'
    <2>1. CameFrom(d, p)
      BY DEF ListInv
    <2>2. QED
      BY <1>1, <1>3, <2>1, PartsKept
  <1>7. ASSUME InOrder' PROVE result' # "aborted" /\ \A d \in 1..Len(disks) : PartsListed(d)'
    <2>1. InOrder
      BY <1>1, <1>7 DEF InOrder
    <2>2. ASSUME NEW d \in 1..Len(disks) PROVE PartsListed(d)'
      <3>1. PartsListed(d)
        BY <2>1 DEF ListInv
      <3>2. OwnLines(d)' = OwnLines(d)
        BY <1>1, <1>3, <1>4, LinesOn
      <3>3. QED
        BY <1>1, <1>3, <3>1, <3>2, PartsKept
    <2>3. QED
      BY <1>1, <2>2
  <1>8. QED
    BY <1>1, <1>3, <1>5, <1>6, <1>7 DEF ListInv

LEMMA ListStep == ParentsInv /\ ListInv /\ [Next]_vars => ListInv'
  <1> SUFFICES ASSUME ParentsInv, ListInv, [Next]_vars PROVE ListInv'
    OBVIOUS
  <1>1. ASSUME UNCHANGED << output, line, disks, parts, current >>,
               result' = result \/ (line = Len(output) /\ result' = "listed")
        PROVE  ListInv'
    <2>1. DisksListed'
      BY <1>1 DEF ListInv, DisksListed, DiskLines
    <2>2. \A d \in 1..Len(disks) : \A p \in 1..Len(parts[d]) : CameFrom(d, p)'
      BY <1>1 DEF ListInv, CameFrom
    <2>3. \A d \in 1..Len(disks) : PartsListed(d) => PartsListed(d)'
      BY <1>1 DEF PartsListed, OwnLines
    <2>4. InOrder' <=> InOrder
      BY <1>1 DEF InOrder
    <2>5. QED
      BY <1>1, <2>1, <2>2, <2>3, <2>4 DEF ListInv
  <1>2. CASE DiskLine
    BY <1>2, ListDisk
  <1>3. CASE PartitionLine
    BY <1>3, ListPartition
  <1>4. CASE Abort
    BY <1>4, ListAbort
  <1>5. CASE OtherLine
    BY <1>5, ListOther
  <1>6. CASE Finish
    BY <1>1, <1>6 DEF Finish
  <1>7. CASE Stop \/ UNCHANGED vars
    BY <1>1, <1>7 DEF Stop, vars
  <1>8. QED
    BY <1>2, <1>3, <1>4, <1>5, <1>6, <1>7 DEF Next

-----------------------------------------------------------------------------
(***************************************************************************)
(* What follows from it.                                                   *)
(***************************************************************************)
LEMMA ListDomains ==
  ASSUME ParentsInv, ListInv
  PROVE  /\ Len(disks) \in Nat /\ DOMAIN disks = 1..Len(disks)
         /\ \A d \in 1..Len(disks) : Len(parts[d]) \in Nat /\ DOMAIN parts[d] = 1..Len(parts[d])
         /\ Len(output) \in Nat /\ DOMAIN output = 1..Len(output)
         /\ line \in Nat /\ line <= Len(output)
  <1>1. List(output)
    BY OutputsAssumption DEF OutputsAssumption, ListInv, List
  <1>2. Len(output) \in Nat /\ DOMAIN output = 1..Len(output)
    BY <1>1, ListDomain
  <1>3. line \in Nat /\ line <= Len(output)
    <2>1. line \in 0..Len(output)
      BY DEF ListInv
    <2>2. QED
      BY <1>2, <2>1
  <1>4. Len(disks) \in Nat /\ DOMAIN disks = 1..Len(disks)
    BY ListDomain DEF ParentsInv
  <1>5. \A d \in 1..Len(disks) : Len(parts[d]) \in Nat /\ DOMAIN parts[d] = 1..Len(parts[d])
    BY ListDomain DEF ListInv
  <1>6. QED
    BY <1>2, <1>3, <1>4, <1>5

LEMMA ListedHolds == ParentsInv /\ ListInv => ListedAsPrinted
  <1> SUFFICES ASSUME ParentsInv, ListInv PROVE ListedAsPrinted
    OBVIOUS
  <1>1. DOMAIN disks = 1..Len(disks)
    BY ListDomains
  <1>2. QED
    BY <1>1 DEF ListInv, ListedAsPrinted

\* What is left of a name from a place on, and of the rest of it.
LEMMA RestOf ==
  ASSUME NEW name \in Seq(STRING), NEW n \in Nat, NEW k \in Nat, k > 0, n + k \in 1..Len(name),
         NEW rest, rest = SubSeq(name, n + 1, Len(name))
  PROVE  /\ rest[1] = name[n + 1]
         /\ SubSeq(rest, k, Len(rest)) = SubSeq(name, n + k, Len(name))
  <1> DEFINE size == Len(name) - n
  <1>1. /\ n + 1 \in 1..Len(name) /\ size \in Nat /\ size > 0 /\ k \in 1..size /\ Len(name) \in Nat
        /\ Len(name) - (n + 1) + 1 = size
    OBVIOUS
  <1>2. rest \in Seq(STRING) /\ Len(rest) = size /\ \A i \in 1..size : rest[i] = name[(n + 1) + i - 1]
    <2> DEFINE s == SubSeq(name, n + 1, Len(name))
    <2>1. s \in Seq(STRING) /\ Len(s) = size /\ \A i \in 1..size : s[i] = name[(n + 1) + i - 1]
      BY <1>1
    <2>2. QED
      BY <2>1
  <1>3. rest[1] = name[n + 1]
    BY <1>1, <1>2
  <1> DEFINE a == SubSeq(rest, k, Len(rest))
             b == SubSeq(name, n + k, Len(name))
             m == size - k + 1
  <1>4. a \in Seq(STRING) /\ Len(a) = m /\ \A i \in 1..m : a[i] = name[n + k + i - 1]
    <2> HIDE DEF size
    <2>1. a \in Seq(STRING) /\ Len(a) = m /\ \A i \in 1..m : a[i] = rest[k + i - 1]
      BY <1>1, <1>2
    <2>2. \A i \in 1..m : k + i - 1 \in 1..size /\ (n + 1) + (k + i - 1) - 1 = n + k + i - 1
      BY <1>1
    <2>3. QED
      BY <1>2, <2>1, <2>2
  <1>5. b \in Seq(STRING) /\ Len(b) = m /\ \A i \in 1..m : b[i] = name[n + k + i - 1]
    BY <1>1
  <1>6. a = b
    <2> HIDE DEF a, b, m
    <2>1. QED
      BY <1>4, <1>5, SeqEqual
  <1>7. QED
    BY <1>3, <1>6

\* The number of a partition is what its name has behind the disk's name.
LEMMA IndexHolds == ParentsInv /\ ListInv => IndexRight
  <1> SUFFICES ASSUME ParentsInv, ListInv, InOrder,
                      NEW d \in 1..Len(disks), NEW p \in 1..Len(parts[d]),
                      NEW dev, dev = disks[d].device
               PROVE  LET name == parts[d][p].device
                          rest == SubSeq(name, Len(dev) + 1, Len(name))
                      IN  \E k \in 1..2 : /\ k = 2 => rest[1] = "p"
                                          /\ IsNumeral(SubSeq(rest, k, Len(rest)))
                                          /\ parts[d][p].index = Number(SubSeq(rest, k, Len(rest)))
    BY ListDomains DEF IndexRight
  <1>0. PICK name : name = parts[d][p].device
    OBVIOUS
  <1>r. PICK rest : rest = SubSeq(name, Len(dev) + 1, Len(name))
    OBVIOUS
  <1>1. PICK f \in [1..Len(parts[d]) -> OwnLines(d)] : \A i \in 1..Len(parts[d]) : parts[d][i].device = Named(output[f[i]])
    BY DEF ListInv, PartsListed
  <1>2. /\ f[p] \in 1..Len(output) /\ IsPart(output[f[p]]) /\ output[f[p]].on = dev
        /\ name = Named(output[f[p]])
    <2>1. f[p] \in OwnLines(d)
      OBVIOUS
    <2>2. QED
      BY <1>0, <1>1, <2>1, ListDomains DEF OwnLines
  <1>3. name \in Seq(STRING) /\ dev \in Seq(STRING) /\ dev # << >> /\ PartNamed(name, dev)
    BY <1>2, LineFacts DEF ListInv
  <1>4. CameFrom(d, p)
    BY DEF ListInv
  <1>5. parts[d][p].index = Index(name)
    BY <1>0, <1>4 DEF CameFrom
  <1> DEFINE k == IF EndsInDigit(dev) THEN 2 ELSE 1
  <1>6. Numeral(name) = Len(dev) + k /\ Len(dev) + k \in 1..Len(name)
    BY <1>3, NumeralAt
  <1>7. Len(dev) \in Nat /\ k \in Nat /\ k > 0 /\ k \in 1..2
    BY <1>3
  <1>8. rest[1] = name[Len(dev) + 1] /\ SubSeq(rest, k, Len(rest)) = SubSeq(name, Len(dev) + k, Len(name))
    <2> HIDE DEF k
    <2>1. PICK n : n = Len(dev)
      OBVIOUS
    <2>2. PICK j : j = k
      OBVIOUS
    <2>3. n \in Nat /\ j \in Nat /\ j > 0 /\ n + j \in 1..Len(name)
      BY <1>6, <1>7, <2>1, <2>2
    <2>4. rest = SubSeq(name, n + 1, Len(name))
      BY <1>r, <2>1
    <2>5. rest[1] = name[n + 1] /\ SubSeq(rest, j, Len(rest)) = SubSeq(name, n + j, Len(name))
      BY <1>3, <2>3, <2>4, RestOf
    <2>6. QED
      BY <2>1, <2>2, <2>5
  <1>9. /\ IsNumeral(SubSeq(name, Len(dev) + k, Len(name)))
        /\ EndsInDigit(dev) => name[Len(dev) + 1] = "p"
    BY <1>3 DEF PartNamed
  <1>10. k = 2 => rest[1] = "p"
    <2>1. k = 2 => EndsInDigit(dev)
      OBVIOUS
    <2> HIDE DEF k
    <2>2. QED
      BY <1>8, <1>9, <2>1
  <1>11. parts[d][p].index = Number(SubSeq(rest, k, Len(rest)))
    BY <1>5, <1>6, <1>8 DEF Index
  <1> HIDE DEF k
  <1>12. IsNumeral(SubSeq(rest, k, Len(rest)))
    BY <1>8, <1>9
  <1>13. QED
    BY <1>0, <1>r, <1>7, <1>10, <1>11, <1>12

\* Two disks whose names begin a partition's: the one that took it is no
\* longer than the one that holds it, since its number lies behind both.
LEMMA OnItsDiskHolds == ParentsInv /\ ListInv => OnItsDisk
  <1> SUFFICES ASSUME ParentsInv, ListInv,
                      NEW d \in 1..Len(disks), NEW p \in 1..Len(parts[d]),
                      NEW n \in 1..Len(output), Named(output[n]) = parts[d][p].device
               PROVE  IsPrefixOf(disks[d].device, output[n].on)
    BY ListDomains DEF OnItsDisk
  <1> DEFINE dev == disks[d].device
             on == output[n].on
             name == Named(output[n])
  <1>1. PICK f \in [1..Len(disks) -> DiskLines] :
          \A i \in 1..Len(disks) : /\ f[i] \in 1..Len(output) /\ IsDisk(output[f[i]])
                                   /\ disks[i].device = Named(output[f[i]])
                                   /\ disks[i].device \in Seq(STRING)
    BY ListDomains, DiskOf
  <1>2. /\ dev \in Seq(STRING) /\ name \in Seq(STRING) /\ on \in Seq(STRING) /\ on # << >>
        /\ IsPart(output[n]) => PartNamed(name, on)
        /\ ~IsPart(output[n]) => name = on
    BY <1>1, LineFacts DEF ListInv
  <1>3. IsPrefixOf(dev, name) /\ Numeral(name) > Len(dev)
    <2>1. CameFrom(d, p)
      BY DEF ListInv
    <2>2. QED
      BY <2>1 DEF CameFrom, HasIndex
  <1>4. EndsInDigit(on) => dev # Append(on, "p")
    BY <1>1, DiskNames DEF ListInv
  <1>5. CASE ~IsPart(output[n])
    BY <1>2, <1>3, <1>5
  <1>6. CASE IsPart(output[n])
    <2> HIDE DEF dev, on, name
    <2> DEFINE from == Len(on) + (IF EndsInDigit(on) THEN 2 ELSE 1)
    <2>1. Numeral(name) = from /\ IsPrefixOf(on, name) /\ (EndsInDigit(on) => name[Len(on) + 1] = "p")
      BY <1>2, <1>6, NumeralAt DEF PartNamed
    <2>2. Len(dev) \in Nat /\ Len(on) \in Nat /\ Len(name) \in Nat
      BY <1>2
    <2>3. /\ Len(dev) <= Len(name) /\ \A i \in 1..Len(dev) : name[i] = dev[i]
          /\ Len(on) <= Len(name) /\ \A i \in 1..Len(on) : name[i] = on[i]
      BY <1>2, <1>3, <2>1, PrefixIs
    <2>4. Len(dev) <= Len(on)
      <3> SUFFICES ASSUME Len(dev) > Len(on) PROVE FALSE
        BY <2>2
      <3>1. EndsInDigit(on) /\ Len(dev) = Len(on) + 1
        BY <1>3, <2>1, <2>2
      <3>2. dev[Len(on) + 1] = "p" /\ \A i \in 1..Len(on) : dev[i] = on[i]
        BY <2>1, <2>2, <2>3, <3>1
      <3>3. dev = Append(on, dev[Len(on) + 1])
        <4> DEFINE e == dev[Len(on) + 1]
                   t == Append(on, e)
        <4>1. e \in STRING
          BY <1>2, <2>2, <3>1
        <4> HIDE DEF e
        <4>2. /\ t \in Seq(STRING) /\ Len(t) = Len(on) + 1 /\ t[Len(on) + 1] = e
              /\ \A i \in 1..Len(on) : t[i] = on[i]
          BY <1>2, <4>1, AppendProperties
        <4>3. \A i \in 1..(Len(on) + 1) : t[i] = dev[i]
          BY <2>2, <3>2, <4>2 DEF e
        <4> HIDE DEF t
        <4>4. dev = t
          BY <1>2, <2>2, <3>1, <4>2, <4>3, SeqEqual
        <4>5. QED
          BY <4>4 DEF t, e
      <3>4. QED
        BY <1>4, <3>1, <3>2, <3>3
    <2>5. IsPrefixOf(dev, on)
      BY <1>2, <2>2, <2>3, <2>4, PrefixIs
    <2>6. QED
      BY <2>5 DEF dev, on
  <1>7. QED
    BY <1>5, <1>6

\* Whatever lsblk prints: in order, the list is what it printed, with the
\* numbers and the file systems of the partitions; out of order, no partition
\* is listed under a disk whose name does not begin the name of its own.
THEOREM SpecListRight == Spec => []ListRight
  <1>1. ParentsInv /\ ListInv => ListRight
    BY ListedHolds, IndexHolds, OnItsDiskHolds DEF ListRight
  <1>2. Init => ParentsInv /\ ListInv
    BY ParentsInit, ListInit
  <1>3. ParentsInv /\ ListInv /\ [Next]_vars => ParentsInv' /\ ListInv'
    BY ParentsStep, ListStep
  <1>4. QED
    BY <1>1, <1>2, <1>3, PTL DEF Spec
=============================================================================
