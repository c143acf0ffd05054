-------------------------- MODULE MappedFileProofs --------------------------
(***************************************************************************)
(* Theorems about MappedFile for every file size, block size, readahead    *)
(* and number of read errors.  HandshakeInv needs no arithmetic and is     *)
(* inductive by itself; ChainInv, the shape of the list of blocks, rests   *)
(* on it.                                                                  *)
(***************************************************************************)
EXTENDS MappedFile, FiniteSetTheorems, TLAPS

Waiting == {"errorTest", "errorWait"}

\* Who holds the two locks, and how far the question the reader asks and the
\* consumer's answer have come.
HandshakeInv ==
  /\ lock \in {"none", "reader", "consumer"}
  /\ (lock = "reader") <=> (rpc = "link")
  /\ (lock = "consumer") <=> (cpc = "uncount")
  /\ errorLock \in {"none", "reader"}
  /\ (errorLock = "reader") <=> (rpc = "errorTest")
  /\ hasError \in BOOLEAN
  /\ signalled \in BOOLEAN
  /\ hasError => rpc \in Waiting
  /\ rpc \in Waiting => (hasError <=> errorReaction = "NONE")
  /\ cpc = "answer" => hasError
  /\ rpc = "errorWait" /\ errorReaction # "NONE" => signalled

LEMMA HandshakeInit == Init => HandshakeInv
  BY DEF Init, HandshakeInv, Waiting

\* The reader thread keeps the handshake.
LEMMA HandshakeReader ==
  ASSUME HandshakeInv, ReaderStep \/ ErrorSpurious
  PROVE  HandshakeInv'
  <1> USE DEF HandshakeInv, Waiting, aheadVars, listVars, errorVars,
              consumerVars, requestVars
  <1>1. CASE ThreadLoop
    BY <1>1 DEF ThreadLoop
  <1>2. CASE ThreadRoom
    BY <1>2 DEF ThreadRoom
  <1>3. CASE FillBlock
    BY <1>3 DEF FillBlock
  <1>4. CASE FillFails
    BY <1>4 DEF FillFails
  <1>5. CASE AppendCount
    BY <1>5 DEF AppendCount
  <1>6. CASE AppendLink
    BY <1>6 DEF AppendLink
  <1>7. CASE ErrorRaise
    BY <1>7 DEF ErrorRaise
  <1>8. CASE ErrorWait
    BY <1>8 DEF ErrorWait
  <1>9. CASE ErrorSignalled \/ ErrorSpurious
    BY <1>9 DEF ErrorSignalled, ErrorSpurious, WakeUp
  <1>10. CASE ErrorObey
    BY <1>10 DEF ErrorObey, AfterReaction
  <1>11. CASE ThreadExit
    BY <1>11 DEF ThreadExit
  <1>12. QED
    BY <1>1, <1>2, <1>3, <1>4, <1>5, <1>6, <1>7, <1>8, <1>9, <1>10, <1>11
       DEF ReaderStep

\* So does the consumer: the only steps that touch it are those of the list's
\* critical section and the answer.
LEMMA HandshakeConsumer ==
  ASSUME HandshakeInv,
         \/ ConsumerStep \/ CopyFails \/ Close
         \/ \E o \in {"read", "copy"}, n \in 0..MaxLen : Request(o, n)
  PROVE  HandshakeInv'
  <1> USE DEF HandshakeInv, Waiting, threadVars, readerVars, aheadVars,
              listVars, errorVars, requestVars
  <1>1. ASSUME NEW r \in Reactions, Answer(r)
        PROVE  HandshakeInv'
    <2>1. r # "NONE"
      BY ReactionsAssumption
    <2>2. QED
      BY <1>1, <2>1 DEF Answer, Acknowledge, Return
  <1>2. CASE DisposeUnlink
    BY <1>2 DEF DisposeUnlink
  <1>3. CASE DisposeCount
    BY <1>3 DEF DisposeCount
  <1>4. ASSUME Iterate \/ GetBlock \/ CopyFails \/ Copy
        PROVE  HandshakeInv'
    BY <1>4 DEF Iterate, GetBlock, CopyFails, Copy, Return
  <1>5. ASSUME WaitCount \/ WaitComplete \/ WaitError
        PROVE  HandshakeInv'
    BY <1>5 DEF WaitCount, WaitComplete, WaitError
  <1>6. ASSUME Close \/ CloseJoin \/ CloseDrain
        PROVE  HandshakeInv'
    BY <1>6 DEF Close, CloseJoin, CloseDrain
  <1>7. ASSUME NEW o, NEW n, Request(o, n)
        PROVE  HandshakeInv'
    BY <1>7 DEF Request, Return
  <1>8. QED
    BY <1>1, <1>2, <1>3, <1>4, <1>5, <1>6, <1>7 DEF ConsumerStep

LEMMA HandshakeStep == HandshakeInv /\ [Next]_vars => HandshakeInv'
  <1> SUFFICES ASSUME HandshakeInv, [Next]_vars PROVE HandshakeInv'
    OBVIOUS
  <1>1. CASE UNCHANGED vars
    BY <1>1 DEF HandshakeInv, Waiting, vars, threadVars, readerVars,
                aheadVars, listVars, errorVars, consumerVars, requestVars
  <1>2. QED
    BY <1>1, HandshakeReader, HandshakeConsumer DEF Next, Closed

THEOREM HandshakeSafe == Spec => []HandshakeInv
  BY HandshakeInit, HandshakeStep, PTL DEF Spec

\* An answer to a read error always reaches the reader that asked for it: the
\* consumer answers only while the reader waits, and no wake-up is lost.
THEOREM AnswerSafe == Spec => []AnswerReachesReader
  <1>1. HandshakeInv => AnswerReachesReader
    BY DEF HandshakeInv, AnswerReachesReader, Waiting
  <1>2. QED
    BY <1>1, HandshakeSafe, PTL

-----------------------------------------------------------------------------
(***************************************************************************)
(* The list of blocks.  Beside what ListIntact says of it when nobody is   *)
(* inside the critical section, the invariant says what each thread has    *)
(* done so far with the block it is adding or removing, that the reader's  *)
(* descriptor is at the end of what was appended unless a read failed, and *)
(* that the consumer's position lies in the first block.                   *)
(***************************************************************************)
EndOf(b) == b + Least(FileSize - b, BlockSize)

\* The end of the linked blocks.
LinkedEnd == IF rpc = "link" THEN rblock ELSE readaheadPos

OffsetOrNull(x) == x = NULL \/ x \in Offsets

Ranges ==
  /\ OffsetOrNull(rblock) /\ OffsetOrNull(memFirst) /\ OffsetOrNull(memLast)
  /\ readaheadPos \in Offsets
  /\ pos \in Offsets
  /\ left \in Nat
  /\ blockCount \in Nat /\ blockCount <= MaxBlocks
  /\ closing \in BOOLEAN
  /\ \A b \in DOMAIN heap : b \in Nat /\ b < FileSize

ReaderInv ==
  /\ rpc \in {"room", "fill", "append"} => readaheadPos < FileSize
  /\ rpc \in {"fill", "append"} => blockCount < MaxBlocks
  /\ (rblock # NULL) <=> rpc \in {"append", "link"}
  /\ rblock # NULL => /\ rblock \in DOMAIN heap
                      /\ heap[rblock].from = rblock
                      /\ heap[rblock].next = NULL
                      /\ rblock % BlockSize = 0
  /\ rpc = "append" => /\ rblock = readaheadPos
                       /\ fdPos = readaheadPos + ToRead
  /\ rpc = "link" => readaheadPos = EndOf(rblock)
  /\ readaheadPos < FileSize => readaheadPos % BlockSize = 0
  /\ rpc \in {"loop", "room", "fill", "link"} => fdPos = readaheadPos

BlocksInv ==
  /\ \A b \in Linked :
       /\ b % BlockSize = 0
       /\ heap[b].from = b
       /\ memFirst <= b /\ b <= memLast
       /\ heap[b].next = IF b = memLast THEN NULL ELSE b + BlockSize
       /\ b # memLast => b + BlockSize \in Linked
  /\ \A b, c \in Linked : b < c => b + BlockSize <= c

EndsInv ==
  /\ memFirst = NULL => Linked = {}
  /\ memFirst # NULL => /\ memFirst \in Linked
                        /\ memLast \in Linked
                        /\ LinkedEnd = EndOf(memLast)
  /\ cpc # "uncount" /\ Linked = {} => memLast = NULL
  /\ cpc = "uncount" => memLast # NULL

CountInv ==
  /\ IsFiniteSet(Linked)
  /\ blockCount = Cardinality(Linked)
                  + (IF rpc = "link" \/ cpc = "uncount" THEN 1 ELSE 0)

ConsumerInv ==
  /\ cpc \in {"join", "drain", "closed"} => closing
  /\ closing => cpc \in {"join", "drain", "closed", "unlink", "uncount"}
  /\ cpc = "unlink" => memFirst # NULL
  /\ cpc = "copy" => memFirst # NULL /\ cur = memFirst /\ left > 0
  /\ ~closing /\ cpc # "unlink" =>
       IF memFirst = NULL THEN pos = LinkedEnd
                          ELSE memFirst <= pos /\ pos < memFirst + BlockSize
  /\ ~closing /\ cpc = "unlink" => pos = memFirst + BlockSize
  /\ cpc \in {"get", "waitCount", "waitComplete", "waitError", "answer"} =>
       left > 0

ChainInv ==
  Ranges /\ ReaderInv /\ BlocksInv /\ EndsInv /\ CountInv /\ ConsumerInv

LEMMA LeastFacts ==
  ASSUME NEW a \in Int, NEW b \in Int
  PROVE  /\ Least(a, b) \in Int
         /\ Least(a, b) <= a /\ Least(a, b) <= b
         /\ Least(a, b) = a \/ Least(a, b) = b
  BY DEF Least

LEMMA DivMod ==
  ASSUME NEW n \in Nat \ {0}, NEW x \in Nat
  PROVE  /\ x = n * (x \div n) + (x % n)
         /\ x \div n \in Int
         /\ x % n \in 0..(n - 1)
  BY Z3

LEMMA RemainderUnique ==
  ASSUME NEW n \in Nat \ {0}, NEW q \in Int, NEW p \in Int,
         NEW r \in 0..(n - 1), NEW s \in 0..(n - 1),
         n * q + r = n * p + s
  PROVE  r = s
  <1>1. n * (q - p) = s - r
    OBVIOUS
  <1>2. CASE q - p >= 1
    <2>1. n * (q - p) >= n
      BY <1>2, SMT
    <2>2. QED
      BY <1>1, <2>1
  <1>3. CASE q - p <= -1
    <2>1. n * (q - p) <= -n
      BY <1>3, SMT
    <2>2. QED
      BY <1>1, <2>1
  <1>4. CASE q - p = 0
    BY <1>1, <1>4
  <1>5. QED
    BY <1>2, <1>3, <1>4

LEMMA ModNext ==
  ASSUME NEW n \in Nat \ {0}, NEW x \in Nat, x % n = 0
  PROVE  (x + n) % n = 0
  <1> DEFINE q == x \div n
             p == (x + n) \div n
             s == (x + n) % n
  <1>1. x = n * q /\ q \in Int
    BY DivMod
  <1>2. x + n \in Nat
    OBVIOUS
  <1>3. x + n = n * p + s /\ p \in Int /\ s \in 0..(n - 1)
    BY <1>2, DivMod
  <1> HIDE DEF q, p, s
  <1>4. n * (q + 1) + 0 = n * p + s
    <2>1. n * (q + 1) = n * q + n
      BY <1>1
    <2>2. QED
      BY <1>1, <1>3, <2>1
  <1>5. 0 = s
    BY <1>1, <1>3, <1>4, RemainderUnique, Z3
  <1>6. QED
    BY <1>5 DEF s

\* The block after a block begins at a multiple of the block size as well.
LEMMA ModNextBlock ==
  ASSUME NEW x \in Nat, x % BlockSize = 0
  PROVE  (x + BlockSize) % BlockSize = 0
  BY ModNext, BlockSizeAssumption

\* Within a block the remainder is the distance from its first byte.
LEMMA ModWithinBlock ==
  ASSUME NEW x \in Nat, x % BlockSize = 0,
         NEW y \in Nat, x <= y, y < x + BlockSize
  PROVE  y % BlockSize = y - x
  <1>1. ASSUME NEW n \in Nat \ {0}, NEW d \in Nat, d < n, x % n = 0
        PROVE  (x + d) % n = d
    BY <1>1, Z3
  <1>2. y - x \in Nat /\ y - x < BlockSize /\ x + (y - x) = y
    BY BlockSizeAssumption
  <1>3. QED
    BY <1>1, <1>2, BlockSizeAssumption

\* A block ends where the next one begins, or at the end of the file.
LEMMA EndOfFacts ==
  ASSUME NEW b \in Nat, b < FileSize
  PROVE  /\ EndOf(b) \in Offsets
         /\ EndOf(b) > b
         /\ EndOf(b) <= b + BlockSize
         /\ EndOf(b) = b + BlockSize \/ EndOf(b) = FileSize
         /\ b + BlockSize <= FileSize => EndOf(b) = b + BlockSize
  BY FileSizeAssumption, BlockSizeAssumption DEF EndOf, Least, Offsets

LEMMA ChainInit == Init => ChainInv
  <1> SUFFICES ASSUME Init PROVE ChainInv
    OBVIOUS
  <1>1. DOMAIN heap = {} /\ Linked = {}
    BY DEF Init, Linked
  <1>2. IsFiniteSet({}) /\ Cardinality({}) = 0
    BY FS_EmptySet
  <1>3. 0 % BlockSize = 0
    BY BlockSizeAssumption, ModWithinBlock, Z3
  <1>4. Ranges
    <2>1. 0 \in Offsets /\ 0 <= MaxBlocks
      BY FileSizeAssumption, MaxBlocksAssumption DEF Offsets
    <2>2. \A b \in DOMAIN heap : b \in Nat /\ b < FileSize
      BY <1>1
    <2>3. QED
      BY <2>1, <2>2 DEF Init, Ranges, OffsetOrNull
  <1>5. ReaderInv
    BY <1>3 DEF Init, ReaderInv
  <1>6. BlocksInv /\ EndsInv
    BY <1>1 DEF Init, BlocksInv, EndsInv
  <1>7. CountInv
    BY <1>1, <1>2 DEF Init, CountInv
  <1>8. ConsumerInv
    BY DEF Init, ConsumerInv, LinkedEnd
  <1>9. QED
    BY <1>4, <1>5, <1>6, <1>7, <1>8 DEF ChainInv

\* The reader's steps that leave the list and the positions alone.
LEMMA ChainReaderQuiet ==
  ASSUME ChainInv, HandshakeInv,
         \/ ThreadLoop \/ ThreadRoom \/ FillFails \/ ErrorRaise \/ ErrorWait
         \/ ErrorSignalled \/ ErrorSpurious \/ ErrorObey \/ ThreadExit
  PROVE  ChainInv'
  <1> USE DEF ChainInv, aheadVars, listVars, errorVars, consumerVars,
              requestVars
  <1>1. /\ UNCHANGED <<rblock, readaheadPos, listVars, cpc, pos, left, cur,
                       closing>>
        /\ rpc \notin {"append", "link"} /\ rpc' \notin {"append", "link"}
        /\ rpc' \in {"room", "fill"} => readaheadPos < FileSize
        /\ rpc' = "fill" => blockCount # MaxBlocks
        /\ rpc' \in {"loop", "room", "fill"} => fdPos' = readaheadPos
    BY DEF ReaderInv, ThreadLoop, Continue, ThreadRoom, Full, FillFails,
           ErrorRaise, ErrorWait, ErrorSignalled, ErrorSpurious, WakeUp,
           ErrorObey, AfterReaction, RetryFrom, ThreadExit
  <1>2. Linked' = Linked /\ LinkedEnd' = LinkedEnd /\ Linked = DOMAIN heap
    BY <1>1 DEF Linked, LinkedEnd, ReaderInv, Ranges, NULL, Offsets
  <1>3. Ranges' /\ BlocksInv'
    BY <1>1, <1>2 DEF Ranges, OffsetOrNull, BlocksInv
  <1>4. ReaderInv'
    BY <1>1, MaxBlocksAssumption DEF ReaderInv, Ranges
  <1>5. EndsInv' /\ CountInv' /\ ConsumerInv'
    BY <1>1, <1>2 DEF EndsInv, CountInv, ConsumerInv
  <1>6. QED
    BY <1>3, <1>4, <1>5

\* A new block is not linked yet, and is read from where it belongs.
LEMMA ChainFill ==
  ASSUME ChainInv, FillBlock
  PROVE  ChainInv'
  <1> USE DEF ChainInv, aheadVars, listVars, errorVars, consumerVars,
              requestVars
  <1>1. /\ rpc = "fill" /\ rpc' = "append"
        /\ rblock = NULL /\ rblock' = readaheadPos
        /\ readaheadPos \in Nat /\ readaheadPos < FileSize
        /\ fdPos = readaheadPos /\ fdPos' = readaheadPos + ToRead
        /\ ToRead' = ToRead
        /\ UNCHANGED <<readaheadPos, memFirst, memLast, blockCount, lock, cpc,
                       pos, left, cur, closing>>
    BY DEF FillBlock, ReaderInv, Ranges, Offsets, ToRead
  <1>2. Linked = DOMAIN heap
    BY <1>1 DEF Linked, Ranges, NULL
  <1>3. readaheadPos \notin DOMAIN heap
    <2>1. ASSUME NEW b \in Linked PROVE b < readaheadPos
      <3>1. /\ memFirst # NULL /\ b <= memLast
            /\ memLast \in Linked /\ readaheadPos = EndOf(memLast)
        BY <1>1, <2>1 DEF EndsInv, BlocksInv, LinkedEnd
      <3>2. memLast \in Nat /\ memLast < FileSize /\ b \in Nat
        BY <1>2, <2>1, <3>1 DEF Ranges
      <3>3. QED
        BY <3>1, <3>2, EndOfFacts, FileSizeAssumption DEF Offsets
    <2>2. QED
      BY <1>1, <1>2, <2>1
  <1>4. /\ DOMAIN heap' = DOMAIN heap \union {readaheadPos}
        /\ heap'[readaheadPos] = [from |-> readaheadPos, next |-> NULL]
        /\ \A b \in DOMAIN heap : heap'[b] = heap[b]
    BY <1>1, <1>3 DEF FillBlock
  <1>5. Linked' = Linked /\ LinkedEnd' = LinkedEnd
    BY <1>1, <1>2, <1>3, <1>4 DEF Linked, LinkedEnd
  <1>6. Ranges'
    BY <1>1, <1>4 DEF Ranges, OffsetOrNull, Offsets
  <1>7. ReaderInv'
    BY <1>1, <1>4 DEF ReaderInv, Ranges, NULL
  <1>8. BlocksInv'
    BY <1>1, <1>2, <1>4, <1>5 DEF BlocksInv
  <1>9. EndsInv' /\ CountInv' /\ ConsumerInv'
    BY <1>1, <1>5 DEF EndsInv, CountInv, ConsumerInv
  <1>10. QED
    BY <1>6, <1>7, <1>8, <1>9

\* The reader counts its block; the list itself still ends before it.
LEMMA ChainAppendCount ==
  ASSUME ChainInv, HandshakeInv, AppendCount
  PROVE  ChainInv'
  <1> USE DEF ChainInv, errorVars, consumerVars, requestVars
  <1>1. /\ rpc = "append" /\ rpc' = "link" /\ cpc # "uncount"
        /\ rblock = readaheadPos /\ rblock # NULL
        /\ readaheadPos \in Nat /\ readaheadPos < FileSize
        /\ readaheadPos' = EndOf(rblock)
        /\ blockCount' = blockCount + 1
        /\ UNCHANGED <<rblock, heap, memFirst, memLast, cpc, pos, left, cur,
                       closing>>
    BY DEF AppendCount, ReaderInv, Ranges, Offsets, HandshakeInv, EndOf, ToRead
  <1>2. Linked' = Linked /\ LinkedEnd' = LinkedEnd
    BY <1>1 DEF Linked, LinkedEnd
  <1>3. readaheadPos' \in Offsets
    BY <1>1, EndOfFacts
  <1>4. Ranges'
    BY <1>1, <1>3, MaxBlocksAssumption
       DEF Ranges, OffsetOrNull, ReaderInv
  <1>5. readaheadPos' < FileSize => readaheadPos' % BlockSize = 0
    <2>1. ASSUME readaheadPos' < FileSize PROVE readaheadPos' % BlockSize = 0
      <3>1. readaheadPos' = readaheadPos + BlockSize
        BY <1>1, <2>1, EndOfFacts, FileSizeAssumption
      <3>2. readaheadPos % BlockSize = 0
        BY <1>1 DEF ReaderInv
      <3>3. QED
        BY <1>1, <3>1, <3>2, ModNextBlock
    <2>2. QED
      BY <2>1
  <1>6. fdPos' = readaheadPos'
    BY <1>1 DEF AppendCount, ReaderInv, ToRead, EndOf
  <1>7. ReaderInv'
    BY <1>1, <1>5, <1>6 DEF ReaderInv, EndOf
  <1>8. BlocksInv' /\ EndsInv' /\ ConsumerInv'
    BY <1>1, <1>2 DEF BlocksInv, EndsInv, ConsumerInv
  <1>9. CountInv'
    BY <1>1, <1>2, FS_CardinalityType DEF CountInv
  <1>10. QED
    BY <1>4, <1>7, <1>8, <1>9

\* The block becomes the last of the list.
LEMMA ChainAppendLink ==
  ASSUME ChainInv, HandshakeInv, AppendLink
  PROVE  ChainInv'
  <1> USE DEF ChainInv, aheadVars, errorVars, consumerVars, requestVars
  <1>1. /\ rpc = "link" /\ rpc' = "loop" /\ cpc # "uncount"
        /\ rblock \in Nat /\ rblock < FileSize /\ rblock # NULL
        /\ rblock \in DOMAIN heap
        /\ readaheadPos = EndOf(rblock) /\ LinkedEnd = rblock
        /\ rblock' = NULL /\ memLast' = rblock
        /\ memFirst' = IF memFirst = NULL THEN rblock ELSE memFirst
        /\ UNCHANGED <<fdPos, readaheadPos, blockCount, cpc, pos, left, cur,
                       closing>>
    BY DEF AppendLink, ReaderInv, Ranges, HandshakeInv, LinkedEnd
  <1>2. /\ DOMAIN heap' = DOMAIN heap
        /\ \A b \in DOMAIN heap :
             heap'[b] = IF b = memLast THEN [from |-> heap[b].from, next |-> rblock]
                                       ELSE heap[b]
    BY DEF AppendLink
  <1>3. \A b \in DOMAIN heap : b \in Nat /\ b < FileSize /\ b # NULL
    BY DEF Ranges, NULL
  <1>4. Linked' = Linked \union {rblock} /\ rblock \notin Linked
    BY <1>1, <1>2, <1>3 DEF Linked
  <1>5. /\ LinkedEnd' = readaheadPos
        /\ readaheadPos' = readaheadPos
    BY <1>1 DEF LinkedEnd
  <1>6. ASSUME memFirst # NULL
        PROVE  /\ memLast \in Linked /\ memLast \in Nat
               /\ rblock = memLast + BlockSize
               /\ \A b \in Linked : b <= memLast /\ b < rblock
                                    /\ b + BlockSize <= rblock
    <2>1. memLast \in Linked /\ rblock = EndOf(memLast)
      BY <1>1, <1>6 DEF EndsInv
    <2>2. memLast \in Nat /\ memLast < FileSize
      BY <1>3, <2>1 DEF Linked
    <2>3. rblock = memLast + BlockSize
      BY <1>1, <2>1, <2>2, EndOfFacts, FileSizeAssumption
    <2>4. ASSUME NEW b \in Linked
          PROVE  b <= memLast /\ b < rblock /\ b + BlockSize <= rblock
      <3>1. b \in Nat /\ b <= memLast
        BY <1>3, <2>4 DEF Linked, BlocksInv
      <3>2. QED
        BY <2>2, <2>3, <3>1, BlockSizeAssumption
    <2>5. QED
      BY <2>1, <2>2, <2>3, <2>4
  <1>7. memFirst = NULL => Linked = {} /\ memLast = NULL
    BY <1>1 DEF EndsInv
  <1>8. Ranges'
    BY <1>1, <1>2, FileSizeAssumption DEF Ranges, OffsetOrNull, Offsets, NULL
  <1>9. ReaderInv'
    BY <1>1 DEF ReaderInv, NULL
  <1>10. \A b \in Linked' :
           /\ b % BlockSize = 0
           /\ heap'[b].from = b
           /\ memFirst' <= b /\ b <= memLast'
           /\ heap'[b].next = IF b = memLast' THEN NULL ELSE b + BlockSize
           /\ b # memLast' => b + BlockSize \in Linked'
    <2>1. CASE memFirst = NULL
      <3>1. Linked' = {rblock} /\ heap'[rblock] = heap[rblock]
        BY <1>1, <1>2, <1>4, <1>7, <2>1
      <3>2. QED
        BY <1>1, <2>1, <3>1 DEF ReaderInv
    <2>2. CASE memFirst # NULL
      <3>1. ASSUME NEW b \in Linked
            PROVE  /\ b % BlockSize = 0
                   /\ heap'[b].from = b
                   /\ memFirst' <= b /\ b <= memLast'
                   /\ heap'[b].next = IF b = memLast' THEN NULL ELSE b + BlockSize
                   /\ b # memLast' => b + BlockSize \in Linked'
        <4>1. b \in DOMAIN heap /\ b < rblock /\ b \in Nat
          BY <1>3, <1>6, <2>2, <3>1 DEF Linked
        <4>2. /\ b % BlockSize = 0
              /\ heap[b].from = b
              /\ memFirst <= b /\ b <= memLast
              /\ heap[b].next = IF b = memLast THEN NULL ELSE b + BlockSize
              /\ b # memLast => b + BlockSize \in Linked
          BY <3>1 DEF BlocksInv
        <4>3. CASE b = memLast
          BY <1>1, <1>2, <1>4, <1>6, <2>2, <4>1, <4>2, <4>3
        <4>4. CASE b # memLast
          BY <1>1, <1>2, <1>4, <1>6, <2>2, <4>1, <4>2, <4>4
        <4>5. QED
          BY <4>3, <4>4
      <3>2. /\ rblock % BlockSize = 0
            /\ heap'[rblock].from = rblock /\ heap'[rblock].next = NULL
            /\ memFirst' <= rblock
        <4>1. heap'[rblock] = heap[rblock]
          BY <1>1, <1>2, <1>4, <1>6, <2>2
        <4>2. memFirst \in Linked /\ memFirst' = memFirst
          BY <1>1, <2>2 DEF EndsInv
        <4>3. QED
          BY <1>1, <1>3, <1>6, <2>2, <4>1, <4>2 DEF ReaderInv, Linked
      <3>3. QED
        BY <1>1, <1>4, <3>1, <3>2
    <2>3. QED
      BY <2>1, <2>2
  <1>11. \A b, c \in Linked' : b < c => b + BlockSize <= c
    <2>1. ASSUME NEW b \in Linked', NEW c \in Linked', b < c
          PROVE  b + BlockSize <= c
      <3>1. CASE b \in Linked /\ c \in Linked
        BY <2>1, <3>1 DEF BlocksInv
      <3>2. CASE b \in Linked /\ c = rblock
        BY <1>6, <1>7, <3>2
      <3>3. CASE b = rblock
        <4>1. b \in Nat /\ c \in Nat /\ ~(c < b) /\ c # b
          <5>1. b \in Nat /\ c \in Nat
            BY <1>1, <1>3, <1>4, <2>1, <3>3 DEF Linked
          <5>2. QED
            BY <2>1, <5>1
        <4>2. c \in Linked /\ memFirst # NULL
          BY <1>4, <1>7, <3>3, <4>1
        <4>3. QED
          BY <1>6, <3>3, <4>1, <4>2
      <3>4. QED
        BY <1>4, <3>1, <3>2, <3>3
    <2>2. QED
      BY <2>1
  <1>12. BlocksInv'
    BY <1>10, <1>11 DEF BlocksInv
  <1>13. EndsInv'
    BY <1>1, <1>4, <1>5 DEF EndsInv
  <1>14. CountInv'
    <2>1. /\ IsFiniteSet(Linked')
          /\ Cardinality(Linked') = Cardinality(Linked) + 1
      BY <1>4, FS_AddElement DEF CountInv
    <2>2. Cardinality(Linked) \in Nat
      BY FS_CardinalityType DEF CountInv
    <2>3. QED
      BY <1>1, <2>1, <2>2 DEF CountInv
  <1>15. ConsumerInv'
    BY <1>1, <1>5, <1>7, BlockSizeAssumption DEF ConsumerInv
  <1>16. QED
    BY <1>8, <1>9, <1>12, <1>13, <1>14, <1>15

\* The consumer's steps that leave the list and the position alone.
LEMMA ChainConsumerQuiet ==
  ASSUME ChainInv,
         \/ Iterate \/ WaitCount \/ WaitComplete \/ WaitError
         \/ \E r \in Reactions : Answer(r)
         \/ GetBlock \/ CopyFails \/ Close \/ CloseJoin \/ CloseDrain
         \/ \E o \in {"read", "copy"}, n \in 0..MaxLen : Request(o, n)
  PROVE  ChainInv'
  <1> USE DEF ChainInv, threadVars, readerVars, aheadVars, listVars, errorVars,
              requestVars
  <1>1. /\ UNCHANGED <<readerVars, readaheadPos, heap, memFirst, memLast,
                       blockCount, pos>>
        /\ cpc \notin {"unlink", "uncount"} /\ cpc' # "uncount"
        /\ cpc' = "unlink" => memFirst # NULL /\ closing'
        /\ cpc' = "copy" => memFirst # NULL /\ cur' = memFirst /\ left' > 0
        /\ cpc' \in {"get", "waitCount", "waitComplete", "waitError", "answer"}
             => left' > 0
        /\ cpc' \in {"join", "drain", "closed"} => closing'
        /\ closing' \in BOOLEAN /\ left' \in Nat /\ (closing => closing')
        /\ closing' => cpc' \in {"join", "drain", "closed", "unlink"}
    <2>1. CASE Iterate \/ WaitCount \/ WaitComplete \/ WaitError
      BY <2>1 DEF Iterate, WaitCount, WaitComplete, WaitError, Return,
                  Ranges, ConsumerInv
    <2>2. CASE \E r \in Reactions : Answer(r)
      BY <2>2 DEF Answer, Acknowledge, Return, Ranges, ConsumerInv
    <2>3. CASE GetBlock \/ CopyFails
      BY <2>3 DEF GetBlock, CopyFails, Return, Ranges, ConsumerInv
    <2>4. CASE Close \/ CloseJoin \/ CloseDrain
      BY <2>4 DEF Close, CloseJoin, CloseDrain, Ranges, ConsumerInv
    <2>5. CASE \E o \in {"read", "copy"}, n \in 0..MaxLen : Request(o, n)
      BY <2>5, BoundsAssumption DEF Request, Return, Ranges, ConsumerInv
    <2>6. QED
      BY <2>1, <2>2, <2>3, <2>4, <2>5
  <1>2. Linked' = Linked /\ LinkedEnd' = LinkedEnd
    BY <1>1 DEF Linked, LinkedEnd
  <1>3. Ranges' /\ ReaderInv'
    BY <1>1 DEF Ranges, OffsetOrNull, ReaderInv, EndOf, ToRead
  <1>4. BlocksInv' /\ EndsInv' /\ CountInv'
    BY <1>1, <1>2 DEF BlocksInv, EndsInv, CountInv
  <1>5. ConsumerInv'
    BY <1>1, <1>2 DEF ConsumerInv
  <1>6. QED
    BY <1>3, <1>4, <1>5

\* Wherever the consumer may take bytes, its position in the block is its
\* distance from the first linked block.
LEMMA PositionInFirstBlock ==
  ASSUME ChainInv, cpc = "copy"
  PROVE  /\ ~closing
         /\ memFirst \in Nat /\ memFirst \in Linked
         /\ memFirst <= pos /\ pos < memFirst + BlockSize
         /\ PositionInBlock = pos - memFirst
         /\ cur = memFirst /\ heap[cur].from = memFirst
  <1> USE DEF ChainInv
  <1>1. /\ ~closing /\ memFirst \in Linked
        /\ memFirst <= pos /\ pos < memFirst + BlockSize /\ cur = memFirst
    BY DEF ConsumerInv, EndsInv, Ranges
  <1>2. memFirst \in Nat /\ memFirst % BlockSize = 0
        /\ heap[memFirst].from = memFirst
    BY <1>1 DEF Ranges, Linked, BlocksInv
  <1>3. pos \in Nat
    BY DEF Ranges, Offsets
  <1>4. PositionInBlock = pos - memFirst
    BY <1>1, <1>2, <1>3, ModWithinBlock DEF PositionInBlock
  <1>5. QED
    BY <1>1, <1>2, <1>4

LEMMA ChainCopy ==
  ASSUME ChainInv, Copy
  PROVE  ChainInv'
  <1> USE DEF ChainInv, threadVars, readerVars, aheadVars, listVars, errorVars
  <1>1. /\ cpc = "copy" /\ cpc' \in {"unlink", "iterate"}
        /\ pos' = pos + ToCopy /\ left' = left - ToCopy
        /\ (cpc' = "unlink") <=> (ToCopy = LeftInBlock)
        /\ UNCHANGED <<readerVars, readaheadPos, heap, memFirst, memLast,
                       blockCount, cur, closing>>
    BY DEF Copy
  <1>2. /\ ~closing
        /\ memFirst \in Nat
        /\ memFirst <= pos /\ pos < memFirst + BlockSize
        /\ PositionInBlock = pos - memFirst
    BY <1>1, PositionInFirstBlock
  <1>3. pos \in Nat /\ pos <= FileSize /\ left \in Nat
    BY DEF Ranges, Offsets
  <1>4. /\ ToCopy \in Nat /\ ToCopy <= left /\ ToCopy <= FileSize - pos
        /\ ToCopy <= LeftInBlock /\ LeftInBlock = memFirst + BlockSize - pos
    BY <1>2, <1>3, FileSizeAssumption, BlockSizeAssumption
       DEF ToCopy, LeftInBlock, Least
  <1>5. /\ pos' \in Offsets /\ left' \in Nat
        /\ memFirst <= pos'
        /\ cpc' = "unlink" => pos' = memFirst + BlockSize
        /\ cpc' # "unlink" => pos' < memFirst + BlockSize
    BY <1>1, <1>2, <1>3, <1>4, FileSizeAssumption, BlockSizeAssumption
       DEF Offsets
  <1>6. Linked' = Linked /\ LinkedEnd' = LinkedEnd
    BY <1>1 DEF Linked, LinkedEnd
  <1>7. Ranges' /\ ReaderInv'
    BY <1>1, <1>5 DEF Ranges, OffsetOrNull, ReaderInv, EndOf, ToRead
  <1>8. BlocksInv' /\ EndsInv' /\ CountInv'
    BY <1>1, <1>6 DEF BlocksInv, EndsInv, CountInv
  <1>9. ConsumerInv'
    BY <1>1, <1>2, <1>5 DEF ConsumerInv, NULL
  <1>10. QED
    BY <1>7, <1>8, <1>9

\* The first block leaves the list; the second, if any, becomes the first.
LEMMA ChainUnlink ==
  ASSUME ChainInv, HandshakeInv, DisposeUnlink
  PROVE  ChainInv'
  <1> USE DEF ChainInv, threadVars, readerVars, aheadVars, errorVars,
              requestVars
  <1>1. /\ cpc = "unlink" /\ cpc' = "uncount" /\ rpc # "link"
        /\ memFirst # NULL /\ memFirst' = heap[memFirst].next
        /\ UNCHANGED <<readerVars, readaheadPos, memLast, blockCount, pos,
                       left, closing>>
    BY DEF DisposeUnlink, HandshakeInv, ConsumerInv
  <1>2. /\ DOMAIN heap' = DOMAIN heap \ {memFirst}
        /\ \A b \in DOMAIN heap' : heap'[b] = heap[b]
    BY DEF DisposeUnlink
  <1>3. /\ memFirst \in Linked /\ memFirst \in Nat /\ memFirst < FileSize
        /\ memLast \in Linked /\ memLast \in Nat
        /\ LinkedEnd = EndOf(memLast)
        /\ heap[memFirst].next = IF memFirst = memLast THEN NULL
                                                       ELSE memFirst + BlockSize
        /\ memFirst # memLast => memFirst + BlockSize \in Linked
    BY <1>1 DEF EndsInv, BlocksInv, Linked, Ranges
  <1>4. Linked' = Linked \ {memFirst} /\ LinkedEnd' = LinkedEnd
    BY <1>1, <1>2 DEF Linked, LinkedEnd
  <1>5. \A b \in Linked' : b \in Nat /\ b \in Linked /\ b \in DOMAIN heap'
                           /\ memFirst + BlockSize <= b /\ b <= memLast
    <2>1. ASSUME NEW b \in Linked' PROVE memFirst + BlockSize <= b
      <3>1. b \in Linked /\ b # memFirst /\ b \in Nat /\ memFirst <= b
        BY <1>4, <2>1 DEF Linked, Ranges, BlocksInv
      <3>2. QED
        BY <1>3, <3>1 DEF BlocksInv
    <2>2. QED
      BY <1>4, <2>1 DEF Linked, Ranges, BlocksInv
  <1>6. CountInv'
    <2>1. /\ IsFiniteSet(Linked')
          /\ Cardinality(Linked') = Cardinality(Linked) - 1
      BY <1>3, <1>4, FS_RemoveElement DEF CountInv
    <2>2. Cardinality(Linked) \in Nat
      BY FS_CardinalityType DEF CountInv
    <2>3. QED
      BY <1>1, <2>1, <2>2 DEF CountInv
  <1>7. CASE memFirst = memLast
    <2>1. Linked' = {} /\ memFirst' = NULL
      BY <1>1, <1>3, <1>5, <1>7, BlockSizeAssumption
    <2>2. ~closing => pos = LinkedEnd'
      <3>1. ASSUME ~closing PROVE pos = memFirst + BlockSize /\ pos <= FileSize
        BY <1>1, <3>1 DEF ConsumerInv, Ranges, Offsets
      <3>2. QED
        BY <1>3, <1>4, <1>7, <3>1, EndOfFacts
    <2>3. ConsumerInv'
      BY <1>1, <2>1, <2>2 DEF ConsumerInv
    <2>4. BlocksInv' /\ EndsInv'
      BY <1>1, <1>3, <2>1 DEF BlocksInv, EndsInv, NULL
    <2>5. OffsetOrNull(memFirst')
      BY <2>1 DEF OffsetOrNull
    <2>6. QED
      <3>1. Ranges'
        BY <1>1, <1>2, <2>5 DEF Ranges, OffsetOrNull
      <3>2. ReaderInv'
        BY <1>1, <1>2, <1>3 DEF ReaderInv, EndOf, ToRead, Linked
      <3>3. QED
        BY <1>6, <2>3, <2>4, <3>1, <3>2
  <1>8. CASE memFirst # memLast
    <2>1. /\ memFirst' = memFirst + BlockSize
          /\ memFirst' \in Linked' /\ memLast \in Linked'
          /\ memFirst' \in Nat /\ memFirst' < FileSize
      BY <1>1, <1>3, <1>4, <1>8, BlockSizeAssumption DEF Ranges, Linked
    <2>2. BlocksInv'
      <3>1. ASSUME NEW b \in Linked'
            PROVE  /\ b % BlockSize = 0
                   /\ heap'[b].from = b
                   /\ memFirst' <= b /\ b <= memLast'
                   /\ heap'[b].next = IF b = memLast' THEN NULL ELSE b + BlockSize
                   /\ b # memLast' => b + BlockSize \in Linked'
        <4>1. /\ b % BlockSize = 0
              /\ heap[b].from = b
              /\ heap[b].next = IF b = memLast THEN NULL ELSE b + BlockSize
              /\ b # memLast => b + BlockSize \in Linked
          BY <1>5, <3>1 DEF BlocksInv
        <4>2. b + BlockSize # memFirst
          BY <1>3, <1>5, <3>1, BlockSizeAssumption
        <4>3. QED
          BY <1>1, <1>2, <1>4, <1>5, <2>1, <3>1, <4>1, <4>2
      <3>2. \A b, c \in Linked' : b < c => b + BlockSize <= c
        BY <1>4 DEF BlocksInv
      <3>3. QED
        BY <3>1, <3>2 DEF BlocksInv
    <2>3. EndsInv'
      BY <1>1, <1>3, <1>4, <2>1 DEF EndsInv, NULL, EndOf
    <2>4. ConsumerInv'
      <3>1. ~closing => pos = memFirst'
        BY <1>1, <2>1 DEF ConsumerInv
      <3>2. QED
        BY <1>1, <2>1, <3>1, BlockSizeAssumption DEF ConsumerInv, NULL
    <2>5. QED
      <3>1. Ranges'
        BY <1>1, <1>2, <2>1, FileSizeAssumption
           DEF Ranges, OffsetOrNull, Offsets
      <3>2. ReaderInv'
        BY <1>1, <1>2, <1>3 DEF ReaderInv, EndOf, ToRead, Linked
      <3>3. QED
        BY <1>6, <2>2, <2>3, <2>4, <3>1, <3>2
  <1>9. QED
    BY <1>7, <1>8

\* memLast is reset with the last block, so the next append starts afresh.
LEMMA ChainUncount ==
  ASSUME ChainInv, HandshakeInv, DisposeCount
  PROVE  ChainInv'
  <1> USE DEF ChainInv, threadVars, readerVars, aheadVars, errorVars,
              requestVars
  <1>1. /\ cpc = "uncount" /\ cpc' \in {"drain", "iterate"} /\ rpc # "link"
        /\ closing <=> cpc' = "drain"
        /\ blockCount' = blockCount - 1
        /\ UNCHANGED <<readerVars, readaheadPos, heap, memFirst, pos, left,
                       closing>>
    BY DEF DisposeCount, HandshakeInv, Ranges
  <1>2. Linked' = Linked /\ LinkedEnd' = LinkedEnd
    BY <1>1 DEF Linked, LinkedEnd
  <1>3. /\ blockCount' = Cardinality(Linked) /\ Cardinality(Linked) \in Nat
        /\ IsFiniteSet(Linked)
        /\ (Cardinality(Linked) = 0) <=> (Linked = {})
    BY <1>1, FS_CardinalityType, FS_EmptySet DEF CountInv
  <1>4. memLast' = IF Linked = {} THEN NULL ELSE memLast
    BY <1>3 DEF DisposeCount, LastOf
  <1>5. (memFirst = NULL) <=> (Linked = {})
    BY DEF EndsInv
  <1>6. Ranges'
    BY <1>1, <1>3, <1>4, MaxBlocksAssumption DEF Ranges, OffsetOrNull
  <1>7. ReaderInv'
    BY <1>1, <1>3, MaxBlocksAssumption
       DEF ReaderInv, EndOf, ToRead, Ranges
  <1>8. BlocksInv' /\ EndsInv'
    BY <1>1, <1>2, <1>4, <1>5 DEF BlocksInv, EndsInv, EndOf
  <1>9. CountInv' /\ ConsumerInv'
    BY <1>1, <1>2, <1>3 DEF CountInv, ConsumerInv
  <1>10. QED
    BY <1>6, <1>7, <1>8, <1>9

LEMMA ChainStep ==
  HandshakeInv /\ ChainInv /\ [Next]_vars => ChainInv'
  <1> SUFFICES ASSUME HandshakeInv, ChainInv, [Next]_vars PROVE ChainInv'
    OBVIOUS
  <1>1. CASE UNCHANGED vars
    <2>1. UNCHANGED <<rpc, fdPos, rblock, readaheadPos, heap, memFirst,
                      memLast, blockCount, cpc, pos, left, cur, closing>>
      BY <1>1 DEF vars, threadVars, readerVars, aheadVars, listVars, errorVars,
                  consumerVars, requestVars
    <2>2. Linked' = Linked /\ LinkedEnd' = LinkedEnd
      BY <2>1 DEF Linked, LinkedEnd
    <2>3. QED
      BY <2>1, <2>2 DEF ChainInv, Ranges, OffsetOrNull, ReaderInv, BlocksInv,
                        EndsInv, CountInv, ConsumerInv, EndOf, ToRead
  <1>2. CASE ReaderStep \/ ErrorSpurious
    BY <1>2, ChainReaderQuiet, ChainFill, ChainAppendCount, ChainAppendLink
       DEF ReaderStep
  <1>3. CASE ConsumerStep \/ CopyFails \/ Close
    BY <1>3, ChainConsumerQuiet, ChainCopy, ChainUnlink, ChainUncount
       DEF ConsumerStep
  <1>4. CASE \E o \in {"read", "copy"}, n \in 0..MaxLen : Request(o, n)
    BY <1>4, ChainConsumerQuiet
  <1>5. QED
    BY <1>1, <1>2, <1>3, <1>4 DEF Next, Closed

THEOREM ChainSafe == Spec => []ChainInv
  BY ChainInit, ChainStep, HandshakeSafe, PTL DEF Spec

\* Whenever neither thread is in the critical section the list is exactly the
\* allocated blocks, in file order, each with the bytes it stands for.
THEOREM ListSafe == Spec => []ListIntact
  <1>1. HandshakeInv /\ ChainInv => ListIntact
    <2> SUFFICES ASSUME HandshakeInv, ChainInv, lock = "none"
                 PROVE  /\ blockCount = Cardinality(Linked)
                        /\ (memFirst = NULL) <=> (Linked = {})
                        /\ (memLast = NULL) <=> (Linked = {})
                        /\ memFirst # NULL =>
                             memFirst \in Linked /\ memLast \in Linked
                        /\ \A b \in Linked :
                             /\ memFirst <= b /\ b <= memLast
                             /\ heap[b].from = b
                             /\ heap[b].next = IF b = memLast THEN NULL
                                                              ELSE b + BlockSize
                             /\ b # memLast => b + BlockSize \in Linked
      BY DEF ListIntact
    <2>1. rpc # "link" /\ cpc # "uncount"
      BY DEF HandshakeInv
    <2>2. blockCount = Cardinality(Linked)
      BY <2>1, FS_CardinalityType DEF ChainInv, CountInv
    <2>3. /\ (memFirst = NULL) <=> (Linked = {})
          /\ memFirst # NULL => memFirst \in Linked /\ memLast \in Linked
          /\ Linked = {} => memLast = NULL
      BY <2>1 DEF ChainInv, EndsInv
    <2>4. \A b \in Linked : b # NULL
      BY DEF ChainInv, Ranges, Linked, NULL
    <2>5. QED
      BY <2>2, <2>3, <2>4 DEF ChainInv, BlocksInv
  <1>2. QED
    BY <1>1, HandshakeSafe, ChainSafe, PTL

\* The block the consumer copies from stays allocated and first, and holds
\* the bytes at the consumer's position, while the reader goes on appending.
THEOREM HeldBlockSafe == Spec => []HeldBlockIsCurrent
  <1>1. ChainInv => HeldBlockIsCurrent
    BY PositionInFirstBlock DEF HeldBlockIsCurrent, Linked, ChainInv, Ranges,
                                Offsets
  <1>2. QED
    BY <1>1, ChainSafe, PTL

\* The blocks in memory, the one being read included, fit the readahead.
THEOREM MemorySafe == Spec => []MemoryBounded
  <1>1. ChainInv => MemoryBounded
    <2> SUFFICES ASSUME ChainInv PROVE Cardinality(DOMAIN heap) <= MaxBlocks
      BY DEF MemoryBounded
    <2> USE DEF ChainInv
    <2>1. IsFiniteSet(Linked) /\ Cardinality(Linked) \in Nat
      BY FS_CardinalityType DEF CountInv
    <2>2. Cardinality(Linked) <= blockCount /\ blockCount <= MaxBlocks
      BY <2>1 DEF CountInv, Ranges
    <2>3. CASE rblock = NULL
      <3>1. Linked = DOMAIN heap
        BY <2>3 DEF Linked, Ranges, NULL
      <3>2. QED
        BY <2>1, <2>2, <3>1, MaxBlocksAssumption DEF Ranges
    <2>4. CASE rblock # NULL
      <3>1. DOMAIN heap = Linked \union {rblock} /\ rblock \notin Linked
        BY <2>4 DEF Linked, ReaderInv
      <3>2. Cardinality(DOMAIN heap) = Cardinality(Linked) + 1
        BY <2>1, <3>1, FS_AddElement
      <3>3. Cardinality(Linked) < MaxBlocks
        <4>1. CASE rpc = "append"
          BY <2>1, <2>2, <4>1, MaxBlocksAssumption DEF ReaderInv, Ranges
        <4>2. CASE rpc = "link"
          BY <2>1, <2>2, <4>2, MaxBlocksAssumption DEF CountInv, Ranges
        <4>3. QED
          BY <2>4, <4>1, <4>2 DEF ReaderInv
      <3>4. QED
        BY <2>1, <3>2, <3>3, MaxBlocksAssumption
    <2>5. QED
      BY <2>3, <2>4
  <1>2. QED
    BY <1>1, ChainSafe, PTL

(***************************************************************************)
(* The threaded reader implements ByteStream: each of its steps is a step  *)
(* of the stream or leaves the stream alone, for every size of the file,   *)
(* of the blocks and of the readahead.                                     *)
(***************************************************************************)

\* What TypeOK says beyond ChainInv and HandshakeInv.
TypeInv ==
  /\ rpc \in {"loop", "room", "fill", "append", "link", "error", "errorTest",
              "errorWait", "complete", "exited"}
  /\ fdPos \in Offsets
  /\ errors \in 0..MaxErrors
  /\ readaheadComplete \in BOOLEAN
  /\ errorReaction \in {"NONE"} \union Reactions
  /\ cpc \in {"idle", "iterate", "waitCount", "waitComplete", "waitError",
              "answer", "get", "copy", "unlink", "uncount", "join", "drain",
              "closed"}
  /\ op \in {"read", "copy"}
  /\ start \in Offsets
  /\ left \in 0..MaxLen
  /\ out \in Seq(Offsets)
  /\ cur \in Offsets \union {NULL}
  /\ result \in BOOLEAN
  /\ \A b \in DOMAIN heap :
       heap[b] \in [from : Offsets, next : Offsets \union {NULL}]

LEMMA TypeInit == Init => TypeInv
  <1> SUFFICES ASSUME Init PROVE TypeInv
    OBVIOUS
  <1>1. 0 \in Offsets
    BY FileSizeAssumption DEF Offsets
  <1>2. DOMAIN heap = {}
    BY DEF Init
  <1>3. 0 \in 0..MaxErrors /\ 0 \in 0..MaxLen /\ << >> \in Seq(Offsets)
    BY BoundsAssumption
  <1>4. \A b \in DOMAIN heap :
          heap[b] \in [from : Offsets, next : Offsets \union {NULL}]
    BY <1>2
  <1>5. QED
    BY <1>1, <1>3, <1>4 DEF Init, TypeInv

\* Everything the reader does to its descriptor and to the blocks is in range.
LEMMA TypeReader ==
  ASSUME ChainInv, TypeInv, ReaderStep \/ ErrorSpurious
  PROVE  TypeInv'
  <1> USE DEF TypeInv, aheadVars, listVars, errorVars, consumerVars, requestVars
  <1>1. /\ readaheadPos \in Offsets /\ fdPos \in Offsets
        /\ ToRead \in Int /\ ToRead <= FileSize - readaheadPos
    BY FileSizeAssumption, BlockSizeAssumption
       DEF ChainInv, Ranges, Offsets, ToRead, Least
  <1>2. CASE FillBlock
    <2>1. fdPos' \in Offsets /\ UNCHANGED <<errors, consumerVars>>
      <3>1. readaheadPos < FileSize /\ fdPos = readaheadPos
        BY <1>2 DEF FillBlock, ChainInv, ReaderInv
      <3>2. ToRead > 0
        BY <1>1, <3>1, BlockSizeAssumption, FileSizeAssumption
           DEF ToRead, Least, Offsets
      <3>3. QED
        BY <1>1, <1>2, <3>1, <3>2, FileSizeAssumption DEF FillBlock, Offsets
    <2>2. \A b \in DOMAIN heap' :
            heap'[b] \in [from : Offsets, next : Offsets \union {NULL}]
      BY <1>2 DEF FillBlock
    <2>3. QED
      BY <1>2, <2>1, <2>2 DEF FillBlock
  <1>3. CASE FillFails
    <2>1. fdPos' \in Offsets /\ errors' \in 0..MaxErrors
      BY <1>1, <1>3, FileSizeAssumption, BoundsAssumption
         DEF FillFails, Offsets
    <2>2. QED
      BY <1>3, <2>1 DEF FillFails
  <1>4. CASE AppendLink
    <2>1. rblock \in Offsets
      BY <1>4 DEF AppendLink, ChainInv, ReaderInv, Ranges, OffsetOrNull
    <2>2. \A b \in DOMAIN heap' :
            heap'[b] \in [from : Offsets, next : Offsets \union {NULL}]
      BY <1>4, <2>1 DEF AppendLink
    <2>3. QED
      BY <1>4, <2>2 DEF AppendLink
  <1>5. CASE ErrorObey
    BY <1>1, <1>5 DEF ErrorObey, AfterReaction, RetryFrom
  <1>6. ASSUME ThreadLoop \/ ThreadRoom \/ AppendCount \/ ThreadExit
        PROVE  TypeInv'
    BY <1>6 DEF ThreadLoop, ThreadRoom, AppendCount, ThreadExit
  <1>7. ASSUME ErrorRaise \/ ErrorWait \/ ErrorSignalled \/ ErrorSpurious
        PROVE  TypeInv'
    BY <1>7 DEF ErrorRaise, ErrorWait, ErrorSignalled, ErrorSpurious, WakeUp
  <1>8. QED
    BY <1>2, <1>3, <1>4, <1>5, <1>6, <1>7 DEF ReaderStep

\* The bytes a Copy step takes are the next ones of the file.
LEMMA ChunkIsNext ==
  ASSUME ChainInv, TypeInv, cpc = "copy"
  PROVE  /\ ToCopy \in 0..MaxLen
         /\ ToCopy <= left /\ pos + ToCopy <= FileSize
         /\ Chunk = [i \in 1..ToCopy |-> pos + i - 1]
         /\ Chunk \in Seq(Offsets)
  <1>1. /\ memFirst \in Nat /\ memFirst <= pos /\ pos < memFirst + BlockSize
        /\ PositionInBlock = pos - memFirst
        /\ heap[cur].from = memFirst
    BY PositionInFirstBlock
  <1>2. pos \in Nat /\ pos <= FileSize /\ left \in 0..MaxLen
    BY DEF ChainInv, Ranges, Offsets, TypeInv
  <1>3. ToCopy \in Nat /\ ToCopy <= left /\ ToCopy <= FileSize - pos
    BY <1>1, <1>2, FileSizeAssumption, BlockSizeAssumption, BoundsAssumption
       DEF ToCopy, LeftInBlock, Least
  <1>4. ASSUME NEW i \in 1..ToCopy
        PROVE  /\ heap[cur].from + PositionInBlock + i - 1 = pos + i - 1
               /\ pos + i - 1 \in Offsets
    BY <1>1, <1>2, <1>3, <1>4, FileSizeAssumption DEF Offsets
  <1>5. Chunk = [i \in 1..ToCopy |-> pos + i - 1]
    BY <1>4 DEF Chunk
  <1>6. [i \in 1..ToCopy |-> pos + i - 1] \in Seq(Offsets)
    BY <1>3, <1>4
  <1>7. QED
    BY <1>2, <1>3, <1>5, <1>6, FileSizeAssumption, BoundsAssumption

\* What a failed write leaves behind is more of the next bytes.
LEMMA FailedCopy ==
  ASSUME ChainInv, TypeInv, CopyFails
  PROVE  /\ out' \in Seq(Offsets)
         /\ \E n \in 0..left : pos + n <= FileSize /\ out' = out \o Stream!Bytes(pos, n)
  <1>1. PICK k \in 0..ToCopy : out' = out \o SubSeq(Chunk, 1, k)
    BY DEF CopyFails
  <1>2. /\ ToCopy \in Nat /\ ToCopy <= left /\ pos + ToCopy <= FileSize
        /\ Chunk = [i \in 1..ToCopy |-> pos + i - 1] /\ Chunk \in Seq(Offsets)
    BY ChunkIsNext, BoundsAssumption DEF CopyFails
  <1>3. Len(Chunk) = ToCopy
    BY <1>2
  <1>4. SubSeq(Chunk, 1, k) = [i \in 1..k |-> pos + i - 1]
    <2>1. SubSeq(Chunk, 1, k) = [i \in 1..k |-> Chunk[i]]
      BY <1>2, <1>3
    <2>2. \A i \in 1..k : Chunk[i] = pos + i - 1
      BY <1>2
    <2>3. QED
      BY <2>1, <2>2
  <1>5. SubSeq(Chunk, 1, k) \in Seq(Offsets)
    BY <1>2, <1>3
  <1>6. out' \in Seq(Offsets)
    BY <1>1, <1>5 DEF TypeInv
  <1>7. k \in 0..left /\ pos + k <= FileSize
    BY <1>2, FileSizeAssumption, BoundsAssumption DEF ChainInv, Ranges, Offsets, TypeInv
  <1>8. QED
    BY <1>1, <1>4, <1>6, <1>7 DEF Stream!Bytes

LEMMA OverwriteType ==
  ASSUME NEW buffer \in Seq(Offsets), NEW piece \in Seq(Offsets)
  PROVE  Overwrite(buffer, piece) \in Seq(Offsets)
  <1> DEFINE n == IF Len(piece) > Len(buffer) THEN Len(piece) ELSE Len(buffer)
  <1>1. n \in Nat
    OBVIOUS
  <1>2. \A i \in 1..n : (IF i <= Len(piece) THEN piece[i] ELSE buffer[i]) \in Offsets
    OBVIOUS
  <1>3. QED
    BY <1>1, <1>2 DEF Overwrite

LEMMA TypeConsumer ==
  ASSUME ChainInv, TypeInv,
         \/ ConsumerStep \/ CopyFails \/ Close
         \/ \E o \in {"read", "copy"}, n \in 0..MaxLen : Request(o, n)
  PROVE  TypeInv'
  <1> USE DEF TypeInv, threadVars, readerVars, aheadVars, listVars, errorVars,
              requestVars
  <1>1. ASSUME NEW r \in Reactions, Answer(r)
        PROVE  TypeInv'
    BY <1>1 DEF Answer, Acknowledge, Return
  <1>2. CASE Copy
    <2>1. /\ ToCopy \in Nat /\ ToCopy <= left /\ Chunk \in Seq(Offsets)
      BY <1>2, ChunkIsNext DEF Copy
    <2>2. left' \in 0..MaxLen
      BY <1>2, <2>1, BoundsAssumption DEF Copy
    <2>3. out' \in Seq(Offsets)
      BY <1>2, <2>1, OverwriteType DEF Copy
    <2>4. QED
      BY <1>2, <2>2, <2>3 DEF Copy
  <1>3. CASE GetBlock
    BY <1>3 DEF GetBlock, Return, ChainInv, Ranges, OffsetOrNull
  <1>4. CASE DisposeUnlink
    <2>1. \A b \in DOMAIN heap' :
            heap'[b] \in [from : Offsets, next : Offsets \union {NULL}]
      BY <1>4 DEF DisposeUnlink
    <2>2. QED
      BY <1>4, <2>1 DEF DisposeUnlink
  <1>5. ASSUME Iterate \/ CopyFails \/ DisposeCount
        PROVE  TypeInv'
    <2>1. out' \in Seq(Offsets)
      BY <1>5, FailedCopy DEF Iterate, DisposeCount
    <2>2. QED
      BY <1>5, <2>1 DEF Iterate, CopyFails, DisposeCount, Return
  <1>6. ASSUME WaitCount \/ WaitComplete \/ WaitError
        PROVE  TypeInv'
    BY <1>6 DEF WaitCount, WaitComplete, WaitError
  <1>7. ASSUME Close \/ CloseJoin \/ CloseDrain
        PROVE  TypeInv'
    BY <1>7 DEF Close, CloseJoin, CloseDrain
  <1>8. ASSUME NEW o \in {"read", "copy"}, NEW n \in 0..MaxLen, Request(o, n)
        PROVE  TypeInv'
    <2>1. << >> \in Seq(Offsets)
      OBVIOUS
    <2>2. pos \in Offsets
      BY DEF ChainInv, Ranges
    <2>3. cpc' \in {"idle", "iterate"} /\ result' \in BOOLEAN
      BY <1>8 DEF Request, Return
    <2>4. QED
      BY <1>8, <2>1, <2>2, <2>3 DEF Request
  <1>9. QED
    BY <1>1, <1>2, <1>3, <1>4, <1>5, <1>6, <1>7, <1>8 DEF ConsumerStep

LEMMA TypeStep == ChainInv /\ TypeInv /\ [Next]_vars => TypeInv'
  <1>1. ASSUME TypeInv, UNCHANGED vars PROVE TypeInv'
    BY <1>1 DEF TypeInv, vars, threadVars, readerVars, aheadVars, listVars,
                errorVars, consumerVars, requestVars
  <1>2. QED
    BY <1>1, TypeReader, TypeConsumer DEF Next, Closed

THEOREM TypeInvSafe == Spec => []TypeInv
  BY TypeInit, TypeStep, ChainSafe, PTL DEF Spec

\* Every variable of the reader stays in its range.
THEOREM TypeSafe == Spec => []TypeOK
  <1>1. HandshakeInv /\ ChainInv /\ TypeInv => TypeOK
    <2> SUFFICES ASSUME HandshakeInv, ChainInv, TypeInv PROVE TypeOK
      OBVIOUS
    <2>1. DOMAIN heap \subseteq Offsets
      BY FileSizeAssumption DEF ChainInv, Ranges, Offsets
    <2>2. blockCount \in 0..MaxBlocks
      BY MaxBlocksAssumption DEF ChainInv, Ranges
    <2>3. QED
      BY <2>1, <2>2
         DEF HandshakeInv, ChainInv, Ranges, OffsetOrNull, TypeInv, TypeOK
  <1>2. QED
    BY <1>1, HandshakeSafe, ChainSafe, TypeInvSafe, PTL

-----------------------------------------------------------------------------
\* What the stream calls its status.
Status == IF closing THEN "closed" ELSE IF cpc = "idle" THEN "idle" ELSE "busy"

LEMMA StreamInit == Init => Stream!Init
  BY DEF Init, Stream!Init

\* A step that leaves these alone is invisible to the stream.
LEMMA StreamStutter ==
  ASSUME UNCHANGED <<pos, left, op, out, result>>, Status' = Status
  PROVE  UNCHANGED Stream!vars
  BY DEF Stream!vars, Status

\* A call that ends with r: every way out of a request says truthfully
\* whether all the bytes were handed over.
LEMMA StreamFinish ==
  ASSUME ~closing, ~closing', cpc # "idle", cpc' = "idle",
         UNCHANGED <<pos, left, op, out>>, result' = (left = 0)
  PROVE  Stream!Next
  BY DEF Stream!Next, Stream!Finish

LEMMA StreamConsumer ==
  ASSUME ChainInv, TypeInv,
         \/ ConsumerStep \/ CopyFails \/ Close
         \/ \E o \in {"read", "copy"}, n \in 0..MaxLen : Request(o, n)
  PROVE  Stream!Next \/ UNCHANGED Stream!vars
  <1> USE DEF requestVars
  <1>1. closing => cpc \in {"join", "drain", "closed", "unlink", "uncount"}
    BY DEF ChainInv, ConsumerInv
  <1>2. cpc \in {"get", "answer", "copy"} => left > 0 /\ left # 0
    BY DEF ChainInv, ConsumerInv, Ranges
  <1>3. CASE Iterate
    <2>1. CASE left = 0
      BY <1>1, <1>3, <2>1, StreamFinish DEF Iterate, Return
    <2>2. CASE left # 0
      BY <1>3, <2>2, StreamStutter DEF Iterate, Status
    <2>3. QED
      BY <2>1, <2>2
  <1>4. CASE WaitCount \/ WaitComplete \/ WaitError
    BY <1>4, StreamStutter DEF WaitCount, WaitComplete, WaitError, Status
  <1>5. ASSUME NEW r \in Reactions, Answer(r)
        PROVE  Stream!Next \/ UNCHANGED Stream!vars
    <2>1. CASE r = "CANCEL"
      BY <1>1, <1>2, <1>5, <2>1, StreamFinish DEF Answer, Return
    <2>2. CASE r # "CANCEL"
      BY <1>5, <2>2, StreamStutter DEF Answer, Status
    <2>3. QED
      BY <2>1, <2>2
  <1>6. CASE GetBlock
    <2>1. CASE memFirst = NULL
      BY <1>1, <1>2, <1>6, <2>1, StreamFinish DEF GetBlock, Return
    <2>2. CASE memFirst # NULL
      BY <1>6, <2>2, StreamStutter DEF GetBlock, Status
    <2>3. QED
      BY <2>1, <2>2
  <1>7. CASE CopyFails
    <2>1. PICK n \in 0..left : pos + n <= FileSize /\ out' = out \o Stream!Bytes(pos, n)
      BY <1>7, FailedCopy
    <2>2. Stream!FailToCopy
      BY <1>1, <1>2, <1>7, <2>1 DEF CopyFails, Return, Stream!FailToCopy
    <2>3. QED
      BY <2>2 DEF Stream!Next
  <1>8. CASE Copy
    <2>1. /\ ToCopy \in 0..MaxLen /\ ToCopy <= left
          /\ pos + ToCopy <= FileSize
          /\ Chunk = [i \in 1..ToCopy |-> pos + i - 1]
      BY <1>8, ChunkIsNext DEF Copy
    <2>2. Stream!Bytes(pos, ToCopy) = Chunk
      BY <2>1 DEF Stream!Bytes
    <2>3. Stream!Deliver(ToCopy)
      BY <1>1, <1>8, <2>1, <2>2 DEF Copy, Stream!Deliver
    <2>4. QED
      BY <2>1, <2>3 DEF Stream!Next
  <1>9. CASE DisposeUnlink \/ DisposeCount
    BY <1>9, StreamStutter DEF DisposeUnlink, DisposeCount, Status
  <1>10. CASE Close
    <2>1. Stream!Close
      BY <1>1, <1>10 DEF Close, Stream!Close
    <2>2. QED
      BY <2>1 DEF Stream!Next
  <1>11. CASE CloseJoin \/ CloseDrain
    BY <1>11, StreamStutter DEF CloseJoin, CloseDrain, Status, ChainInv,
                                ConsumerInv
  <1>12. ASSUME NEW o \in {"read", "copy"}, NEW n \in 0..MaxLen, Request(o, n)
         PROVE  Stream!Next \/ UNCHANGED Stream!vars
    <2>1. ~closing /\ ~closing'
      BY <1>1, <1>12 DEF Request
    <2>2. CASE pos >= FileSize
      BY <1>12, <2>1, <2>2
         DEF Request, Return, Stream!Next, Stream!Reject, Stream!Start
    <2>3. CASE ~(pos >= FileSize)
      <3>1. pos < FileSize
        BY <2>3, FileSizeAssumption DEF ChainInv, Ranges, Offsets
      <3>2. QED
        BY <1>12, <2>1, <2>3, <3>1
           DEF Request, Stream!Next, Stream!Accept, Stream!Start
    <2>4. QED
      BY <2>2, <2>3
  <1>13. QED
    BY <1>3, <1>4, <1>5, <1>6, <1>7, <1>8, <1>9, <1>10, <1>11, <1>12
       DEF ConsumerStep

\* The reader thread is invisible to the stream.
LEMMA StreamReader ==
  ASSUME ReaderStep \/ ErrorSpurious
  PROVE  UNCHANGED Stream!vars
  <1>1. UNCHANGED consumerVars
    BY DEF ReaderStep, ThreadLoop, ThreadRoom, FillBlock, FillFails,
           AppendCount, AppendLink, ErrorRaise, ErrorWait, ErrorSignalled,
           ErrorSpurious, WakeUp, ErrorObey, ThreadExit
  <1>2. QED
    BY <1>1, StreamStutter DEF consumerVars, requestVars, Status

\* To its caller the threaded reader is a sequential stream.
THEOREM ReaderIsStream == Spec => IsStream
  <1>1. ChainInv /\ TypeInv /\ [Next]_vars => [Stream!Next]_(Stream!vars)
    <2>1. ASSUME UNCHANGED vars PROVE UNCHANGED Stream!vars
      BY <2>1, StreamStutter DEF vars, consumerVars, requestVars, Status
    <2>2. QED
      BY <2>1, StreamReader, StreamConsumer DEF Next, Closed
  <1>2. QED
    BY <1>1, StreamInit, ChainSafe, TypeInvSafe, PTL
       DEF Spec, IsStream, Stream!Spec

-----------------------------------------------------------------------------
\* Where the block ends that holds the first byte of the request.
FirstEnd == (start - (start % BlockSize)) + BlockSize

\* A read that has left its first block has overwritten its buffer; until
\* then the buffer holds what was read.  More than one piece is only copied
\* behind the end of that block.
ReadInv ==
  op = "read" =>
    /\ start <= pos
    /\ pos <= FirstEnd => out = [i \in 1..(pos - start) |-> start + i - 1]
    /\ pos > start /\ left > 0 => pos >= FirstEnd \/ pos = FileSize

LEMMA ReadInit == Init => ReadInv
  BY DEF Init, ReadInv

LEMMA OverwriteNothing ==
  ASSUME NEW buffer \in Seq(Offsets)
  PROVE  Overwrite(buffer, << >>) = buffer
  <1>1. Len(buffer) \in Nat /\ buffer = [i \in 1..Len(buffer) |-> buffer[i]] /\ Len(<< >>) = 0
    OBVIOUS
  <1>2. QED
    BY <1>1 DEF Overwrite

LEMMA OverwriteEmpty ==
  ASSUME NEW piece \in Seq(Offsets)
  PROVE  Overwrite(<< >>, piece) = piece
  <1>1. Len(piece) \in Nat /\ piece = [i \in 1..Len(piece) |-> piece[i]] /\ Len(<< >>) = 0
    OBVIOUS
  <1>2. QED
    BY <1>1 DEF Overwrite

LEMMA ReadCopy ==
  ASSUME ChainInv, TypeInv, ReadInv, Copy, op = "read"
  PROVE  ReadInv'
  <1>1. /\ ToCopy \in Nat /\ ToCopy <= left /\ pos + ToCopy <= FileSize
        /\ Chunk = [i \in 1..ToCopy |-> pos + i - 1]
        /\ Chunk \in Seq(Offsets)
    BY ChunkIsNext, BoundsAssumption DEF Copy
  <1>2. /\ start \in Nat /\ pos \in Nat /\ left \in Nat /\ FileSize \in Nat
        /\ out \in Seq(Offsets) /\ start <= pos /\ BlockSize \in Nat
    BY FileSizeAssumption, BlockSizeAssumption, BoundsAssumption
       DEF ChainInv, Ranges, Offsets, TypeInv, ReadInv
  <1>b. start % BlockSize \in 0..(BlockSize - 1)
    BY <1>2, DivMod, BlockSizeAssumption
  <1>3. PICK a \in 0..(BlockSize - 1) : a = start % BlockSize
    BY <1>b, Zenon
  <1>a. FirstEnd = (start - a) + BlockSize
    BY <1>3, Zenon DEF FirstEnd
  <1>4. /\ op' = "read" /\ start' = start /\ pos' = pos + ToCopy /\ left' = left - ToCopy
        /\ out' = Overwrite(out, Chunk)
    BY DEF Copy
  <1>5. FirstEnd' = FirstEnd /\ FirstEnd \in Int
    BY <1>2, <1>a, <1>4 DEF FirstEnd
  <1>6. CASE ToCopy = 0
    <2>1. Chunk = << >>
      BY <1>1, <1>6
    <2>2. out' = out /\ pos' = pos /\ left' = left
      BY <1>2, <1>4, <1>6, <2>1, OverwriteNothing
    <2>3. QED
      BY <1>4, <1>5, <2>2 DEF ReadInv
  <1>7. CASE ToCopy > 0 /\ pos > start
    <2>1. pos >= FirstEnd
      BY <1>1, <1>2, <1>7 DEF ReadInv
    <2>2. pos' > FirstEnd'
      BY <1>1, <1>2, <1>4, <1>5, <1>7, <2>1
    <2>3. QED
      BY <1>1, <1>2, <1>4, <1>5, <2>2 DEF ReadInv
  <1>8. CASE pos = start
    <2>1. out = << >>
      <3>2. pos <= FirstEnd
        BY <1>2, <1>8, <1>a
      <3>3. QED
        BY <1>2, <1>8, <3>2 DEF ReadInv
    <2>2. out' = [i \in 1..(pos' - start') |-> start' + i - 1]
      <3>1. out' = Chunk
        BY <1>1, <1>4, <2>1, OverwriteEmpty
      <3>2. pos' - start' = ToCopy
        BY <1>1, <1>2, <1>4, <1>8
      <3>3. QED
        BY <1>1, <1>4, <1>8, <3>1, <3>2
    <2>3. left' > 0 => pos' >= FirstEnd' \/ pos' = FileSize
      <3>1. FirstEnd = pos + LeftInBlock /\ LeftInBlock \in Nat
        <4>1. LeftInBlock = BlockSize - a
          BY <1>3, <1>8 DEF LeftInBlock, PositionInBlock
        <4>2. QED
          BY <1>2, <1>8, <1>a, <4>1
      <3>2. ToCopy = left \/ ToCopy = FileSize - pos \/ ToCopy = LeftInBlock
        BY DEF ToCopy, Least
      <3>3. QED
        BY <1>1, <1>2, <1>4, <1>5, <3>1, <3>2
    <2>4. QED
      BY <1>1, <1>2, <1>4, <2>2, <2>3 DEF ReadInv
  <1>9. QED
    BY <1>1, <1>2, <1>6, <1>7, <1>8

LEMMA ReadStep == ChainInv /\ TypeInv /\ ReadInv /\ [Next]_vars => ReadInv'
  <1> SUFFICES ASSUME ChainInv, TypeInv, ReadInv, [Next]_vars PROVE ReadInv'
    OBVIOUS
  <1>1. ASSUME UNCHANGED <<pos, op, start, left, out>> PROVE ReadInv'
    BY <1>1 DEF ReadInv, FirstEnd
  <1>2. CASE Copy
    <2>1. CASE op = "read"
      BY <1>2, <2>1, ReadCopy
    <2>2. CASE op # "read"
      BY <1>2, <2>2 DEF Copy, ReadInv
    <2>3. QED
      BY <2>1, <2>2
  <1>3. ASSUME NEW o \in {"read", "copy"}, NEW n \in 0..MaxLen, Request(o, n)
        PROVE  ReadInv'
    <2>1. start' = pos /\ pos' = pos /\ out' = << >> /\ pos \in Nat
      BY <1>3, FileSizeAssumption DEF Request, ChainInv, Ranges, Offsets
    <2>2. pos' - start' = 0
      BY <2>1
    <2>3. out' = [i \in 1..(pos' - start') |-> start' + i - 1]
      BY <2>1, <2>2
    <2>4. QED
      BY <2>1, <2>3 DEF ReadInv
  <1>4. ASSUME ReaderStep \/ ErrorSpurious
        PROVE  UNCHANGED <<pos, op, start, left, out>>
    BY <1>4 DEF ReaderStep, ThreadLoop, ThreadRoom, FillBlock, FillFails, AppendCount, AppendLink,
       ErrorRaise, ErrorWait, ErrorSignalled, ErrorSpurious, WakeUp, ErrorObey, ThreadExit,
       consumerVars, requestVars
  <1>5. ASSUME \/ Iterate \/ WaitCount \/ WaitComplete \/ WaitError \/ GetBlock
               \/ DisposeUnlink \/ DisposeCount \/ CloseJoin \/ CloseDrain \/ Close
               \/ \E r \in Reactions : Answer(r)
        PROVE  UNCHANGED <<pos, op, start, left, out>>
    BY <1>5 DEF Iterate, WaitCount, WaitComplete, WaitError, GetBlock, DisposeUnlink, DisposeCount,
       CloseJoin, CloseDrain, Close, Answer, requestVars
  <1>6. ASSUME UNCHANGED vars PROVE UNCHANGED <<pos, op, start, left, out>>
    BY <1>6 DEF vars, consumerVars, requestVars
  <1>7. CASE CopyFails
    BY <1>7 DEF CopyFails, ReadInv
  <1>8. QED
    BY <1>1, <1>2, <1>3, <1>4, <1>5, <1>6, <1>7 DEF Next, ConsumerStep, Closed

\* A read that stays within one block leaves the wanted bytes in its buffer.
THEOREM ReadSafe == Spec => []ReadDelivers
  <1>1. ChainInv /\ TypeInv /\ ReadInv => ReadDelivers
    <2> SUFFICES ASSUME ChainInv, TypeInv, ReadInv, op = "read", pos > start,
                        start \div BlockSize = (pos - 1) \div BlockSize
                 PROVE  out = [i \in 1..(pos - start) |-> start + i - 1]
      BY DEF ReadDelivers
    <2>1. start \in Nat /\ pos \in Nat /\ pos - 1 \in Nat /\ BlockSize \in Nat \ {0}
      BY FileSizeAssumption, BlockSizeAssumption DEF ChainInv, Ranges, Offsets, TypeInv
    <2>2. pos <= FirstEnd
      <3> DEFINE k == start \div BlockSize
             m == BlockSize * k
             a == start % BlockSize
             b == (pos - 1) % BlockSize
      <3>1. start = m + a /\ a \in 0..(BlockSize - 1)
        BY <2>1, DivMod
      <3>2. pos - 1 = m + b /\ b \in 0..(BlockSize - 1)
        BY <2>1, DivMod
      <3>3. FirstEnd = (start - a) + BlockSize
        BY Zenon DEF FirstEnd
      <3> HIDE DEF k, a, b
      <3>4. m \in Int
        <4>1. k \in Int
          BY <2>1, DivMod DEF k
        <4>2. QED
          BY <2>1, <4>1
      <3> HIDE DEF m
      <3>5. QED
        BY <2>1, <3>1, <3>2, <3>3, <3>4
    <2>3. QED
      BY <2>2 DEF ReadInv
  <1>2. QED
    BY <1>1, ReadInit, ReadStep, ChainSafe, TypeInvSafe, PTL DEF Spec

-----------------------------------------------------------------------------
\* When the readahead is over, and what it takes for the consumer to go to the
\* list: there is a block, or there will be none.
CancelInv ==
  /\ errorReaction = "CANCEL" => rpc \in Waiting \union {"complete", "exited"}
  /\ readaheadComplete => rpc = "exited"
  /\ rpc \in {"complete", "exited"} => errorReaction = "CANCEL" \/ closing \/ readaheadPos = FileSize
  /\ cpc = "get" => blockCount > 0 \/ readaheadComplete

LEMMA CancelInit == Init => CancelInv
  BY DEF Init, CancelInv

LEMMA CancelReader ==
  ASSUME HandshakeInv, ChainInv, CancelInv, ReaderStep \/ ErrorSpurious
  PROVE  CancelInv'
  <1> USE DEF CancelInv, Waiting, aheadVars, listVars, errorVars, consumerVars
  <1>1. CASE ThreadLoop
    <2>1. ~Continue => closing \/ readaheadPos = FileSize
      BY FileSizeAssumption DEF Continue, ChainInv, Ranges, Offsets
    <2>2. QED
      BY <1>1, <2>1 DEF ThreadLoop
  <1>2. CASE AppendCount
    BY <1>2 DEF AppendCount, ChainInv, Ranges
  <1>3. CASE ErrorObey
    BY <1>3 DEF ErrorObey, AfterReaction
  <1>4. CASE ThreadRoom \/ FillBlock \/ FillFails \/ AppendLink
    BY <1>4 DEF ThreadRoom, FillBlock, FillFails, AppendLink
  <1>5. CASE ErrorRaise \/ ErrorWait \/ ErrorSignalled \/ ErrorSpurious \/ ThreadExit
    BY <1>5 DEF ErrorRaise, ErrorWait, ErrorSignalled, ErrorSpurious, WakeUp, ThreadExit
  <1>6. QED
    BY <1>1, <1>2, <1>3, <1>4, <1>5 DEF ReaderStep

LEMMA CancelConsumer ==
  ASSUME HandshakeInv, ChainInv, CancelInv, MaxBlocks >= 2,
         \/ ConsumerStep \/ CopyFails \/ Close
         \/ \E o \in {"read", "copy"}, n \in 0..MaxLen : Request(o, n)
  PROVE  CancelInv'
  <1> USE DEF CancelInv, Waiting, threadVars, readerVars, aheadVars, listVars, errorVars, requestVars
  <1>1. Threshold >= 1
    <2>1. MaxBlocks \div 2 >= 1 /\ MaxBlocks \div 2 \in Int
      BY MaxBlocksAssumption
    <2>2. QED
      BY <2>1 DEF Threshold, Least
  <1>2. CASE WaitCount
    <2>1. ~(blockCount < Threshold) => blockCount > 0
      <3>1. Threshold \in Int
        BY MaxBlocksAssumption DEF Threshold, Least
      <3>2. QED
        BY <1>1, <3>1 DEF ChainInv, Ranges
    <2>2. QED
      BY <1>2, <2>1 DEF WaitCount
  \* Who answers is answering a reader that waits.
  <1>3. ASSUME NEW r \in Reactions, Answer(r)
        PROVE  CancelInv'
    <2>1. rpc \in Waiting
      BY <1>3 DEF Answer, HandshakeInv
    <2>2. QED
      BY <1>3, <2>1 DEF Answer, Acknowledge, Return
  <1>4. CASE Iterate \/ WaitComplete \/ WaitError \/ GetBlock
    BY <1>4 DEF Iterate, WaitComplete, WaitError, GetBlock, Return
  <1>5. CASE Copy \/ CopyFails \/ DisposeUnlink \/ DisposeCount
    BY <1>5 DEF Copy, CopyFails, DisposeUnlink, DisposeCount, Return
  <1>6. CASE Close \/ CloseJoin \/ CloseDrain
    BY <1>6 DEF Close, CloseJoin, CloseDrain
  <1>7. ASSUME NEW o \in {"read", "copy"}, NEW n \in 0..MaxLen, Request(o, n)
        PROVE  CancelInv'
    BY <1>7 DEF Request, Return
  <1>8. QED
    BY <1>2, <1>3, <1>4, <1>5, <1>6, <1>7 DEF ConsumerStep

\* A request is given no block only after the user cancelled or at the end of
\* the file, and once he has cancelled nothing is appended.
THEOREM CancelSafe ==
  ASSUME MaxBlocks >= 2
  PROVE  Spec => CancelIsFinal
  <1>1. HandshakeInv /\ ChainInv /\ CancelInv /\ [Next]_vars => CancelInv'
    <2>1. ASSUME CancelInv, UNCHANGED vars PROVE CancelInv'
      BY <2>1 DEF CancelInv, vars, threadVars, readerVars, aheadVars, listVars, errorVars, consumerVars
    <2>2. QED
      BY <2>1, CancelReader, CancelConsumer DEF Next, Closed
  <1>2. HandshakeInv /\ ChainInv /\ CancelInv /\ [Next]_vars =>
          [cpc = "get" /\ cpc' = "idle" => errorReaction = "CANCEL" \/ pos >= FileSize]_vars
    <2> SUFFICES ASSUME HandshakeInv, ChainInv, CancelInv, Next, cpc = "get", cpc' = "idle"
                 PROVE  errorReaction = "CANCEL" \/ pos >= FileSize
      OBVIOUS
    <2>1. GetBlock
      <3>1. ASSUME ReaderStep \/ ErrorSpurious PROVE cpc' = cpc
        BY <3>1 DEF ReaderStep, ThreadLoop, ThreadRoom, FillBlock, FillFails, AppendCount, AppendLink,
           ErrorRaise, ErrorWait, ErrorSignalled, ErrorSpurious, WakeUp, ErrorObey, ThreadExit, consumerVars
      <3>2. QED
        BY <3>1 DEF Next, ConsumerStep, Iterate, WaitCount, WaitComplete, WaitError, Answer, Copy,
           DisposeUnlink, DisposeCount, CloseJoin, CloseDrain, CopyFails, Request, Close, Closed
    <2>2. lock = "none" /\ memFirst = NULL
      BY <2>1 DEF GetBlock
    <2>3. Linked = {} /\ rpc # "link" /\ cpc # "uncount" /\ ~closing
      BY <2>2 DEF ChainInv, EndsInv, HandshakeInv, ConsumerInv
    <2>4. blockCount = 0
      BY <2>3, FS_EmptySet DEF ChainInv, CountInv
    <2>5. errorReaction = "CANCEL" \/ readaheadPos = FileSize
      BY <2>3, <2>4 DEF CancelInv
    <2>6. pos = readaheadPos
      BY <2>2, <2>3 DEF ChainInv, ConsumerInv, LinkedEnd
    <2>7. QED
      BY <2>5, <2>6, FileSizeAssumption
  <1>3. HandshakeInv /\ ChainInv /\ CancelInv /\ [Next]_vars =>
          [errorReaction = "CANCEL" \/ readaheadComplete =>
             readaheadPos' = readaheadPos /\ blockCount' <= blockCount]_vars
    <2> SUFFICES ASSUME HandshakeInv, ChainInv, CancelInv, Next, errorReaction = "CANCEL" \/ readaheadComplete
                 PROVE  readaheadPos' = readaheadPos /\ blockCount' <= blockCount
      OBVIOUS
    <2>1. rpc \in Waiting \union {"complete", "exited"} /\ blockCount \in Nat
      BY DEF CancelInv, ChainInv, Ranges
    <2>2. ASSUME ReaderStep \/ ErrorSpurious PROVE UNCHANGED <<readaheadPos, blockCount>>
      BY <2>1, <2>2 DEF Waiting, ReaderStep, ThreadLoop, ThreadRoom, FillBlock, FillFails, AppendCount, AppendLink,
         ErrorRaise, ErrorWait, ErrorSignalled, ErrorSpurious, WakeUp, ErrorObey, ThreadExit, aheadVars, listVars
    <2>3. ASSUME \/ Iterate \/ WaitCount \/ WaitComplete \/ WaitError \/ GetBlock \/ Copy
                 \/ DisposeUnlink \/ CloseJoin \/ CloseDrain \/ CopyFails \/ Close \/ Closed
                 \/ (\E r \in Reactions : Answer(r))
                 \/ \E o \in {"read", "copy"}, n \in 0..MaxLen : Request(o, n)
          PROVE  UNCHANGED <<readaheadPos, blockCount>>
      BY <2>3 DEF Iterate, WaitCount, WaitComplete, WaitError, GetBlock, Copy, DisposeUnlink, CloseJoin,
         CloseDrain, CopyFails, Close, Closed, Answer, Request, vars, threadVars, aheadVars, listVars
    <2>4. CASE DisposeCount
      BY <2>1, <2>4 DEF DisposeCount, aheadVars
    <2>5. QED
      BY <2>1, <2>2, <2>3, <2>4 DEF Next, ConsumerStep
  <1>4. QED
    BY <1>1, <1>2, <1>3, CancelInit, HandshakeSafe, ChainSafe, PTL
       DEF Spec, CancelIsFinal, NoBlockMeansCancel, NothingAfterCancel
=============================================================================
