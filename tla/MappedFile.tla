----------------------------- MODULE MappedFile -----------------------------
(***************************************************************************)
(* src/installer/mappedfile_mt.c, the file reader every byte of an         *)
(* installation goes through.  A reader thread fills a linked list of      *)
(* blocks ahead of the consumer, the installer's only other thread, which  *)
(* copies bytes out of the first block and disposes of it when it is used  *)
(* up.  lock protects the list; blockCount, readaheadComplete, hasError    *)
(* and closing are also read without it, so each of those reads is a step  *)
(* of its own, and each critical section is two steps: other threads' bare *)
(* reads can fall between them.  A read error parks the reader on a        *)
(* condition variable until the consumer, inside a request, has asked the  *)
(* user what to do.                                                        *)
(*                                                                         *)
(* A byte is identified with its offset in the file and a block with the   *)
(* offset its allocation was made for.  Malloc does not fail.              *)
(* Operators under a FAULT comment are plausible slips in the definition   *)
(* that follows them; nothing here uses them, the mutation runs put them   *)
(* in its place to see the properties fail.                                *)
(***************************************************************************)
EXTENDS Integers, Sequences, FiniteSets

CONSTANTS FileSize,   \* size, > 0 as mappedFile_open asserts
          BlockSize,  \* MEM_BLOCK_SIZE
          MaxBlocks,  \* maxBlocks = readahead / MEM_BLOCK_SIZE
          MaxLen,     \* bound: longest request
          MaxErrors,  \* bound: read errors the medium produces
          Reactions   \* what the error callback may answer

ASSUME FileSizeAssumption  == FileSize \in Nat \ {0}
ASSUME BlockSizeAssumption == BlockSize \in Nat \ {0}
ASSUME MaxBlocksAssumption == MaxBlocks \in Nat
ASSUME BoundsAssumption    == MaxLen \in Nat /\ MaxErrors \in Nat
ASSUME ReactionsAssumption == Reactions \subseteq {"RETRY", "CANCEL"}

NULL == -1

VARIABLES
  rpc,            \* where the reader thread is
  fdPos,          \* offset of the file descriptor
  rblock,         \* block the reader is appending, or NULL
  errors,         \* read errors so far (bounds the model)
  readaheadPos,   \* bytes appended so far
  readaheadComplete,
  heap,           \* the allocated blocks: block -> [from, next]
  memFirst, memLast, blockCount, lock,
  errorLock, hasError, errorReaction,
  signalled,      \* the reader's pthread_cond_wait was signalled
  cpc,            \* where the consumer is
  pos,            \* pos
  op,             \* "read" (mappedFile_read) or "copy" (mappedFile_copyToFiles)
  start, left,    \* position the request began at, bytes it still wants
  out,            \* offsets of the bytes in the caller's buffer, or in any one
                  \* of his files
  cur,            \* currentBlock
  result,         \* what the last request returned
  closing

readerVars   == <<rpc, fdPos, rblock, errors>>
aheadVars    == <<readaheadPos, readaheadComplete>>
listVars     == <<heap, memFirst, memLast, blockCount, lock>>
errorVars    == <<errorLock, hasError, errorReaction, signalled>>
requestVars  == <<pos, op, start, left, out, result>>
consumerVars == <<cpc, requestVars, cur, closing>>
threadVars   == <<readerVars, aheadVars, listVars, errorVars>>
vars == <<threadVars, consumerVars>>

Least(a, b) == IF a <= b THEN a ELSE b

(***************************************************************************)
(* mappedFile_open: the structure is calloc'd and the thread started.      *)
(***************************************************************************)
Init ==
  /\ rpc = "loop" /\ fdPos = 0 /\ rblock = NULL /\ errors = 0
  /\ readaheadPos = 0 /\ readaheadComplete = FALSE
  /\ heap = [b \in {} |-> 0] /\ memFirst = NULL /\ memLast = NULL /\ blockCount = 0
  /\ lock = "none"
  /\ errorLock = "none" /\ hasError = FALSE /\ errorReaction = "NONE"
  /\ signalled = FALSE
  /\ cpc = "idle" /\ pos = 0 /\ op = "copy" /\ start = 0 /\ left = 0
  /\ out = <<>> /\ cur = NULL /\ result = TRUE /\ closing = FALSE

(***************************************************************************)
(* The reader thread.                                                      *)
(***************************************************************************)
\* FAULT the loop does not look at closing.
ContinueWhileClosing == readaheadPos < FileSize

Continue == ~closing /\ readaheadPos < FileSize

ThreadLoop ==
  /\ rpc = "loop"
  /\ rpc' = IF Continue THEN "room" ELSE "complete"
  /\ UNCHANGED <<fdPos, rblock, errors, aheadVars, listVars, errorVars,
                 consumerVars>>

\* FAULT one block too many.
FullOffByOne == blockCount > MaxBlocks

Full == blockCount = MaxBlocks

\* A full list sends the thread back to the loop's head: it polls.
ThreadRoom ==
  /\ rpc = "room"
  /\ rpc' = IF Full THEN "loop" ELSE "fill"
  /\ UNCHANGED <<fdPos, rblock, errors, aheadVars, listVars, errorVars,
                 consumerVars>>

ToRead == Least(FileSize - readaheadPos, BlockSize)

\* Allocates a block and reads into it from wherever the descriptor is.
FillBlock ==
  /\ rpc = "fill"
  /\ fdPos + ToRead <= FileSize
  /\ heap' = [b \in DOMAIN heap \union {readaheadPos} |->
                IF b = readaheadPos THEN [from |-> fdPos, next |-> NULL]
                                    ELSE heap[b]]
  /\ rblock' = readaheadPos
  /\ fdPos' = fdPos + ToRead
  /\ rpc' = "append"
  /\ UNCHANGED <<errors, aheadVars, memFirst, memLast, blockCount, lock,
                 errorVars, consumerVars>>

\* The read fails after k bytes; the block is freed again.  Running off the
\* end of the file is a failure as well.
FillFails ==
  /\ rpc = "fill"
  /\ errors < MaxErrors
  /\ \E k \in 0..(ToRead - 1) :
       /\ fdPos + k <= FileSize
       /\ fdPos' = fdPos + k
  /\ errors' = errors + 1
  /\ rpc' = "error"
  /\ UNCHANGED <<rblock, aheadVars, listVars, errorVars, consumerVars>>

AppendCount ==
  /\ rpc = "append"
  /\ lock = "none"
  /\ lock' = "reader"
  /\ readaheadPos' = readaheadPos + ToRead
  /\ blockCount' = blockCount + 1
  /\ rpc' = "link"
  /\ UNCHANGED <<fdPos, rblock, errors, readaheadComplete, heap, memFirst,
                 memLast, errorVars, consumerVars>>

AppendLink ==
  /\ rpc = "link"
  /\ memFirst' = IF memFirst = NULL THEN rblock ELSE memFirst
  /\ heap' = [b \in DOMAIN heap |->
                IF b = memLast THEN [from |-> heap[b].from, next |-> rblock]
                               ELSE heap[b]]
  /\ memLast' = rblock
  /\ rblock' = NULL
  /\ lock' = "none"
  /\ rpc' = "loop"
  /\ UNCHANGED <<fdPos, errors, aheadVars, blockCount, errorVars,
                 consumerVars>>

\* mappedFile_readAheadHandleError: raise the flag under errorLock ...
ErrorRaise ==
  /\ rpc = "error"
  /\ errorLock = "none"
  /\ errorLock' = "reader"
  /\ errorReaction' = "NONE"
  /\ hasError' = TRUE
  /\ rpc' = "errorTest"
  /\ UNCHANGED <<fdPos, rblock, errors, aheadVars, listVars, signalled,
                 consumerVars>>

\* ... wait while there is no reaction (the wait gives errorLock up) ...
ErrorWait ==
  /\ rpc = "errorTest"
  /\ errorReaction = "NONE"
  /\ errorLock' = "none"
  /\ signalled' = FALSE
  /\ rpc' = "errorWait"
  /\ UNCHANGED <<fdPos, rblock, errors, aheadVars, listVars, hasError,
                 errorReaction, consumerVars>>

WakeUp ==
  /\ rpc = "errorWait"
  /\ errorLock = "none"
  /\ errorLock' = "reader"
  /\ rpc' = "errorTest"
  /\ UNCHANGED <<fdPos, rblock, errors, aheadVars, listVars, hasError,
                 errorReaction, signalled, consumerVars>>

ErrorSignalled == signalled /\ WakeUp
ErrorSpurious  == ~signalled /\ WakeUp

\* FAULT no lseek before the retry.
RetryFromDescriptor == fdPos

RetryFrom == readaheadPos

\* FAULT CANCEL does not leave the loop.
AlwaysRetry(r) == "loop"

AfterReaction(r) == IF r = "CANCEL" THEN "complete" ELSE "loop"

\* ... and obey it: leave the loop, or seek back and try again.
ErrorObey ==
  /\ rpc = "errorTest"
  /\ errorReaction # "NONE"
  /\ errorLock' = "none"
  /\ rpc' = AfterReaction(errorReaction)
  /\ fdPos' = IF rpc' = "loop" THEN RetryFrom ELSE fdPos
  /\ UNCHANGED <<rblock, errors, aheadVars, listVars, hasError,
                 errorReaction, signalled, consumerVars>>

ThreadExit ==
  /\ rpc = "complete"
  /\ readaheadComplete' = TRUE
  /\ rpc' = "exited"
  /\ UNCHANGED <<fdPos, rblock, errors, readaheadPos, listVars, errorVars,
                 consumerVars>>

ReaderStep ==
  \/ ThreadLoop \/ ThreadRoom \/ FillBlock \/ FillFails
  \/ AppendCount \/ AppendLink
  \/ ErrorRaise \/ ErrorWait \/ ErrorSignalled \/ ErrorObey
  \/ ThreadExit

(***************************************************************************)
(* The consumer.                                                           *)
(***************************************************************************)
\* A call ends.
Return(r) == cpc' = "idle" /\ result' = r

Request(o, n) ==
  /\ cpc = "idle"
  /\ op' = o
  /\ start' = pos
  /\ left' = n
  /\ out' = <<>>
  /\ IF pos >= FileSize THEN Return(FALSE)
                        ELSE cpc' = "iterate" /\ result' = result
  /\ UNCHANGED <<threadVars, pos, cur, closing>>

Iterate ==
  /\ cpc = "iterate"
  /\ IF left = 0
       THEN Return(TRUE)
       ELSE /\ cpc' = IF blockCount > 0 THEN "get" ELSE "waitCount"
            /\ result' = result
  /\ UNCHANGED <<threadVars, pos, op, start, left, out, cur, closing>>

\* mappedFile_waitForValidBlockAndGet, once there was no block: three bare
\* reads per round.
\* FAULT the greater of the two.
ThresholdAtLeast8 == IF MaxBlocks \div 2 > 8 THEN MaxBlocks \div 2 ELSE 8

Threshold == Least(MaxBlocks \div 2, 8)

WaitCount ==
  /\ cpc = "waitCount"
  /\ cpc' = IF blockCount < Threshold THEN "waitComplete" ELSE "get"
  /\ UNCHANGED <<threadVars, requestVars, cur, closing>>

WaitComplete ==
  /\ cpc = "waitComplete"
  /\ cpc' = IF readaheadComplete THEN "get" ELSE "waitError"
  /\ UNCHANGED <<threadVars, requestVars, cur, closing>>

WaitError ==
  /\ cpc = "waitError"
  /\ cpc' = IF hasError THEN "answer" ELSE "waitCount"
  /\ UNCHANGED <<threadVars, requestVars, cur, closing>>

\* FAULT the answer is not signalled.
AcknowledgeUnsignalled(r) == /\ errorLock = "none"
                             /\ hasError' = FALSE
                             /\ errorReaction' = r
                             /\ UNCHANGED <<errorLock, signalled>>

\* mappedFile_readErrorAcknowledge; a signal nobody waits for is lost.
Acknowledge(r) == /\ errorLock = "none"
                  /\ hasError' = FALSE
                  /\ errorReaction' = r
                  /\ signalled' = (rpc = "errorWait")
                  /\ UNCHANGED errorLock

\* The error callback's answer.
Answer(r) ==
  /\ cpc = "answer"
  /\ Acknowledge(r)
  /\ IF r = "CANCEL" THEN Return(FALSE)
                     ELSE cpc' = "waitCount" /\ result' = result
  /\ UNCHANGED <<readerVars, aheadVars, listVars, pos, op, start, left, out,
                 cur, closing>>

GetBlock ==
  /\ cpc = "get"
  /\ lock = "none"
  /\ cur' = memFirst
  /\ IF memFirst = NULL THEN Return(FALSE)
                        ELSE cpc' = "copy" /\ result' = result
  /\ UNCHANGED <<threadVars, pos, op, start, left, out, closing>>

PositionInBlock == pos % BlockSize
LeftInBlock     == BlockSize - PositionInBlock
\* FAULT the end of the file is not a limit.
ToCopyPastEnd == Least(left, LeftInBlock)
ToCopy          == Least(left, Least(FileSize - pos, LeftInBlock))

\* FAULT every piece is taken from the block's start.
ChunkFromBlockStart == [i \in 1..ToCopy |-> heap[cur].from + i - 1]

\* The bytes memcpy and write take out of the current block.
Chunk == [i \in 1..ToCopy |-> heap[cur].from + PositionInBlock + i - 1]

\* mappedFile_read copies every piece to dst itself: dst never advances.
Overwrite(buffer, piece) ==
  [i \in 1..(IF Len(piece) > Len(buffer) THEN Len(piece) ELSE Len(buffer)) |->
     IF i <= Len(piece) THEN piece[i] ELSE buffer[i]]

Copy ==
  /\ cpc = "copy"
  /\ out' = IF op = "copy" THEN out \o Chunk ELSE Overwrite(out, Chunk)
  /\ pos' = pos + ToCopy
  /\ left' = left - ToCopy
  /\ cpc' = IF ToCopy = LeftInBlock THEN "unlink" ELSE "iterate"
  /\ UNCHANGED <<threadVars, op, start, cur, result, closing>>

\* The write to one of the files fails or is short: that file has got a part
\* of the chunk, those before it the whole and those after it nothing.
CopyFails ==
  /\ cpc = "copy"
  /\ op = "copy"
  /\ \E k \in 0..ToCopy : out' = out \o SubSeq(Chunk, 1, k)
  /\ Return(FALSE)
  /\ UNCHANGED <<threadVars, pos, op, start, left, cur, closing>>

\* FAULT memLast outlives the last block.
LastKept(n) == memLast

\* memLast once n blocks are left.
LastOf(n) == IF n = 0 THEN NULL ELSE memLast

\* mappedFile_disposeBlock, for a used-up block and when the file is closed.
DisposeUnlink ==
  /\ cpc = "unlink"
  /\ lock = "none"
  /\ lock' = "consumer"
  /\ memFirst' = heap[memFirst].next
  /\ heap' = [b \in DOMAIN heap \ {memFirst} |-> heap[b]]
  /\ cur' = NULL
  /\ cpc' = "uncount"
  /\ UNCHANGED <<readerVars, aheadVars, memLast, blockCount, errorVars,
                 requestVars, closing>>

DisposeCount ==
  /\ cpc = "uncount"
  /\ blockCount' = blockCount - 1
  /\ memLast' = LastOf(blockCount')
  /\ lock' = "none"
  /\ cpc' = IF closing THEN "drain" ELSE "iterate"
  /\ UNCHANGED <<readerVars, aheadVars, heap, memFirst, errorVars,
                 requestVars, cur, closing>>

Close ==
  /\ cpc = "idle"
  /\ closing' = TRUE
  /\ cpc' = "join"
  /\ UNCHANGED <<threadVars, requestVars, cur>>

CloseJoin ==
  /\ cpc = "join"
  /\ rpc = "exited"
  /\ cpc' = "drain"
  /\ UNCHANGED <<threadVars, requestVars, cur, closing>>

CloseDrain ==
  /\ cpc = "drain"
  /\ lock = "none"
  /\ cpc' = IF memFirst = NULL THEN "closed" ELSE "unlink"
  /\ UNCHANGED <<threadVars, requestVars, cur, closing>>

\* The steps the consumer takes by itself once it is inside a call.
ConsumerStep ==
  \/ Iterate \/ WaitCount \/ WaitComplete \/ WaitError
  \/ \E r \in Reactions : Answer(r)
  \/ GetBlock \/ Copy \/ DisposeUnlink \/ DisposeCount
  \/ CloseJoin \/ CloseDrain

Closed == cpc = "closed" /\ UNCHANGED vars

Next ==
  \/ ReaderStep
  \/ ErrorSpurious
  \/ ConsumerStep
  \/ CopyFails
  \/ \E o \in {"read", "copy"}, n \in 0..MaxLen : Request(o, n)
  \/ Close
  \/ Closed

Spec == Init /\ [][Next]_vars

\* Both threads are scheduled; the user answers the error dialog, and obtains
\* errorLock even if the reader wakes up unasked again and again.  Nobody has
\* to make a request or to close the file.
Fairness == /\ WF_vars(ReaderStep)
            /\ WF_vars(ConsumerStep)
            /\ SF_vars(\E r \in Reactions : Answer(r))

FairSpec == Spec /\ Fairness

(***************************************************************************)
(* Properties.                                                             *)
(***************************************************************************)
Offsets == 0..FileSize

\* Every variable stays within its declared range.
TypeOK ==
  /\ rpc \in {"loop", "room", "fill", "append", "link", "error", "errorTest",
              "errorWait", "complete", "exited"}
  /\ fdPos \in Offsets
  /\ rblock \in Offsets \union {NULL}
  /\ errors \in 0..MaxErrors
  /\ readaheadPos \in Offsets
  /\ readaheadComplete \in BOOLEAN
  /\ DOMAIN heap \subseteq Offsets
  /\ \A b \in DOMAIN heap :
       heap[b] \in [from : Offsets, next : Offsets \union {NULL}]
  /\ memFirst \in Offsets \union {NULL}
  /\ memLast \in Offsets \union {NULL}
  /\ blockCount \in 0..MaxBlocks
  /\ lock \in {"none", "reader", "consumer"}
  /\ errorLock \in {"none", "reader"}
  /\ hasError \in BOOLEAN
  /\ errorReaction \in {"NONE"} \union Reactions
  /\ signalled \in BOOLEAN
  /\ cpc \in {"idle", "iterate", "waitCount", "waitComplete", "waitError",
              "answer", "get", "copy", "unlink", "uncount", "join", "drain",
              "closed"}
  /\ pos \in Offsets
  /\ op \in {"read", "copy"}
  /\ start \in Offsets
  /\ left \in 0..MaxLen
  /\ out \in Seq(Offsets)
  /\ cur \in Offsets \union {NULL}
  /\ result \in BOOLEAN
  /\ closing \in BOOLEAN

Linked == DOMAIN heap \ {rblock}

\* Whenever no thread is inside the critical section, the list is exactly the
\* allocated blocks, each holding the bytes it stands for and pointing to the
\* next one of the file, from memFirst to memLast, and blockCount counts them:
\* nothing dangles, leaks or is out of order, whichever thread went first.
ListIntact ==
  lock = "none" =>
    /\ blockCount = Cardinality(Linked)
    /\ (memFirst = NULL) <=> (Linked = {})
    /\ (memLast = NULL) <=> (Linked = {})
    /\ memFirst # NULL => memFirst \in Linked /\ memLast \in Linked
    /\ \A b \in Linked :
         /\ memFirst <= b /\ b <= memLast
         /\ heap[b].from = b
         /\ heap[b].next = IF b = memLast THEN NULL ELSE b + BlockSize
         /\ b # memLast => b + BlockSize \in Linked

\* The block the consumer copies from is allocated, is still the first of the
\* list although the reader appends meanwhile, and holds the wanted bytes.
HeldBlockIsCurrent ==
  cpc = "copy" => /\ cur = memFirst
                  /\ cur \in DOMAIN heap
                  /\ heap[cur].from + PositionInBlock = pos

\* Readahead never holds more blocks than the memory it was given.
MemoryBounded == Cardinality(DOMAIN heap) <= MaxBlocks

\* An answer reaches the reader that asked: the consumer is about to answer
\* only while the reader waits, and a reader that has been answered has also
\* been signalled, so no wake-up is lost between the two locks.
AnswerReachesReader ==
  /\ hasError => rpc \in {"errorTest", "errorWait"}
  /\ cpc = "answer" => hasError
  /\ rpc = "errorWait" /\ errorReaction # "NONE" => signalled
  /\ rpc = "errorWait" /\ errorReaction = "NONE" => hasError

\* A read that stays within one block leaves the wanted bytes in its buffer.
ReadDelivers ==
  cpc = "idle" /\ result /\ op = "read" /\ pos > start
  /\ start \div BlockSize = (pos - 1) \div BlockSize =>
    out = [i \in 1..(pos - start) |-> start + i - 1]

\* The same for every read, as mappedfile.h says of mappedFile_read.
EveryReadDelivers ==
  cpc = "idle" /\ result /\ op = "read" /\ pos > start =>
    out = [i \in 1..(pos - start) |-> start + i - 1]

\* A request is given no block only after the user cancelled, or at the end
\* of the file.
NoBlockMeansCancel ==
  [][cpc = "get" /\ cpc' = "idle" =>
       errorReaction = "CANCEL" \/ pos >= FileSize]_vars

\* Once the user has cancelled or the thread is gone nothing is appended.
NothingAfterCancel ==
  [][errorReaction = "CANCEL" \/ readaheadComplete =>
       readaheadPos' = readaheadPos /\ blockCount' <= blockCount]_vars

\* Cancelling is the end of it: of requests and of the readahead.
CancelIsFinal == NoBlockMeansCancel /\ NothingAfterCancel

Stream == INSTANCE ByteStream WITH
  Size <- FileSize,
  got <- IF op = "copy" THEN out ELSE <<>>,
  status <- IF closing THEN "closed" ELSE IF cpc = "idle" THEN "idle" ELSE "busy",
  ok <- result

\* To its caller the threaded reader is a sequential stream.
IsStream == Stream!Spec

Busy == cpc \notin {"idle", "join", "drain", "closed"} /\ ~closing

\* A request for bytes the file has returns, however the two threads are
\* scheduled and whenever a read fails.
RequestReturns == (Busy /\ pos + left <= FileSize) ~> (cpc = "idle")

\* Closing the file ends, unless a read error is waiting for an answer.
CloseReturns == closing ~> (cpc = "closed" \/ hasError)
=============================================================================
