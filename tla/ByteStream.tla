----------------------------- MODULE ByteStream -----------------------------
(***************************************************************************)
(* What src/installer/mappedfile.h promises its caller: a file that is     *)
(* read sequentially.  One request at a time asks for len bytes; the       *)
(* stream hands them over in file order, a few at a time, and the request  *)
(* ends with success exactly when all of them were handed over.  A byte is *)
(* identified with its offset in the file.                                 *)
(***************************************************************************)
EXTENDS Integers, Sequences

CONSTANTS Size,     \* bytes in the file
          MaxLen    \* longest request

VARIABLES pos,      \* mappedFile_getPosition
          left,     \* bytes the current request still wants
          op,       \* "copy" (to files) or "read" (into a buffer)
          got,      \* offsets of the bytes the current copy request was given
          status,   \* "idle", "busy" (inside a request) or "closed"
          ok        \* what the last request returned

vars == <<pos, left, op, got, status, ok>>

Init == /\ pos = 0
        /\ left = 0
        /\ op = "copy"
        /\ got = <<>>
        /\ status = "idle"
        /\ ok = TRUE

\* The bytes of the file from offset p on, n of them.
Bytes(p, n) == [i \in 1..n |-> p + i - 1]

Start == /\ status = "idle"
         /\ op' \in {"read", "copy"}
         /\ left' \in 0..MaxLen
         /\ got' = <<>>
         /\ UNCHANGED pos

\* A request at the end of the file is turned down at once.
Accept == Start /\ pos < Size /\ status' = "busy" /\ ok' = ok
Reject == Start /\ pos >= Size /\ status' = "idle" /\ ok' = FALSE

\* The next n bytes.  The bytes a read request finds in its buffer are not
\* this module's business: see ReadDelivers in MappedFile.
Deliver(n) == /\ status = "busy"
              /\ n <= left
              /\ pos + n <= Size
              /\ pos' = pos + n
              /\ left' = left - n
              /\ got' = IF op = "copy" THEN got \o Bytes(pos, n) ELSE got
              /\ UNCHANGED <<op, status, ok>>

Finish == /\ status = "busy"
          /\ status' = "idle"
          /\ ok' = (left = 0)
          /\ UNCHANGED <<pos, left, op, got>>

\* A file that could not be written may have got some of the next bytes, which
\* the stream does not count as handed over.
FailToCopy == /\ status = "busy"
              /\ op = "copy"
              /\ left # 0
              /\ status' = "idle"
              /\ ok' = FALSE
              /\ \E n \in 0..left : pos + n <= Size /\ got' = got \o Bytes(pos, n)
              /\ UNCHANGED <<pos, left, op>>

Close == /\ status = "idle"
         /\ status' = "closed"
         /\ UNCHANGED <<pos, left, op, got, ok>>

Next == \/ Accept
        \/ Reject
        \/ \E n \in 0..MaxLen : Deliver(n)
        \/ Finish
        \/ FailToCopy
        \/ Close

Spec == Init /\ [][Next]_vars
=============================================================================
