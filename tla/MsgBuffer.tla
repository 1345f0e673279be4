------------------------------ MODULE MsgBuffer ------------------------------
(***************************************************************************)
(* The receive buffer of a connection (network/base/MsgBuffer.h) together  *)
(* with the read cycle that TcpConnection::doRead runs over it.            *)
(*                                                                         *)
(* A byte is named by its position in the stream the peer sent, so the     *)
(* buffer is correct when the readable bytes are consecutive positions     *)
(* that start at the first one not yet retrieved.  `Zero' is a byte that   *)
(* vector::resize value-initialised and nobody has written.                *)
(*                                                                         *)
(* While an async_read_some is outstanding the kernel owns the bytes from  *)
(* BeginWrite() on: `rdAt' is the offset the read was given, `rdLen' the   *)
(* room it was given.                                                      *)
(***************************************************************************)
EXTENDS Integers

CONSTANTS
    DefaultLength,   \* kBufferDefaultLength
    ReadAhead,       \* the 4096 bytes doRead asks room for
    MaxBytes         \* bound on the length of the stream

ASSUME MsgBufferAssumption ==
    /\ DefaultLength \in Nat
    /\ ReadAhead \in Nat \ {0}
    /\ MaxBytes \in Nat

Zero == -1
None == -1

VARIABLES
    cap,        \* buf_.size()
    mem,        \* the contents of buf_
    head,       \* head_
    tail,       \* tail_
    rdAt,       \* offset given to the outstanding read, None when there is none
    rdLen,      \* the room given to it
    received,   \* ghost: bytes put into the buffer so far
    consumed,   \* ghost: bytes retrieved from it so far
    peak        \* ghost: the largest backlog the buffer has held

vars == <<cap, mem, head, tail, rdAt, rdLen, received, consumed, peak>>

ReadableBytes == tail - head
WritableBytes == cap - tail

\* Mutant: doRead is called before the message callback instead of after it.
InCallback_ReadFirst == TRUE

\* The message callback runs between the completion of one read and the start
\* of the next: the only time code touches the buffer.
InCallback == rdAt = None

Init ==
    /\ cap = DefaultLength
    /\ mem = [i \in 0 .. DefaultLength - 1 |-> Zero]
    /\ head = 0 /\ tail = 0
    /\ rdAt = None /\ rdLen = 0
    /\ received = 0 /\ consumed = 0 /\ peak = 0

-----------------------------------------------------------------------------

\* Mutant: the memmove of the readable bytes is forgotten.
Compacted_NoMove(newCap) ==
    [i \in 0 .. newCap - 1 |-> IF i < cap THEN mem[i] ELSE Zero]

\* What is left of buf_ when it is compacted and, if that is not enough,
\* resized to newCap bytes.
Compacted(newCap) ==
    [i \in 0 .. newCap - 1 |->
        IF i < ReadableBytes THEN mem[head + i]
        ELSE IF i < cap THEN mem[i] ELSE Zero]

\* Mutant: resize(tail_ + len) is computed before tail_ was moved.
Grown_OldTail(len) ==
    IF cap - ReadableBytes < len THEN tail + len ELSE cap

\* The capacity after EnsureWritableBytes(len) found too little room.
Grown(len) ==
    IF cap - ReadableBytes < len THEN ReadableBytes + len ELSE cap

\* EnsureWritableBytes: as in the code a buffer whose head is 0 is already
\* compact, so one branch stands for both.
EnsureWritableBytes(len) ==
    IF WritableBytes >= len
    THEN UNCHANGED <<cap, mem, head, tail>>
    ELSE /\ head' = 0
         /\ tail' = ReadableBytes
         /\ cap' = Grown(len)
         /\ mem' = Compacted(Grown(len))

\* doRead: make room, then hand everything behind tail_ to the kernel.
DoRead ==
    /\ InCallback
    /\ EnsureWritableBytes(ReadAhead)
    /\ rdAt' = tail'
    /\ rdLen' = cap' - tail'
    /\ UNCHANGED <<received, consumed, peak>>

\* The read completes with n bytes and its handler calls HasWritten(n).
ReadComplete(n) ==
    /\ rdAt # None
    /\ n \in 1 .. rdLen
    /\ received + n <= MaxBytes
    /\ mem' = [i \in 0 .. cap - 1 |->
                  IF rdAt <= i /\ i < rdAt + n THEN received + (i - rdAt) ELSE mem[i]]
    /\ tail' = tail + n
    /\ received' = received + n
    /\ peak' = IF ReadableBytes + n > peak THEN ReadableBytes + n ELSE peak
    /\ rdAt' = None /\ rdLen' = 0
    /\ UNCHANGED <<cap, head, consumed>>

\* Mutant: RetrieveAll resets tail_ and forgets head_.
Retrieve_StaleHead(n) ==
    /\ InCallback
    /\ n \in 0 .. ReadableBytes
    /\ IF n < ReadableBytes
       THEN head' = head + n /\ tail' = tail
       ELSE head' = head /\ tail' = 0
    /\ consumed' = consumed + n
    /\ UNCHANGED <<cap, mem, rdAt, rdLen, received, peak>>

\* Retrieve(n) from the message callback; taking everything resets the buffer.
Retrieve(n) ==
    /\ InCallback
    /\ n \in 0 .. ReadableBytes
    /\ IF n < ReadableBytes
       THEN head' = head + n /\ tail' = tail
       ELSE head' = 0 /\ tail' = 0
    /\ consumed' = consumed + n
    /\ UNCHANGED <<cap, mem, rdAt, rdLen, received, peak>>

\* Append(data, n): EnsureWritableBytes, memcpy, HasWritten.
Append(n) ==
    /\ InCallback
    /\ n \in 1 .. MaxBytes - received
    /\ LET fits == WritableBytes >= n
           at   == IF fits THEN tail ELSE ReadableBytes
           c    == IF fits THEN cap ELSE Grown(n)
           old  == IF fits THEN mem ELSE Compacted(c)
       IN  /\ cap' = c
           /\ head' = IF fits THEN head ELSE 0
           /\ tail' = at + n
           /\ mem' = [i \in 0 .. c - 1 |->
                         IF at <= i /\ i < at + n THEN received + (i - at) ELSE old[i]]
    /\ received' = received + n
    /\ peak' = IF ReadableBytes + n > peak THEN ReadableBytes + n ELSE peak
    /\ UNCHANGED <<rdAt, rdLen, consumed>>

Next ==
    \/ DoRead
    \/ \E n \in 1 .. MaxBytes : ReadComplete(n)
    \/ \E n \in 0 .. MaxBytes : Retrieve(n)
    \/ \E n \in 1 .. MaxBytes : Append(n)

Spec == Init /\ [][Next]_vars

-----------------------------------------------------------------------------

\* The state has its type and the offsets stay inside the vector.
TypeOK ==
    /\ cap \in Nat /\ head \in Nat /\ tail \in Nat
    /\ head <= tail /\ tail <= cap
    /\ mem \in [0 .. cap - 1 -> Int]
    /\ rdAt \in Nat \cup {None} /\ rdLen \in Nat
    /\ received \in Nat /\ consumed \in Nat /\ peak \in Nat

\* What the parser peeks at is exactly the part of the stream that was received
\* and not retrieved, in order: no compaction, growth or reset loses, repeats or
\* reorders a byte (MsgBuffer::EnsureWritableBytes, Retrieve, doRead).
StreamIntact ==
    /\ received = consumed + ReadableBytes
    /\ \A i \in head .. tail - 1 : mem[i] = consumed + (i - head)

\* The memory an outstanding read writes to starts at tail_, lies inside the
\* vector, and is at least what doRead asked for, so that HasWritten's assertion
\* n <= WritableBytes() holds for every n the kernel may report.
ReadTargetValid ==
    rdAt # None => /\ rdAt = tail
                   /\ rdLen = WritableBytes
                   /\ rdLen >= ReadAhead

\* The buffer is never larger than the default or the largest backlog plus one
\* read: a peer that is read promptly cannot make it grow however long it sends.
GrowthBounded ==
    cap <= DefaultLength \/ cap <= peak + ReadAhead

=============================================================================
