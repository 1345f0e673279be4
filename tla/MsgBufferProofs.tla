--------------------------- MODULE MsgBufferProofs ---------------------------
(***************************************************************************)
(* The receive buffer keeps the stream intact for every default size, read *)
(* ahead and stream length.  The properties TLC checks are inductive       *)
(* together once one fact is added: the ghost `peak' dominates the current *)
(* backlog.                                                                *)
(***************************************************************************)
EXTENDS MsgBuffer, TLAPS

\* The backlog never exceeds the recorded peak.
PeakDominates == ReadableBytes <= peak

\* The inductive invariant.
Inv ==
    /\ TypeOK
    /\ StreamIntact
    /\ ReadTargetValid
    /\ PeakDominates
    /\ GrowthBounded

\* An empty buffer of the default size satisfies the invariant.
LEMMA InitInv == Init => Inv
  BY MsgBufferAssumption
  DEF Init, Inv, TypeOK, StreamIntact, ReadTargetValid, PeakDominates, GrowthBounded,
      ReadableBytes, WritableBytes, None, Zero

\* Compaction keeps the readable bytes, at offset 0, and a vector of the
\* requested size (EnsureWritableBytes' memmove and resize).
LEMMA CompactedType ==
  ASSUME TypeOK, NEW c \in Nat, c >= ReadableBytes
  PROVE  /\ Compacted(c) \in [0 .. c - 1 -> Int]
         /\ \A i \in 0 .. ReadableBytes - 1 : Compacted(c)[i] = mem[head + i]
  BY DEF TypeOK, Compacted, ReadableBytes, Zero

\* EnsureWritableBytes(len) leaves room for len bytes and never shrinks buf_.
LEMMA GrownBounds ==
  ASSUME TypeOK, NEW len \in Nat
  PROVE  /\ Grown(len) \in Nat
         /\ Grown(len) - ReadableBytes >= len
         /\ Grown(len) >= cap
         /\ Grown(len) = cap \/ Grown(len) = ReadableBytes + len
  BY DEF TypeOK, Grown, ReadableBytes

\* Starting a read preserves the invariant.
LEMMA DoReadInv ==
  ASSUME Inv, DoRead
  PROVE  Inv'
<1> USE MsgBufferAssumption DEF Inv, None
<1>1. CASE WritableBytes >= ReadAhead
  BY <1>1 DEF DoRead, EnsureWritableBytes, TypeOK, StreamIntact, ReadTargetValid,
     PeakDominates, GrowthBounded, ReadableBytes, WritableBytes, InCallback
<1>2. CASE ~(WritableBytes >= ReadAhead)
  <2> DEFINE c == Grown(ReadAhead)
  <2>1. /\ head' = 0 /\ tail' = ReadableBytes /\ cap' = c /\ mem' = Compacted(c)
        /\ rdAt' = ReadableBytes /\ rdLen' = c - ReadableBytes
        /\ UNCHANGED <<received, consumed, peak>>
    BY <1>2 DEF DoRead, EnsureWritableBytes
  <2>2. c \in Nat /\ c - ReadableBytes >= ReadAhead /\ c >= cap
        /\ (c = cap \/ c = ReadableBytes + ReadAhead)
    BY GrownBounds
  <2>3. ReadableBytes \in Nat /\ c >= ReadableBytes
    BY <2>2 DEF TypeOK, ReadableBytes
  <2>4. mem' \in [0 .. cap' - 1 -> Int]
        /\ \A i \in 0 .. ReadableBytes - 1 : mem'[i] = mem[head + i]
    BY <2>1, <2>2, <2>3, CompactedType
  <2> HIDE DEF c
  <2>5. TypeOK'
    BY <2>1, <2>2, <2>3, <2>4 DEF TypeOK
  <2>6. StreamIntact'
    BY <2>1, <2>3, <2>4 DEF StreamIntact, TypeOK, ReadableBytes
  <2>7. ReadTargetValid'
    BY <2>1, <2>2, <2>3 DEF ReadTargetValid, WritableBytes
  <2>8. PeakDominates' /\ GrowthBounded'
    BY <2>1, <2>2, <2>3 DEF PeakDominates, GrowthBounded, TypeOK, ReadableBytes
  <2> QED BY <2>5, <2>6, <2>7, <2>8
<1> QED BY <1>1, <1>2

\* The completion of a read preserves the invariant.
LEMMA ReadCompleteInv ==
  ASSUME Inv, NEW n \in 1 .. MaxBytes, ReadComplete(n)
  PROVE  Inv'
<1> USE MsgBufferAssumption DEF Inv, None
<1>1. rdAt = tail /\ rdLen = cap - tail /\ n \in Nat /\ n <= cap - tail /\ n > 0
  BY DEF ReadComplete, ReadTargetValid, WritableBytes, TypeOK
<1>2. TypeOK'
  BY <1>1 DEF ReadComplete, TypeOK, ReadableBytes
<1>3. StreamIntact'
  BY <1>1 DEF ReadComplete, StreamIntact, TypeOK, ReadableBytes
<1>4. ReadTargetValid' /\ PeakDominates' /\ GrowthBounded'
  BY <1>1 DEF ReadComplete, ReadTargetValid, PeakDominates, GrowthBounded,
     TypeOK, ReadableBytes
<1> QED BY <1>2, <1>3, <1>4

\* Retrieving bytes in the message callback preserves the invariant.
LEMMA RetrieveInv ==
  ASSUME Inv, NEW n \in 0 .. MaxBytes, Retrieve(n)
  PROVE  Inv'
<1> USE MsgBufferAssumption DEF Inv, None
<1>1. n \in Nat /\ n <= tail - head
  BY DEF Retrieve, ReadableBytes, TypeOK
<1>2. TypeOK'
  BY <1>1 DEF Retrieve, TypeOK, ReadableBytes
<1>3. StreamIntact'
  BY <1>1 DEF Retrieve, StreamIntact, TypeOK, ReadableBytes
<1>4. ReadTargetValid' /\ PeakDominates' /\ GrowthBounded'
  BY <1>1 DEF Retrieve, InCallback, ReadTargetValid, PeakDominates, GrowthBounded,
     TypeOK, ReadableBytes
<1> QED BY <1>2, <1>3, <1>4

\* Appending bytes preserves the invariant.
LEMMA AppendInv ==
  ASSUME Inv, NEW n \in 1 .. MaxBytes, Append(n)
  PROVE  Inv'
<1> USE MsgBufferAssumption DEF Inv, None
<1>1. CASE WritableBytes >= n
  <2>1. /\ cap' = cap /\ head' = head /\ tail' = tail + n
        /\ mem' = [i \in 0 .. cap - 1 |->
                      IF tail <= i /\ i < tail + n THEN received + (i - tail) ELSE mem[i]]
        /\ received' = received + n /\ UNCHANGED <<rdAt, rdLen, consumed>>
        /\ peak' = IF ReadableBytes + n > peak THEN ReadableBytes + n ELSE peak
        /\ rdAt = None
    BY <1>1 DEF Append, InCallback
  <2>2. TypeOK'
    BY <1>1, <2>1 DEF TypeOK, ReadableBytes, WritableBytes
  <2>3. StreamIntact'
    BY <1>1, <2>1 DEF StreamIntact, TypeOK, ReadableBytes, WritableBytes
  <2>4. ReadTargetValid' /\ PeakDominates' /\ GrowthBounded'
    BY <2>1 DEF ReadTargetValid, PeakDominates, GrowthBounded, TypeOK, ReadableBytes
  <2> QED BY <2>2, <2>3, <2>4
<1>2. CASE ~(WritableBytes >= n)
  <2> DEFINE c == Grown(n)
             r == ReadableBytes
             old == Compacted(c)
  <2>1. /\ cap' = c /\ head' = 0 /\ tail' = r + n
        /\ mem' = [i \in 0 .. c - 1 |->
                      IF r <= i /\ i < r + n THEN received + (i - r) ELSE old[i]]
        /\ received' = received + n /\ UNCHANGED <<rdAt, rdLen, consumed>>
        /\ peak' = IF r + n > peak THEN r + n ELSE peak
        /\ rdAt = None
    BY <1>2 DEF Append, InCallback
  <2>2. c \in Nat /\ c - r >= n /\ c >= cap /\ (c = cap \/ c = r + n)
    BY GrownBounds
  <2>3. r \in Nat /\ c >= r /\ r = tail - head
    BY <2>2 DEF TypeOK, ReadableBytes
  <2>4. old \in [0 .. c - 1 -> Int] /\ \A i \in 0 .. r - 1 : old[i] = mem[head + i]
    BY <2>2, <2>3, CompactedType
  <2> HIDE DEF c, r, old
  <2>5. TypeOK'
    BY <2>1, <2>2, <2>3, <2>4 DEF TypeOK
  <2>6. StreamIntact'
    <3>1. received = consumed + r /\ \A i \in head .. tail - 1 : mem[i] = consumed + (i - head)
      BY <2>3 DEF StreamIntact, ReadableBytes
    <3>2. \A i \in 0 .. r - 1 : old[i] = consumed + i
      BY <2>3, <2>4, <3>1 DEF TypeOK
    <3>3. \A i \in 0 .. r + n - 1 : mem'[i] = consumed + i
      BY <2>1, <2>2, <2>3, <3>1, <3>2 DEF TypeOK
    <3>4. received' = consumed' + ReadableBytes'
      BY <2>1, <2>3, <3>1 DEF ReadableBytes, TypeOK
    <3>5. \A i \in head' .. tail' - 1 : mem'[i] = consumed' + (i - head')
      <4>1. head' = 0 /\ tail' = r + n /\ consumed' = consumed
        BY <2>1
      <4> TAKE i \in head' .. tail' - 1
      <4>2. i \in 0 .. r + n - 1 /\ i \in Int /\ consumed \in Nat
        BY <2>3, <4>1 DEF TypeOK
      <4>3. mem'[i] = consumed + i
        BY <3>3, <4>2
      <4> QED BY <4>1, <4>2, <4>3
    <3> QED BY <3>4, <3>5 DEF StreamIntact
  <2>7. ReadTargetValid' /\ PeakDominates' /\ GrowthBounded'
    BY <2>1, <2>2, <2>3 DEF ReadTargetValid, PeakDominates, GrowthBounded, TypeOK,
       ReadableBytes
  <2> QED BY <2>5, <2>6, <2>7
<1> QED BY <1>1, <1>2

\* A step of the read cycle, or a stutter, preserves the invariant.
LEMMA NextInv == Inv /\ [Next]_vars => Inv'
<1> SUFFICES ASSUME Inv, [Next]_vars PROVE Inv'
  OBVIOUS
<1>1. CASE UNCHANGED vars
  BY <1>1 DEF vars, Inv, TypeOK, StreamIntact, ReadTargetValid, PeakDominates,
     GrowthBounded, ReadableBytes, WritableBytes
<1> QED BY <1>1, DoReadInv, ReadCompleteInv, RetrieveInv, AppendInv DEF Next

\* The buffer's offsets stay inside the vector, whatever its default size.
THEOREM BufferTypeCorrect == Spec => []TypeOK
<1>1. Inv => TypeOK
  BY DEF Inv
<1> QED BY InitInv, NextInv, <1>1, PTL DEF Spec

\* The readable bytes are always exactly the received and not yet retrieved part
\* of the stream, in order.
THEOREM BufferStreamIntact == Spec => []StreamIntact
<1>1. Inv => StreamIntact
  BY DEF Inv
<1> QED BY InitInv, NextInv, <1>1, PTL DEF Spec

\* An outstanding read always owns at least ReadAhead bytes behind tail_.
THEOREM BufferReadTargetValid == Spec => []ReadTargetValid
<1>1. Inv => ReadTargetValid
  BY DEF Inv
<1> QED BY InitInv, NextInv, <1>1, PTL DEF Spec

\* The memory of the buffer is bounded by the largest backlog plus one read.
THEOREM BufferGrowthBounded == Spec => []GrowthBounded
<1>1. Inv => GrowthBounded
  BY DEF Inv
<1> QED BY InitInv, NextInv, <1>1, PTL DEF Spec

=============================================================================
