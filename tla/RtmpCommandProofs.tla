-------------------------- MODULE RtmpCommandProofs --------------------------
(***************************************************************************)
(* Theorems about RtmpCommand: the decoder stays inside its data on every  *)
(* payload, recurses no deeper than it has read, and its every step lowers *)
(* the measure that bounds its work; and what the encoder wrote is decoded *)
(* as what was written, so that commands do what they say.                 *)
(*                                                                         *)
(* The last is by induction over the items of a message, which lie one     *)
(* behind the other in its data, and over the objects being read: each     *)
(* frame of the stack is an object at a place in the data where the rest   *)
(* of its properties lie.                                                  *)
(***************************************************************************)
EXTENDS RtmpCommand, SequenceTheorems, WellFoundedInduction, TLAPS

-----------------------------------------------------------------------------
(* Sequences of anything *)

\* A sequence over some set is one over the set of its elements.
LEMMA SeqIsSequence ==
    ASSUME NEW S, NEW s \in Seq(S)
    PROVE  IsSequence(s)
<1>1. /\ Len(s) \in Nat
      /\ s \in [1 .. Len(s) -> S]
      /\ DOMAIN s = 1 .. Len(s)
  OBVIOUS
<1> DEFINE E == {s[i] : i \in DOMAIN s}
<1>2. s \in [1 .. Len(s) -> E]
  BY <1>1
<1>3. s \in Seq(E)
  <2> HIDE DEF E
  <2>1. QED
    BY <1>1, <1>2
<1>4. QED
  BY <1>3 DEF IsSequence

LEMMA SequenceLen ==
    ASSUME NEW s, IsSequence(s)
    PROVE  Len(s) \in Nat /\ DOMAIN s = 1 .. Len(s)
BY DEF IsSequence

\* What the decoder does with its stack leaves a sequence, of the length that the
\* operation says.
LEMMA AppendSequence ==
    ASSUME NEW s, IsSequence(s), NEW e
    PROVE  IsSequence(Append(s, e)) /\ Len(Append(s, e)) = Len(s) + 1
<1> DEFINE S == {s[i] : i \in DOMAIN s} \cup {e}
<1>1. s \in Seq(S)
  BY DEF IsSequence
<1>2. Append(s, e) \in Seq(S) /\ Len(Append(s, e)) = Len(s) + 1
  BY <1>1
<1>3. QED
  BY <1>2, SeqIsSequence

LEMMA PopSequence ==
    ASSUME NEW s, IsSequence(s), s # <<>>
    PROVE  LET t == SubSeq(s, 1, Len(s) - 1)
           IN  IsSequence(t) /\ Len(t) = Len(s) - 1
<1> DEFINE S == {s[i] : i \in DOMAIN s}
           t == SubSeq(s, 1, Len(s) - 1)
<1>1. s \in Seq(S) /\ Len(s) \in Nat \ {0}
  BY DEF IsSequence
<1>2. t \in Seq(S) /\ Len(t) = Len(s) - 1
  <2>1. \A i \in 1 .. Len(s) - 1 : s[i] \in S
    <3>1. \A i \in 1 .. Len(s) : s[i] \in S
      BY <1>1
    <3>2. QED
      BY <1>1, <3>1
  <2>2. PICK m \in Nat : m = Len(s) - 1
    BY <1>1
  <2>3. m - 1 + 1 = m /\ (1 <= m \/ m = 0) /\ 1 \in Int /\ m \in Int
    BY <2>2
  <2>4. SubSeq(s, 1, m) \in Seq(S) /\ Len(SubSeq(s, 1, m)) = m
    BY <2>1, <2>2, <2>3, SubSeqProperties
  <2>5. QED
    BY <2>2, <2>4
<1>3. QED
  BY <1>2, SeqIsSequence

LEMMA ExceptSequence ==
    ASSUME NEW s, IsSequence(s), NEW i, NEW e
    PROVE  LET t == [s EXCEPT ![i] = e]
           IN  IsSequence(t) /\ Len(t) = Len(s)
<1> DEFINE S == {s[j] : j \in DOMAIN s} \cup {e}
           t == [s EXCEPT ![i] = e]
<1>1. /\ Len(s) \in Nat
      /\ s \in [1 .. Len(s) -> S]
  BY DEF IsSequence
<1>2. t \in [1 .. Len(s) -> S]
  BY <1>1
<1>3. t \in Seq(S) /\ Len(t) = Len(s)
  BY <1>1, <1>2
<1>4. QED
  BY <1>3, SeqIsSequence

-----------------------------------------------------------------------------
(* What the read functions return *)

LEMMA ReadStringDataMoves ==
    ASSUME TypeOK, NEW p \in 0 .. Len(data), NEW len \in Nat
    PROVE  ReadStringData(p, len).pos \in p .. Len(data)
BY DEF TypeOK, ReadStringData, Read

LEMMA ReadUint16BEMoves ==
    ASSUME TypeOK, NEW p \in 0 .. Len(data)
    PROVE  /\ ReadUint16BE(p).pos \in p .. Len(data)
           /\ ReadUint16BE(p).val \in Nat
<1>1. CASE p + 2 > Len(data)
  BY <1>1 DEF TypeOK, ReadUint16BE, Read
<1>2. CASE p + 2 <= Len(data)
  <2>1. ByteAt(p) \in Nat /\ ByteAt(p + 1) \in Nat
    BY <1>2 DEF TypeOK, ByteAt
  <2>2. QED
    BY <1>2, <2>1 DEF TypeOK, ReadUint16BE, Read
<1>3. QED
  BY <1>1, <1>2 DEF TypeOK

\* A key, or a string: m_pos does not go back, nor past the end.
LEMMA ReadObjectKeyMoves ==
    ASSUME TypeOK, NEW p \in 0 .. Len(data)
    PROVE  ReadObjectKey(p).pos \in p .. Len(data)
<1> DEFINE n == ReadUint16BE(p)
<1>1. n.pos \in p .. Len(data) /\ n.val \in Nat
  BY ReadUint16BEMoves
<1>2. ReadStringData(n.pos, n.val).pos \in n.pos .. Len(data)
  BY <1>1, ReadStringDataMoves DEF TypeOK
<1>3. QED
  BY <1>1, <1>2 DEF ReadObjectKey, TypeOK

LEMMA DecodeScalarAtMoves ==
    ASSUME TypeOK, NEW marker, NEW p \in 0 .. Len(data)
    PROVE  /\ DecodeScalarAt(marker, p).pos \in p .. Len(data)
           /\ DecodeScalarAt(marker, p).val[1] \in ValueTypes
<1> DEFINE Moves(r) == r.pos \in p .. Len(data) /\ r.val[1] \in ValueTypes
<1>1. /\ ReadDouble(p).pos \in p .. Len(data)
      /\ ReadUint8(p).pos \in p .. Len(data)
      /\ ReadObjectKey(p).pos \in p .. Len(data)
  BY ReadObjectKeyMoves, AMF0Assumption DEF TypeOK, ReadDouble, ReadUint8, Read
<1>2. Moves(DecodeNumber(p))
  BY <1>1 DEF DecodeNumber, Read, Number, ValueTypes
<1>3. Moves(DecodeBoolean(p))
  BY <1>1 DEF DecodeBoolean, Read, Boolean, ValueTypes
<1>4. Moves(DecodeString(p))
  BY <1>1 DEF DecodeString, Read, String, ValueTypes
<1>5. Moves(Read(Null, Len(data))) /\ Moves(Read(Null, p))
  BY DEF TypeOK, Read, Null, ValueTypes
<1>6. DecodeScalarAt(marker, p) \in {DecodeNumber(p), DecodeBoolean(p), DecodeString(p),
                                     Read(Null, Len(data)), Read(Null, p)}
  BY DEF DecodeScalarAt
<1>7. QED
  BY <1>2, <1>3, <1>4, <1>5, <1>6

-----------------------------------------------------------------------------
(* The inductive invariant *)

LEMMA InitIInv == Init => IInv
BY DEF Init, IInv, TypeOK, ControlInv, NestingBounded, IsSequence, Null, ValueTypes

LEMMA ReceiveIInv ==
    ASSUME IInv, control = "idle", NEW m \in Messages, NEW tail \in Tails,
           NEW kept \in 0 .. Len(Payload(m.items)), Receive(m, kept, tail)
    PROVE  IInv'
<1> DEFINE s == SubSeq(Payload(m.items), 1, kept)
<1>1. Payload(m.items) \in Seq(Nat) /\ tail \in Seq(Nat)
  BY RtmpCommandAssumption
<1>2. s \in Seq(Nat)
  BY <1>1, SubSeqProperties
<1>3. data' \in Seq(Nat) /\ Len(data') \in Nat
  BY <1>1, <1>2 DEF Receive
<1>4. QED
  BY <1>3 DEF IInv, TypeOK, ControlInv, NestingBounded, Receive, IsSequence

\* One lemma for every step of the decoder: it keeps the invariant and lowers the
\* measure.
LEMMA DecodeNothingStep ==
    ASSUME IInv, DecodeNothing
    PROVE  IInv' /\ Lowers
BY SequenceLen DEF IInv, TypeOK, ControlInv, NestingBounded, IsSequence, DecodeNothing,
   Return, HasMore, Lowers, Rank, Null, ValueTypes

LEMMA DecodeScalarStep ==
    ASSUME IInv, DecodeScalar
    PROVE  IInv' /\ Lowers
<1> DEFINE r == DecodeScalarAt(ByteAt(pos), pos + 1)
<1>1. pos + 1 \in 0 .. Len(data)
  BY DEF IInv, TypeOK, DecodeScalar, HasMore
<1>2. r.pos \in pos + 1 .. Len(data) /\ r.val[1] \in ValueTypes
  BY <1>1, DecodeScalarAtMoves DEF IInv
<1>3. /\ pos' = r.pos /\ ret' = r.val /\ control' = "return"
      /\ UNCHANGED <<data, stack>>
  BY DEF DecodeScalar, Return
<1>4. Len(stack) \in Nat
  BY SequenceLen DEF IInv, TypeOK
<1>5. TypeOK'
  BY <1>2, <1>3 DEF IInv, TypeOK, IsSequence
<1>6. ControlInv' /\ NestingBounded'
  BY <1>2, <1>3, <1>4 DEF IInv, TypeOK, ControlInv, NestingBounded
<1>7. Lowers
  BY <1>2, <1>3 DEF IInv, TypeOK, Lowers
<1>8. QED
  BY <1>5, <1>6, <1>7 DEF IInv

LEMMA EnterObjectStep ==
    ASSUME IInv, EnterObject
    PROVE  IInv' /\ Lowers
<1> DEFINE frame == [key |-> <<>>, properties |-> <<>>]
<1>1. pos' \in pos + 1 .. Len(data)
  BY DEF IInv, TypeOK, EnterObject, HasMore, SkipUint32BE
<1>2. /\ stack' = Append(stack, frame) /\ control' = "object"
      /\ UNCHANGED <<data, ret>>
  BY DEF EnterObject
<1>3. IsSequence(stack') /\ Len(stack') = Len(stack) + 1
  BY <1>2, AppendSequence DEF IInv, TypeOK
<1>4. Len(stack) \in Nat /\ stack' # <<>>
  BY <1>3, SequenceLen DEF IInv, TypeOK
<1>5. TypeOK'
  BY <1>1, <1>2, <1>3 DEF IInv, TypeOK
<1>6. ControlInv' /\ NestingBounded'
  BY <1>1, <1>2, <1>3, <1>4 DEF IInv, TypeOK, ControlInv, NestingBounded
<1>7. Lowers
  BY <1>1, <1>2 DEF IInv, TypeOK, Lowers
<1>8. QED
  BY <1>5, <1>6, <1>7 DEF IInv

LEMMA ReadKeyStep ==
    ASSUME IInv, ReadKey
    PROVE  IInv' /\ Lowers
<1> DEFINE q == ReadObjectKey(pos)
           frame == [stack[Top] EXCEPT !.key = q.val]
<1>1. q.pos \in pos .. Len(data)
  BY ReadObjectKeyMoves DEF IInv, TypeOK
<1>2. /\ pos' = q.pos /\ control = "object" /\ control' = "decode" /\ HasMore
      /\ stack' = [stack EXCEPT ![Top] = frame]
      /\ UNCHANGED <<data, ret>>
  BY DEF ReadKey
<1>3. IsSequence(stack') /\ Len(stack') = Len(stack) /\ Len(stack) \in Nat
  BY <1>2, ExceptSequence, SequenceLen DEF IInv, TypeOK
<1>4. TypeOK'
  BY <1>1, <1>2, <1>3 DEF IInv, TypeOK
<1>5. ControlInv' /\ NestingBounded'
  BY <1>1, <1>2, <1>3 DEF IInv, TypeOK, ControlInv, NestingBounded
<1>6. Lowers
  BY <1>1, <1>2, <1>3 DEF IInv, TypeOK, Lowers, Rank, HasMore
<1>7. QED
  BY <1>4, <1>5, <1>6 DEF IInv

\* LeaveObject pops the innermost object.
LEMMA LeaveObjectPops ==
    ASSUME IInv, control = "object", LeaveObject
    PROVE  /\ IsSequence(stack') /\ Len(stack') = Len(stack) - 1 /\ Len(stack) \in Nat
           /\ control' = "return" /\ ret'[1] \in ValueTypes
<1>1. IsSequence(stack) /\ stack # <<>> /\ stack' = SubSeq(stack, 1, Len(stack) - 1)
  BY DEF IInv, TypeOK, ControlInv, LeaveObject, Top
<1>2. IsSequence(stack') /\ Len(stack') = Len(stack) - 1
  BY <1>1, PopSequence
<1>3. QED
  BY <1>1, <1>2, SequenceLen DEF LeaveObject, Return, Object, ValueTypes

LEMMA ReadObjectEndStep ==
    ASSUME IInv, ReadObjectEnd
    PROVE  IInv' /\ Lowers
<1> DEFINE q == ReadObjectKey(pos)
<1>1. q.pos \in pos .. Len(data) /\ q.pos < Len(data)
  BY ReadObjectKeyMoves DEF IInv, TypeOK, ReadObjectEnd, EndAfter
<1>2. pos' = q.pos + 1 /\ UNCHANGED data
  BY DEF ReadObjectEnd
<1>3. /\ IsSequence(stack') /\ Len(stack') = Len(stack) - 1 /\ Len(stack) \in Nat
      /\ control' = "return" /\ ret'[1] \in ValueTypes
  BY LeaveObjectPops DEF ReadObjectEnd
<1>4. TypeOK'
  BY <1>1, <1>2, <1>3 DEF IInv, TypeOK
<1>5. ControlInv' /\ NestingBounded'
  BY <1>1, <1>2, <1>3 DEF IInv, TypeOK, ControlInv, NestingBounded
<1>6. Lowers
  BY <1>1, <1>2 DEF IInv, TypeOK, Lowers
<1>7. QED
  BY <1>4, <1>5, <1>6 DEF IInv

LEMMA ReachDataEndStep ==
    ASSUME IInv, ReachDataEnd
    PROVE  IInv' /\ Lowers
<1>1. /\ IsSequence(stack') /\ Len(stack') = Len(stack) - 1 /\ Len(stack) \in Nat
      /\ control' = "return" /\ ret'[1] \in ValueTypes
  BY LeaveObjectPops DEF ReachDataEnd
<1>2. UNCHANGED <<data, pos>>
  BY DEF ReachDataEnd
<1>3. TypeOK'
  BY <1>1, <1>2 DEF IInv, TypeOK
<1>4. ControlInv' /\ NestingBounded'
  BY <1>1, <1>2 DEF IInv, TypeOK, ControlInv, NestingBounded
<1>5. Lowers
  BY <1>1, <1>2 DEF IInv, TypeOK, Lowers
<1>6. QED
  BY <1>3, <1>4, <1>5 DEF IInv

LEMMA StorePropertyStep ==
    ASSUME IInv, StoreProperty
    PROVE  IInv' /\ Lowers
<1> DEFINE frame == [stack[Top] EXCEPT !.properties = Append(@, <<stack[Top].key, ret>>)]
<1>1. /\ control = "return" /\ control' = "object" /\ stack # <<>>
      /\ stack' = [stack EXCEPT ![Top] = frame]
      /\ UNCHANGED <<data, pos, ret>>
  BY DEF StoreProperty
<1>2. IsSequence(stack') /\ Len(stack') = Len(stack) /\ Len(stack) \in Nat
  BY <1>1, ExceptSequence, SequenceLen DEF IInv, TypeOK
<1>3. stack' # <<>>
  BY <1>1, <1>2, SequenceLen DEF IInv, TypeOK, IsSequence
<1>4. IInv'
  <2>1. TypeOK'
    BY <1>1, <1>2 DEF IInv, TypeOK
  <2>2. ControlInv' /\ NestingBounded'
    BY <1>1, <1>2, <1>3 DEF IInv, ControlInv, NestingBounded
  <2>3. QED
    BY <2>1, <2>2 DEF IInv
<1>5. Rank' < Rank
  <2>1. HasMore' = HasMore
    BY <1>1 DEF HasMore
  <2>2. CASE HasMore
    <3>1. Rank = 3 /\ Rank' = 2
      BY <1>1, <2>1, <2>2 DEF Rank
    <3>2. QED
      BY <3>1
  <2>3. CASE ~HasMore
    <3>1. Rank = 2 /\ Rank' = 1
      BY <1>1, <2>1, <2>3 DEF Rank
    <3>2. QED
      BY <3>1
  <2>4. QED
    BY <2>2, <2>3
<1>6. QED
  BY <1>1, <1>2, <1>4, <1>5 DEF Lowers

LEMMA DecoderKeepsIInv ==
    ASSUME IInv, Decoder
    PROVE  IInv' /\ Lowers
BY DecodeNothingStep, DecodeScalarStep, EnterObjectStep, ReadKeyStep, ReadObjectEndStep,
   ReachDataEndStep, StorePropertyStep DEF Decoder, DecoderStep

LEMMA HandlerKeepsIInv ==
    ASSUME IInv, Handler
    PROVE  IInv'
<1>1. CASE TakeValue
  BY <1>1 DEF TakeValue, IInv, TypeOK, ControlInv, NestingBounded, IsSequence
<1>2. CASE HandleCommand
  BY <1>2 DEF HandleCommand, IInv, TypeOK, ControlInv, NestingBounded, IsSequence
<1>3. CASE HandleData
  BY <1>3 DEF HandleData, IInv, TypeOK, ControlInv, NestingBounded, IsSequence
<1>4. CASE HandleReply
  BY <1>4 DEF HandleReply, IInv, TypeOK, ControlInv, NestingBounded, IsSequence
<1>5. CASE MessageDone
  BY <1>5 DEF MessageDone, IInv, TypeOK, ControlInv, NestingBounded, IsSequence, Null, ValueTypes
<1>6. QED
  BY <1>1, <1>2, <1>3, <1>4, <1>5 DEF Handler

LEMMA NextKeepsIInv == IInv /\ [Next]_vars => IInv'
<1> SUFFICES ASSUME IInv, [Next]_vars
             PROVE  IInv'
  OBVIOUS
<1>1. CASE control = "idle" /\ \E m \in Messages, tail \in Tails :
                \E kept \in 0 .. Len(Payload(m.items)) : Receive(m, kept, tail)
  BY <1>1, ReceiveIInv
<1>2. CASE Decoder
  BY <1>2, DecoderKeepsIInv
<1>3. CASE Handler
  BY <1>3, HandlerKeepsIInv
<1>4. CASE UNCHANGED vars
  BY <1>4 DEF vars, decoderVars, IInv, TypeOK, ControlInv, NestingBounded, IsSequence
<1>5. QED
  BY <1>1, <1>2, <1>3, <1>4 DEF Next

THEOREM Invariance == Spec => []IInv
<1>1. IInv /\ [Next]_vars => IInv'
  BY NextKeepsIInv
<1>2. QED
  BY <1>1, InitIInv, PTL DEF Spec

-----------------------------------------------------------------------------
(* Numbers, and sequences one behind the other *)

\* A set of numbers that has any has a least one.
LEMMA Least ==
    ASSUME NEW T, T \subseteq Nat, T # {}
    PROVE  \E x \in T : \A y \in T : x <= y
<1> DEFINE R == OpToRel(<, Nat)
<1>1. IsWellFoundedOn(R, Nat)
  BY NatLessThanWellFounded
<1>2. \A a, b \in Nat : a < b => <<a, b>> \in R
  BY DEF R, OpToRel
<1> HIDE DEF R
<1>3. PICK x \in T : \A y \in T : <<y, x>> \notin R
  BY <1>1, WFMin
<1>4. ASSUME NEW y \in T PROVE x <= y
  <2>1. x \in Nat /\ y \in Nat
    OBVIOUS
  <2>2. ~ (y < x)
    BY <1>2, <1>3, <2>1
  <2> QED BY <2>1, <2>2
<1> QED BY <1>4

\* What a set of numbers has if it has 0 and the successor of all it has.
LEMMA Induction ==
    ASSUME NEW S, 0 \in S, \A n \in Nat : n \in S => n + 1 \in S
    PROVE  Nat \subseteq S
<1> DEFINE T == Nat \ S
<1>1. SUFFICES ASSUME T # {} PROVE FALSE
  OBVIOUS
<1>2. PICK x \in T : \A y \in T : x <= y
  <2> HIDE DEF T
  <2>1. T \subseteq Nat
    BY DEF T
  <2> QED BY <1>1, <2>1, Least
<1>3. x \in Nat /\ x # 0 /\ x \notin S
  OBVIOUS
<1>4. x - 1 \in Nat /\ x - 1 + 1 = x /\ ~ (x <= x - 1)
  BY <1>3
<1>5. x - 1 \in S
  BY <1>2, <1>4
<1> QED BY <1>3, <1>4, <1>5

\* The members of f are the first of s, the first two together, and so on.
Adds(f, s, n) ==
    /\ n > 0 => f[1] = s[1]
    /\ \A i \in 2 .. n : f[i] = f[i - 1] \o s[i]

\* Two sums that add the same sequences are the same.
LEMMA AddsSame ==
    ASSUME NEW s, NEW n \in Nat, NEW f, NEW g, Adds(f, s, n), Adds(g, s, n)
    PROVE  \A i \in 1 .. n : f[i] = g[i]
<1> DEFINE G == {i \in Nat : i \in 1 .. n => f[i] = g[i]}
<1>1. 0 \in G
  OBVIOUS
<1>2. ASSUME NEW i \in Nat, i \in G PROVE i + 1 \in G
  <2>1. SUFFICES ASSUME i + 1 \in 1 .. n PROVE f[i + 1] = g[i + 1]
    OBVIOUS
  <2>2. PICK j : j = i + 1
    OBVIOUS
  <2>3. j \in 1 .. n /\ j - 1 = i
    BY <2>1, <2>2
  <2>4. CASE j = 1
    BY <2>2, <2>3, <2>4 DEF Adds
  <2>5. CASE j # 1
    <3>1. j \in 2 .. n /\ i \in 1 .. n
      BY <2>3, <2>5
    <3>2. f[i] = g[i]
      BY <1>2, <3>1
    <3> QED BY <2>2, <2>3, <3>1, <3>2 DEF Adds
  <2> QED BY <2>4, <2>5
<1>3. Nat \subseteq G
  <2> HIDE DEF G
  <2> QED BY <1>1, <1>2, Induction
<1> QED BY <1>3

\* FlattenSeq adds them.
LEMMA FlattenIs ==
    ASSUME NEW S, NEW s \in Seq(Seq(S)), s # <<>>
    PROVE  \E f \in [1 .. Len(s) -> Seq(S)] : Adds(f, s, Len(s)) /\ FlattenSeq(s) = f[Len(s)]
<1> DEFINE L == Len(s)
<1>1. L \in Nat \ {0} /\ \A i \in 1 .. L : s[i] \in Seq(S)
  OBVIOUS
<1> DEFINE G == {n \in Nat : n <= L => \E f \in [1 .. n -> Seq(S)] : Adds(f, s, n)}
<1>2. 0 \in G
  <2>1. [i \in 1 .. 0 |-> <<>>] \in [1 .. 0 -> Seq(S)]
    OBVIOUS
  <2>2. Adds([i \in 1 .. 0 |-> <<>>], s, 0)
    BY DEF Adds
  <2> QED BY <2>1, <2>2
<1>3. ASSUME NEW n \in Nat, n \in G PROVE n + 1 \in G
  <2>1. SUFFICES ASSUME n + 1 <= L PROVE \E f \in [1 .. n + 1 -> Seq(S)] : Adds(f, s, n + 1)
    OBVIOUS
  <2>2. PICK f \in [1 .. n -> Seq(S)] : Adds(f, s, n)
    BY <1>1, <1>3, <2>1
  <2>3. PICK m : m = n + 1
    OBVIOUS
  <2>4. m \in Nat \ {0} /\ m - 1 = n /\ m \in 1 .. L
    BY <1>1, <2>1, <2>3
  <2>5. s[m] \in Seq(S)
    BY <1>1, <2>4
  <2>6. PICK e : e = IF m = 1 THEN s[1] ELSE f[n] \o s[m]
    OBVIOUS
  <2>7. e \in Seq(S)
    <3>1. CASE m = 1
      BY <2>5, <2>6, <3>1
    <3>2. CASE m # 1
      <4>1. f[n] \in Seq(S)
        BY <2>4, <3>2
      <4> QED BY <2>5, <2>6, <3>2, <4>1, ConcatProperties
    <3> QED BY <3>1, <3>2
  <2> DEFINE g == [i \in 1 .. m |-> IF i = m THEN e ELSE f[i]]
  <2>8. g \in [1 .. m -> Seq(S)]
    BY <2>4, <2>7
  <2>9. g[m] = e /\ \A i \in 1 .. n : g[i] = f[i]
    BY <2>4
  <2> HIDE DEF g
  <2>10. Adds(g, s, m)
    <3>1. g[1] = s[1]
      BY <2>2, <2>4, <2>6, <2>9 DEF Adds
    <3>2. ASSUME NEW i \in 2 .. m PROVE g[i] = g[i - 1] \o s[i]
      <4>1. CASE i = m
        <5>1. m # 1 /\ n \in 1 .. n /\ g[n] = f[n]
          BY <2>4, <2>9, <4>1
        <5> QED BY <2>4, <2>6, <2>9, <4>1, <5>1
      <4>2. CASE i # m
        <5>1. i \in 2 .. n /\ i \in 1 .. n /\ i - 1 \in 1 .. n
          BY <2>4, <4>2
        <5> QED BY <2>2, <2>9, <5>1 DEF Adds
      <4> QED BY <4>1, <4>2
    <3> QED BY <3>1, <3>2 DEF Adds
  <2> QED BY <2>3, <2>8, <2>10
<1>4. L \in G
  <2> HIDE DEF G
  <2>1. Nat \subseteq G
    BY <1>2, <1>3, Induction
  <2> QED BY <1>1, <2>1
<1>5. PICK f \in [1 .. L -> Seq(S)] : Adds(f, s, L)
  BY <1>1, <1>4
<1> DEFINE Is(h) == h = [i \in 1 .. L |-> IF i = 1 THEN s[i] ELSE h[i - 1] \o s[i]]
<1>6. Is(f)
  <2>1. ASSUME NEW i \in 1 .. L PROVE f[i] = IF i = 1 THEN s[i] ELSE f[i - 1] \o s[i]
    <3>1. CASE i = 1
      BY <1>1, <1>5, <3>1 DEF Adds
    <3>2. CASE i # 1
      <4>1. i \in 2 .. L
        BY <1>1, <3>2
      <4> QED BY <1>5, <3>2, <4>1 DEF Adds
    <3> QED BY <3>1, <3>2
  <2> QED BY <2>1
<1>7. PICK h : h = CHOOSE x : Is(x)
  OBVIOUS
<1>8. Is(h)
  BY <1>6, <1>7
<1>9. FlattenSeq(s) = h[L]
  BY <1>1, <1>7 DEF FlattenSeq
<1>10. /\ DOMAIN h = 1 .. L
       /\ \A i \in 1 .. L : h[i] = IF i = 1 THEN s[i] ELSE h[i - 1] \o s[i]
  BY <1>8
<1>11. Adds(h, s, L)
  <2>1. h[1] = s[1]
    <3>1. 1 \in 1 .. L
      BY <1>1
    <3> QED BY <1>10, <3>1
  <2>2. ASSUME NEW i \in 2 .. L PROVE h[i] = h[i - 1] \o s[i]
    <3>1. i \in 1 .. L /\ i # 1
      BY <1>1
    <3> QED BY <1>10, <3>1
  <2> QED BY <2>1, <2>2 DEF Adds
<1>12. \A i \in 1 .. L : h[i] = f[i]
  BY <1>1, <1>5, <1>11, AddsSame
<1>13. h \in [1 .. L -> Seq(S)]
  BY <1>8, <1>12
<1> QED BY <1>9, <1>11, <1>13

\* Nothing flattened is nothing.
LEMMA FlattenNothing == FlattenSeq(<<>>) = <<>>
BY DEF FlattenSeq

\* A sequence more is added at the end.
LEMMA FlattenAppend ==
    ASSUME NEW S, NEW s \in Seq(Seq(S)), NEW e \in Seq(S)
    PROVE  /\ FlattenSeq(s) \in Seq(S)
           /\ FlattenSeq(Append(s, e)) = FlattenSeq(s) \o e
<1>1. PICK n \in Nat : n = Len(s)
  OBVIOUS
<1>2. PICK t : t = Append(s, e)
  OBVIOUS
<1>3. /\ t \in Seq(Seq(S)) /\ t # <<>> /\ Len(t) = n + 1 /\ t[n + 1] = e
      /\ \A i \in 1 .. n : t[i] = s[i]
  BY <1>1, <1>2
<1>4. PICK g \in [1 .. n + 1 -> Seq(S)] : Adds(g, t, n + 1) /\ FlattenSeq(t) = g[n + 1]
  BY <1>3, FlattenIs
<1>5. CASE s = <<>>
  <2>1. n = 0 /\ t[1] = e
    BY <1>1, <1>3, <1>5
  <2>2. g[1] = e
    BY <1>4, <2>1 DEF Adds
  <2>3. <<>> \o e = e /\ <<>> \in Seq(S)
    OBVIOUS
  <2>4. FlattenSeq(t) = e
    BY <1>4, <2>1, <2>2
  <2>5. FlattenSeq(s) = <<>>
    BY <1>5, FlattenNothing
  <2> QED BY <1>2, <2>3, <2>4, <2>5
<1>6. CASE s # <<>>
  <2>1. n # 0 /\ n \in 1 .. n /\ n + 1 \in 2 .. n + 1 /\ n + 1 - 1 = n
    BY <1>1, <1>6
  <2>2. PICK f \in [1 .. n -> Seq(S)] : Adds(f, s, n) /\ FlattenSeq(s) = f[n]
    BY <1>1, <1>6, FlattenIs
  <2>3. Adds(g, s, n)
    <3>1. g[1] = t[1] /\ 1 \in 1 .. n
      BY <1>4, <2>1 DEF Adds
    <3>2. g[1] = s[1]
      BY <1>3, <3>1
    <3>3. ASSUME NEW i \in 2 .. n PROVE g[i] = g[i - 1] \o s[i]
      <4>1. i \in 2 .. n + 1 /\ i \in 1 .. n
        OBVIOUS
      <4>2. g[i] = g[i - 1] \o t[i]
        BY <1>4, <4>1 DEF Adds
      <4> QED BY <1>3, <4>1, <4>2
    <3> QED BY <3>2, <3>3 DEF Adds
  <2>4. g[n] = f[n]
    <3>1. Adds(f, s, n) /\ n \in 1 .. n
      BY <1>1, <2>1, <2>2
    <3>2. \A i \in 1 .. n : g[i] = f[i]
      BY <1>1, <2>3, <3>1, AddsSame, SMTT(30)
    <3>3. QED
      BY <3>1, <3>2
  <2>5. g[n + 1] = g[n] \o e
    <3>1. \A i \in 2 .. n + 1 : g[i] = g[i - 1] \o t[i]
      BY <1>4 DEF Adds
    <3>2. PICK m : m = n + 1
      OBVIOUS
    <3>3. m \in 2 .. n + 1 /\ m - 1 = n
      BY <2>1, <3>2
    <3>4. g[m] = g[m - 1] \o t[m]
      BY <3>1, <3>3
    <3>5. g[m] = g[n] \o t[m]
      BY <3>3, <3>4
    <3> QED BY <1>3, <3>2, <3>5
  <2>6. f[n] \in Seq(S)
    <3>1. \A i \in 1 .. n : f[i] \in Seq(S)
      BY <2>2
    <3> QED BY <2>1, <3>1
  <2> QED BY <1>2, <1>4, <2>2, <2>4, <2>5, <2>6
<1> QED BY <1>5, <1>6

-----------------------------------------------------------------------------
(* What lies where in a payload *)

\* Items, or properties, in the encoder's bytes.
AreItems(ps) == IsSequence(ps) /\ \A i \in DOMAIN ps : ps[i].bytes \in Seq(Nat)

\* The bytes of the first n items.
Start(ps, n) == Payload(SubSeq(ps, 1, n))

\* The bytes b lie in d behind its first q.
At(d, q, b) == q + Len(b) <= Len(d) /\ \A k \in 1 .. Len(b) : d[q + k] = b[k]

\* The bytes of the first n items are those items' bytes, flattened.
LEMMA StartIs ==
    ASSUME NEW ps, AreItems(ps), NEW n \in 0 .. Len(ps)
    PROVE  /\ [i \in 1 .. n |-> ps[i].bytes] \in Seq(Seq(Nat))
           /\ Start(ps, n) = FlattenSeq([i \in 1 .. n |-> ps[i].bytes])
           /\ Start(ps, n) \in Seq(Nat)
<1> DEFINE b == [i \in 1 .. n |-> ps[i].bytes]
<1>1. Len(ps) \in Nat /\ DOMAIN ps = 1 .. Len(ps) /\ n \in Nat
  BY SequenceLen DEF AreItems
<1>2. b \in [1 .. n -> Seq(Nat)]
  BY <1>1 DEF AreItems
<1>3. b \in Seq(Seq(Nat))
  BY <1>1, <1>2
<1> DEFINE t == SubSeq(ps, 1, n)
<1>4. /\ DOMAIN t = 1 .. n
      /\ \A i \in 1 .. n : t[i] = ps[i]
  <2>1. ps \in Seq({ps[i] : i \in DOMAIN ps})
    BY DEF AreItems, IsSequence
  <2>2. PICK S : ps \in Seq(S)
    BY <2>1
  <2>3. QED
    BY <1>1, <2>2, SubSeqProperties
<1>5. [i \in DOMAIN t |-> t[i].bytes] = b
  BY <1>4
<1>6. Start(ps, n) = FlattenSeq(b)
  BY <1>5 DEF Start, Payload
<1>7. FlattenSeq(b) \in Seq(Nat)
  <2> HIDE DEF b
  <2>1. <<>> \in Seq(Nat)
    OBVIOUS
  <2>2. QED
    BY <1>3, <2>1, FlattenAppend
<1>8. QED
  BY <1>3, <1>6, <1>7

\* No items have no bytes,
LEMMA StartNothing ==
    ASSUME NEW ps, AreItems(ps)
    PROVE  Start(ps, 0) = <<>>
<1>1. 0 \in 0 .. Len(ps)
  BY SequenceLen DEF AreItems
<1>2. Start(ps, 0) = FlattenSeq([i \in 1 .. 0 |-> ps[i].bytes])
  BY <1>1, StartIs
<1>3. [i \in 1 .. 0 |-> ps[i].bytes] = <<>>
  OBVIOUS
<1>4. QED
  BY <1>2, <1>3, FlattenNothing

\* the next item's bytes follow those before,
LEMMA StartNext ==
    ASSUME NEW ps, AreItems(ps), NEW n \in Nat, n < Len(ps)
    PROVE  /\ ps[n + 1].bytes \in Seq(Nat)
           /\ Start(ps, n) \in Seq(Nat)
           /\ Start(ps, n + 1) = Start(ps, n) \o ps[n + 1].bytes
<1>1. PICK L \in Nat : L = Len(ps) /\ DOMAIN ps = 1 .. L
  BY SequenceLen DEF AreItems
<1>2. n \in 0 .. L /\ n + 1 \in 0 .. L /\ n + 1 \in 1 .. L
  BY <1>1
<1>3. ps[n + 1].bytes \in Seq(Nat)
  BY <1>1, <1>2 DEF AreItems
<1>4. PICK b : b = [i \in 1 .. n |-> ps[i].bytes]
  OBVIOUS
<1>5. b \in Seq(Seq(Nat)) /\ Start(ps, n) = FlattenSeq(b) /\ Start(ps, n) \in Seq(Nat)
  BY <1>1, <1>2, <1>4, StartIs
<1>6. PICK e : e = ps[n + 1].bytes
  OBVIOUS
<1>7. [i \in 1 .. n + 1 |-> ps[i].bytes] = Append(b, e)
  <2>1. Len(b) = n /\ \A i \in 1 .. n : b[i] = ps[i].bytes
    BY <1>4
  <2>2. PICK c : c = Append(b, e)
    OBVIOUS
  <2>3. /\ c \in Seq(Seq(Nat)) /\ Len(c) = n + 1 /\ c[n + 1] = e
        /\ \A i \in 1 .. n : c[i] = b[i]
    BY <1>3, <1>5, <1>6, <2>1, <2>2
  <2>4. c = [i \in 1 .. n + 1 |-> c[i]]
    BY <2>3
  <2>5. \A i \in 1 .. n + 1 : c[i] = ps[i].bytes
    BY <1>6, <2>1, <2>3
  <2>6. QED
    BY <2>2, <2>4, <2>5
<1>8. Start(ps, n + 1) = FlattenSeq(Append(b, e))
  BY <1>1, <1>2, <1>7, StartIs
<1>9. QED
  BY <1>3, <1>5, <1>6, <1>8, FlattenAppend

\* and all the items have the payload's.
LEMMA StartAll ==
    ASSUME NEW ps, AreItems(ps)
    PROVE  Start(ps, Len(ps)) = Payload(ps) /\ Payload(ps) \in Seq(Nat)
<1>1. PICK L \in Nat : L = Len(ps) /\ DOMAIN ps = 1 .. L
  BY SequenceLen DEF AreItems
<1>2. L \in 0 .. L
  BY <1>1
<1>3. /\ Start(ps, L) = FlattenSeq([i \in 1 .. L |-> ps[i].bytes])
      /\ Start(ps, L) \in Seq(Nat)
  BY <1>1, <1>2, StartIs
<1>4. Payload(ps) = FlattenSeq([i \in 1 .. L |-> ps[i].bytes])
  BY <1>1 DEF Payload
<1>5. QED
  BY <1>1, <1>3, <1>4

\* What lies where in a concatenation.
LEMMA ConcatIs ==
    ASSUME NEW a \in Seq(Nat), NEW b \in Seq(Nat), NEW c, c = a \o b,
           NEW m, m = Len(a), NEW n, n = Len(b)
    PROVE  /\ c \in Seq(Nat) /\ Len(c) = m + n /\ m \in Nat /\ n \in Nat
           /\ \A k \in 1 .. m : c[k] = a[k]
           /\ \A k \in 1 .. n : c[m + k] = b[k]
OBVIOUS

\* Two stretches, one behind the other.
LEMMA AtConcat ==
    ASSUME NEW d, Len(d) \in Nat, NEW q \in Nat, NEW a \in Seq(Nat), NEW b \in Seq(Nat),
           At(d, q, a \o b)
    PROVE  At(d, q, a) /\ At(d, q + Len(a), b)
<1>1. PICK c : c = a \o b
  OBVIOUS
<1>2. PICK m \in Nat : m = Len(a)
  OBVIOUS
<1>3. PICK n \in Nat : n = Len(b)
  OBVIOUS
<1>4. /\ Len(c) = m + n
      /\ \A k \in 1 .. m : c[k] = a[k]
      /\ \A k \in 1 .. n : c[m + k] = b[k]
  BY <1>1, <1>2, <1>3
<1>5. q + (m + n) <= Len(d) /\ \A k \in 1 .. m + n : d[q + k] = c[k]
  BY <1>1, <1>4 DEF At
<1>6. At(d, q, a)
  BY <1>2, <1>4, <1>5 DEF At
<1>7. \A k \in 1 .. n : d[q + m + k] = b[k]
  <2>1. TAKE k \in 1 .. n
  <2>2. m + k \in 1 .. m + n /\ q + (m + k) = q + m + k
    OBVIOUS
  <2>3. d[q + (m + k)] = c[m + k]
    BY <1>5, <2>2
  <2>4. QED
    BY <1>4, <2>2, <2>3
<1>8. At(d, q + m, b)
  BY <1>3, <1>5, <1>7 DEF At
<1>9. QED
  BY <1>2, <1>6, <1>8

\* Where n items lie, the first m of them do.
LEMMA AtStart ==
    ASSUME NEW ps, AreItems(ps), NEW n \in 0 .. Len(ps),
           NEW d, Len(d) \in Nat, NEW q \in Nat, At(d, q, Start(ps, n)),
           NEW m \in 0 .. n
    PROVE  At(d, q, Start(ps, m))
<1>1. Len(ps) \in Nat
  BY SequenceLen DEF AreItems
<1> DEFINE G == {j \in Nat : j <= n => At(d, q, Start(ps, n - j))}
<1>2. 0 \in G
  BY <1>1
<1>3. ASSUME NEW j \in Nat, j \in G
      PROVE  j + 1 \in G
  <2>1. SUFFICES ASSUME j + 1 <= n
                 PROVE  At(d, q, Start(ps, n - (j + 1)))
    OBVIOUS
  <2>2. PICK i : i = n - (j + 1)
    OBVIOUS
  <2>3. i \in Nat /\ i < Len(ps) /\ i + 1 = n - j
    BY <1>1, <2>1, <2>2
  <2>4. At(d, q, Start(ps, i + 1))
    BY <1>1, <1>3, <2>1, <2>3
  <2>5. At(d, q, Start(ps, i) \o ps[i + 1].bytes)
    BY <2>3, <2>4, StartNext
  <2>6. Start(ps, i) \in Seq(Nat) /\ ps[i + 1].bytes \in Seq(Nat)
    BY <2>3, StartNext
  <2>7. QED
    BY <2>2, <2>5, <2>6, AtConcat
<1>4. Nat \subseteq G
  <2> HIDE DEF G
  <2>1. QED
    BY <1>2, <1>3, Induction
<1>5. PICK j : j = n - m
  OBVIOUS
<1>6. j \in Nat /\ j <= n /\ n - j = m
  BY <1>1, <1>5
<1>7. QED
  BY <1>4, <1>6

\* and item m + 1 lies behind the first m.
LEMMA AtItem ==
    ASSUME NEW ps, AreItems(ps), NEW n \in 0 .. Len(ps),
           NEW d, Len(d) \in Nat, NEW q \in Nat, At(d, q, Start(ps, n)),
           NEW m \in Nat, m < n
    PROVE  At(d, q + Len(Start(ps, m)), ps[m + 1].bytes)
<1>1. Len(ps) \in Nat
  BY SequenceLen DEF AreItems
<1>2. m + 1 \in 0 .. n /\ m < Len(ps)
  BY <1>1
<1>3. At(d, q, Start(ps, m + 1))
  BY <1>2, AtStart
<1>4. QED
  BY <1>2, <1>3, StartNext, AtConcat

-----------------------------------------------------------------------------
(* What the decoder makes of the encoder's bytes *)

\* The part of the data where b lies is b.
LEMMA PartAt ==
    ASSUME NEW d \in Seq(Nat), NEW q \in Nat, NEW b \in Seq(Nat), At(d, q, b)
    PROVE  SubSeq(d, q + 1, q + Len(b)) = b
<1>1. PICK n \in Nat : n = Len(b)
  OBVIOUS
<1>2. PICK L \in Nat : L = Len(d)
  OBVIOUS
<1>3. q + n <= L /\ \A k \in 1 .. n : d[q + k] = b[k]
  BY <1>1, <1>2 DEF At
<1>4. PICK m : m = q + 1
  OBVIOUS
<1>5. PICK l : l = q + n
  OBVIOUS
<1>6. m \in Int /\ l \in Int /\ m .. l \subseteq 1 .. L /\ l - m + 1 = n
  BY <1>1, <1>2, <1>3, <1>4, <1>5
<1>7. \A i \in m .. l : d[i] \in Nat
  BY <1>2, <1>6
<1>8. PICK t : t = SubSeq(d, m, l)
  OBVIOUS
<1>9. /\ t \in Seq(Nat)
      /\ Len(t) = IF m <= l THEN l - m + 1 ELSE 0
      /\ \A i \in 1 .. l - m + 1 : t[i] = d[m + i - 1]
  BY <1>6, <1>7, <1>8, SubSeqProperties
<1>10. Len(t) = n
  BY <1>1, <1>4, <1>5, <1>6, <1>9
<1>11. ASSUME NEW i \in 1 .. n
       PROVE  t[i] = b[i]
  <2>1. m + i - 1 = q + i
    BY <1>1, <1>4
  <2>2. QED
    BY <1>3, <1>6, <1>9, <2>1
<1>12. t = b
  BY <1>1, <1>9, <1>10, <1>11, SeqEqual
<1>13. QED
  BY <1>1, <1>4, <1>5, <1>8, <1>12

\* A marker and what follows it.
LEMMA Behind ==
    ASSUME NEW d, Len(d) \in Nat, NEW q \in Nat, NEW x, x \in Nat, NEW b \in Seq(Nat),
           At(d, q, <<x>> \o b)
    PROVE  /\ Len(<<x>> \o b) = 1 + Len(b)
           /\ q + 1 + Len(b) <= Len(d)
           /\ d[q + 1] = x
           /\ At(d, q + 1, b)
<1>1. PICK h : h = <<x>>
  OBVIOUS
<1>2. h \in Seq(Nat) /\ Len(h) = 1 /\ h[1] = x
  BY <1>1
<1>3. At(d, q, h) /\ At(d, q + 1, b)
  BY <1>1, <1>2, AtConcat
<1>4. Len(h \o b) = 1 + Len(b)
  <2>1. Len(h \o b) = Len(h) + Len(b)
    BY <1>2, ConcatProperties
  <2>2. QED
    BY <1>2, <2>1
<1>5. QED
  BY <1>1, <1>2, <1>3, <1>4 DEF At

\* A string is written as its length in two bytes, and its bytes.
LEMMA StringDataIs ==
    ASSUME NEW s, IsShort(s)
    PROVE  /\ WriteStringData(s) \in Seq(Nat)
           /\ Len(WriteStringData(s)) = 2 + Len(s)
           /\ WriteStringData(s)[1] = (Len(s) \div 256) % 256
           /\ WriteStringData(s)[2] = Len(s) % 256
           /\ \A k \in 1 .. Len(s) : WriteStringData(s)[2 + k] = s[k]
<1>1. PICK n \in Nat : n = Len(s)
  BY DEF IsShort
<1>2. (n \div 256) % 256 \in Nat /\ n % 256 \in Nat
  OBVIOUS
<1>3. PICK h : h = <<(n \div 256) % 256, n % 256>>
  OBVIOUS
<1>4. h \in Seq(Nat) /\ Len(h) = 2 /\ h[1] = (n \div 256) % 256 /\ h[2] = n % 256
  BY <1>2, <1>3
<1>5. WriteStringData(s) = h \o s
  BY <1>1, <1>3 DEF WriteStringData, WriteUint16BE
<1>6. PICK c : c = h \o s
  OBVIOUS
<1>7. /\ c \in Seq(Nat) /\ Len(c) = 2 + n
      /\ c[1] = h[1] /\ c[2] = h[2]
      /\ \A k \in 1 .. n : c[2 + k] = s[k]
  <2>1. s \in Seq(Nat)
    BY DEF IsShort
  <2>2. /\ c \in Seq(Nat) /\ Len(c) = 2 + n
        /\ \A i \in 1 .. 2 + n : c[i] = IF i <= 2 THEN h[i] ELSE s[i - 2]
    <3>1. PICK j : j = Len(h)
      OBVIOUS
    <3>2. j = 2
      BY <1>4, <3>1
    <3>3. /\ c \in Seq(Nat) /\ Len(c) = j + n
          /\ \A i \in 1 .. j + n : c[i] = IF i <= j THEN h[i] ELSE s[i - j]
      <4>1. h \in Seq(Nat)
        BY <1>4
      <4>2. /\ c \in Seq(Nat) /\ Len(c) = Len(h) + Len(s)
            /\ \A i \in 1 .. Len(h) + Len(s) :
                 c[i] = IF i <= Len(h) THEN h[i] ELSE s[i - Len(h)]
        BY <1>6, <2>1, <4>1, ConcatProperties
      <4>3. QED
        BY <1>1, <3>1, <4>2
    <3>4. QED
      BY <3>2, <3>3
  <2>3. ASSUME NEW k \in 1 .. n
        PROVE  c[2 + k] = s[k]
    <3>1. PICK i : i = 2 + k
      OBVIOUS
    <3>2. i \in 1 .. 2 + n /\ ~ (i <= 2) /\ i - 2 = k
      BY <1>1, <3>1
    <3>3. QED
      BY <2>2, <3>1, <3>2
  <2>4. QED
    BY <1>1, <2>2, <2>3
<1>8. WriteStringData(s) = c
  BY <1>5, <1>6
<1>9. c[1] = (Len(s) \div 256) % 256 /\ c[2] = Len(s) % 256
  BY <1>1, <1>4, <1>7
<1>10. \A k \in 1 .. Len(s) : c[2 + k] = s[k]
  BY <1>1, <1>7
<1>11. c \in Seq(Nat) /\ Len(c) = 2 + Len(s)
  BY <1>1, <1>7
<1>12. QED
  BY <1>8, <1>9, <1>10, <1>11

\* A key, or a string, is read as it was written.
LEMMA KeyIsRead ==
    ASSUME TypeOK, NEW s, IsShort(s), NEW p \in Nat, At(data, p, WriteStringData(s))
    PROVE  /\ ReadObjectKey(p) = Read(s, p + 2 + Len(s))
           /\ p + 2 + Len(s) <= Len(data)
<1>1. PICK b : b = WriteStringData(s)
  OBVIOUS
<1>2. PICK n : n = Len(s)
  OBVIOUS
<1>3. n \in Nat /\ n < 65536 /\ s \in Seq(Nat)
  BY <1>2 DEF IsShort
<1>4. /\ b \in Seq(Nat) /\ Len(b) = 2 + n
      /\ b[1] = (n \div 256) % 256 /\ b[2] = n % 256
      /\ \A k \in 1 .. n : b[2 + k] = s[k]
  <2>1. /\ b \in Seq(Nat) /\ Len(b) = 2 + Len(s)
        /\ b[1] = (Len(s) \div 256) % 256 /\ b[2] = Len(s) % 256
        /\ \A k \in 1 .. Len(s) : b[2 + k] = s[k]
    BY <1>1, StringDataIs, ZenonT(30)
  <2>2. QED
    BY <1>2, <2>1
<1>5. PICK L \in Nat : L = Len(data)
  BY DEF TypeOK
<1>6. p + 2 + n <= L /\ \A k \in 1 .. 2 + n : data[p + k] = b[k]
  BY <1>1, <1>3, <1>4, <1>5 DEF At
<1>7. ByteAt(p) = b[1] /\ ByteAt(p + 1) = b[2]
  <2>1. 1 \in 1 .. 2 + n /\ 2 \in 1 .. 2 + n /\ p + 1 + 1 = p + 2
    BY <1>3
  <2>2. QED
    BY <1>6, <2>1 DEF ByteAt
<1>8. ReadUint16BE(p) = Read(n, p + 2)
  <2>1. ~ (p + 2 > L)
    BY <1>3, <1>6
  <2>2. ReadUint16BE(p) = Read(256 * b[1] + b[2], p + 2)
    BY <1>5, <1>7, <2>1 DEF ReadUint16BE
  <2>3. 256 * b[1] + b[2] = n
    <3>1. PICK h : h = b[1]
      OBVIOUS
    <3>2. PICK l : l = b[2]
      OBVIOUS
    <3>3. h = (n \div 256) % 256 /\ l = n % 256
      BY <1>4, <3>1, <3>2
    <3>4. 256 * h + l = n
      <4>1. PICK q \in Nat : q = n \div 256
        BY <1>3
      <4>2. n = 256 * q + l /\ q < 256
        BY <1>3, <3>3, <4>1
      <4>3. h = q
        BY <3>3, <4>1, <4>2
      <4>4. QED
        BY <4>2, <4>3
    <3>5. QED
      BY <3>1, <3>2, <3>4
  <2>4. QED
    BY <2>2, <2>3
<1>9. ReadObjectKey(p) = ReadStringData(p + 2, n)
  BY <1>8 DEF ReadObjectKey, Read
<1>10. SubSeq(data, p + 2 + 1, p + 2 + n) = s
  <2>1. \A k \in 1 .. n : p + 2 + k = p + (2 + k) /\ 2 + k \in 1 .. 2 + n
    BY <1>3
  <2>2. \A k \in 1 .. n : data[p + 2 + k] = s[k]
    BY <1>4, <1>6, <2>1
  <2>3. At(data, p + 2, s)
    BY <1>2, <1>5, <1>6, <2>2 DEF At
  <2>4. data \in Seq(Nat) /\ p + 2 \in Nat
    BY DEF TypeOK
  <2>5. QED
    BY <1>2, <1>3, <2>3, <2>4, PartAt
<1>11. ReadStringData(p + 2, n) = Read(s, p + 2 + n)
  <2>1. ~ (p + 2 + n > L)
    BY <1>3, <1>6
  <2>2. QED
    BY <1>5, <1>10, <2>1 DEF ReadStringData
<1>12. QED
  BY <1>2, <1>5, <1>6, <1>9, <1>11

\* A value at p is what Decode returns, having read the item's bytes.
ReadsAs(e, p) ==
    /\ p < Len(data)
    /\ ByteAt(p) \notin {ObjectMarker, ECMAArrayMarker, ObjectEndMarker}
    /\ DecodeScalarAt(ByteAt(p), p + 1) = Read(e.value, p + Len(e.bytes))

\* A number's double comes back in memory order, its bytes turned round twice.
LEMMA NumberIsRead ==
    ASSUME TypeOK, NEW b \in Seq(Nat), Len(b) = NumberLen, NEW p \in Nat,
           At(data, p, EncodeNumber(b))
    PROVE  ReadsAs(NumberItem(b), p)
<1>1. PICK L \in Nat : L = Len(data) /\ data \in Seq(Nat)
  BY DEF TypeOK
<1>2. PICK n \in Nat \ {0} : n = NumberLen
  BY AMF0Assumption
<1>3. PICK r : r = [i \in 1 .. n |-> b[n - i + 1]]
  OBVIOUS
<1>4. r = Reverse(b)
  <2>1. Len(b) = n
    BY <1>2
  <2>2. QED
    BY <1>3, <2>1 DEF Reverse
<1>5. r \in Seq(Nat) /\ Len(r) = n
  <2>1. \A i \in 1 .. n : n - i + 1 \in 1 .. n
    BY <1>2
  <2>2. \A i \in 1 .. n : b[n - i + 1] \in Nat
    BY <1>2, <2>1
  <2>3. r \in [1 .. n -> Nat]
    BY <1>3, <2>2
  <2>4. QED
    BY <1>2, <2>3
<1>6. PICK c : c = EncodeNumber(b)
  OBVIOUS
<1>7. c = <<0>> \o r
  BY <1>4, <1>6 DEF EncodeNumber, NumberMarker
<1>8. /\ Len(c) = 1 + n /\ p + 1 + n <= L /\ data[p + 1] = 0
      /\ At(data, p + 1, r)
  <2>1. At(data, p, <<0>> \o r)
    BY <1>6, <1>7
  <2>2. 0 \in Nat /\ Len(data) \in Nat
    BY <1>1
  <2>3. /\ Len(<<0>> \o r) = 1 + Len(r) /\ p + 1 + Len(r) <= Len(data)
        /\ data[p + 1] = 0 /\ At(data, p + 1, r)
    <3>1. r \in Seq(Nat)
      BY <1>5
    <3>2. QED
      BY <2>1, <2>2, <3>1, Behind
  <2>4. QED
    BY <1>1, <1>5, <1>7, <2>3
<1>9. p + 1 + n <= L
  BY <1>8
<1>10. ByteAt(p) = 0
  BY <1>8 DEF ByteAt
<1>11. SubSeq(data, p + 1 + 1, p + 1 + n) = r
  <2>1. p + 1 \in Nat
    OBVIOUS
  <2>2. QED
    BY <1>1, <1>5, <1>8, <2>1, PartAt
<1>12. Reverse(r) = b
  <2>1. Reverse(r) = [i \in 1 .. n |-> r[n - i + 1]]
    BY <1>5 DEF Reverse
  <2>2. \A i \in 1 .. n : r[n - i + 1] = b[i]
    <3>1. TAKE i \in 1 .. n
    <3>2. PICK j : j = n - i + 1
      OBVIOUS
    <3>3. j \in 1 .. n /\ n - j + 1 = i
      BY <1>2, <3>2
    <3>4. r[j] = b[n - j + 1]
      BY <1>3, <3>3
    <3>5. QED
      BY <3>2, <3>3, <3>4
  <2>3. b = [i \in 1 .. n |-> b[i]]
    BY <1>2
  <2>4. QED
    BY <2>1, <2>2, <2>3
<1>13. ReadDouble(p + 1) = Read(b, p + 1 + n)
  <2>1. ~ (p + 1 + n > L)
    BY <1>1, <1>2, <1>9
  <2>2. QED
    BY <1>1, <1>2, <1>11, <1>12, <2>1 DEF ReadDouble
<1>14. DecodeScalarAt(0, p + 1) = Read(Number(b), p + 1 + n)
  <2>1. DecodeScalarAt(0, p + 1) = DecodeNumber(p + 1)
    BY DEF DecodeScalarAt, NumberMarker, BooleanMarker, StringMarker, SkipAllMarker
  <2>2. QED
    BY <1>13, <2>1 DEF DecodeNumber, Read
<1>15. NumberItem(b).value = Number(b) /\ p + Len(NumberItem(b).bytes) = p + 1 + n
  <2>1. NumberItem(b).value = Number(b) /\ NumberItem(b).bytes = c
    BY <1>6 DEF NumberItem, Item
  <2>2. p + (1 + n) = p + 1 + n
    BY <1>2
  <2>3. QED
    BY <1>8, <2>1, <2>2
<1>16. QED
  BY <1>1, <1>2, <1>9, <1>10, <1>14, <1>15 DEF ReadsAs, ObjectMarker, ECMAArrayMarker,
     ObjectEndMarker

\* A boolean comes back,
LEMMA BooleanIsRead ==
    ASSUME TypeOK, NEW b \in BOOLEAN, NEW p \in Nat, At(data, p, EncodeBoolean(b))
    PROVE  ReadsAs(BooleanItem(b), p)
<1>1. PICK L \in Nat : L = Len(data) /\ data \in Seq(Nat)
  BY DEF TypeOK
<1>2. PICK v : v = IF b THEN 1 ELSE 0
  OBVIOUS
<1>3. v \in Nat /\ (v # 0) = b
  BY <1>2
<1>4. PICK c : c = EncodeBoolean(b)
  OBVIOUS
<1>5. c = <<1, v>>
  BY <1>2, <1>4 DEF EncodeBoolean, BooleanMarker
<1>6. Len(c) = 2 /\ c[1] = 1 /\ c[2] = v
  BY <1>5
<1>7. p + 2 <= L /\ data[p + 1] = 1 /\ data[p + 2] = v
  BY <1>1, <1>4, <1>6 DEF At
<1>8. ByteAt(p) = 1 /\ ByteAt(p + 1) = v
  <2>1. p + 1 + 1 = p + 2
    OBVIOUS
  <2>2. QED
    BY <1>7, <2>1 DEF ByteAt
<1>9. ReadUint8(p + 1) = Read(v, p + 2)
  <2>1. ~ (p + 1 >= L) /\ p + 1 + 1 = p + 2
    BY <1>7
  <2>2. QED
    BY <1>1, <1>8, <2>1 DEF ReadUint8
<1>10. DecodeScalarAt(1, p + 1) = Read(Boolean(b), p + 2)
  <2>1. DecodeScalarAt(1, p + 1) = DecodeBoolean(p + 1)
    BY DEF DecodeScalarAt, NumberMarker, BooleanMarker, StringMarker, SkipAllMarker
  <2>2. DecodeBoolean(p + 1) = Read(Boolean(v # 0), p + 2)
    BY <1>9 DEF DecodeBoolean, Read
  <2>3. QED
    BY <1>3, <2>1, <2>2
<1>11. BooleanItem(b).value = Boolean(b) /\ p + Len(BooleanItem(b).bytes) = p + 2
  BY <1>4, <1>6 DEF BooleanItem, Item
<1>12. QED
  BY <1>1, <1>7, <1>8, <1>10, <1>11 DEF ReadsAs, ObjectMarker, ECMAArrayMarker,
     ObjectEndMarker

\* and a string, whose length fits two bytes,
LEMMA StringIsRead ==
    ASSUME TypeOK, NEW s, IsShort(s), NEW p \in Nat, At(data, p, EncodeString(s))
    PROVE  ReadsAs(StringItem(s), p)
<1>1. PICK L \in Nat : L = Len(data) /\ data \in Seq(Nat)
  BY DEF TypeOK
<1>2. PICK w : w = WriteStringData(s)
  OBVIOUS
<1>3. PICK n \in Nat : n = Len(s)
  BY DEF IsShort
<1>4. w \in Seq(Nat) /\ Len(w) = 2 + n
  BY <1>2, <1>3, StringDataIs
<1>5. PICK c : c = EncodeString(s)
  OBVIOUS
<1>6. c = <<2>> \o w
  BY <1>2, <1>5 DEF EncodeString, StringMarker
<1>7. /\ Len(c) = 1 + (2 + n) /\ data[p + 1] = 2 /\ At(data, p + 1, w)
      /\ p + 1 + (2 + n) <= L
  <2>1. At(data, p, <<2>> \o w)
    BY <1>5, <1>6
  <2>2. 2 \in Nat /\ Len(data) \in Nat
    BY <1>1
  <2>3. /\ Len(<<2>> \o w) = 1 + Len(w) /\ p + 1 + Len(w) <= Len(data)
        /\ data[p + 1] = 2 /\ At(data, p + 1, w)
    BY <1>4, <2>1, <2>2, Behind
  <2>4. QED
    BY <1>1, <1>4, <1>6, <2>3
<1>8. p < L /\ ByteAt(p) = 2
  BY <1>1, <1>7 DEF ByteAt
<1>9. ReadObjectKey(p + 1) = Read(s, p + 1 + 2 + n)
  <2>1. p + 1 \in Nat
    OBVIOUS
  <2>2. QED
    BY <1>2, <1>3, <1>7, <2>1, KeyIsRead
<1>10. DecodeScalarAt(2, p + 1) = Read(String(s), p + 1 + 2 + n)
  <2>1. DecodeScalarAt(2, p + 1) = DecodeString(p + 1)
    BY DEF DecodeScalarAt, NumberMarker, BooleanMarker, StringMarker, SkipAllMarker
  <2>2. QED
    BY <1>9, <2>1 DEF DecodeString, Read
<1>11. StringItem(s).value = String(s) /\ p + Len(StringItem(s).bytes) = p + 1 + 2 + n
  <2>1. StringItem(s).value = String(s) /\ StringItem(s).bytes = c
    BY <1>5 DEF StringItem, Item
  <2>2. p + (1 + (2 + n)) = p + 1 + 2 + n
    BY <1>3
  <2>3. QED
    BY <1>7, <2>1, <2>2
<1>12. QED
  BY <1>1, <1>8, <1>10, <1>11 DEF ReadsAs, ObjectMarker, ECMAArrayMarker,
     ObjectEndMarker

\* and null.
LEMMA NullIsRead ==
    ASSUME TypeOK, NEW p \in Nat, At(data, p, EncodeNull)
    PROVE  ReadsAs(NullItem, p)
<1>1. PICK c : c = EncodeNull
  OBVIOUS
<1>2. Len(c) = 1 /\ c[1] = 5
  BY <1>1 DEF EncodeNull, NullMarker
<1>3. PICK L \in Nat : L = Len(data)
  BY DEF TypeOK
<1>4. p + 1 <= L /\ data[p + 1] = 5
  BY <1>1, <1>2, <1>3 DEF At
<1>5. ByteAt(p) = 5
  BY <1>4 DEF ByteAt
<1>6. DecodeScalarAt(5, p + 1) = Read(Null, p + 1)
  BY DEF DecodeScalarAt, NumberMarker, BooleanMarker, StringMarker, SkipAllMarker
<1>7. NullItem.value = Null /\ p + Len(NullItem.bytes) = p + 1
  BY <1>1, <1>2 DEF NullItem, Item
<1>8. QED
  BY <1>3, <1>4, <1>5, <1>6, <1>7 DEF ReadsAs, ObjectMarker, ECMAArrayMarker,
     ObjectEndMarker

\* So do they all.
LEMMA ScalarIsRead ==
    ASSUME TypeOK, NEW e, IsScalarItem(e), NEW p \in Nat, At(data, p, e.bytes)
    PROVE  ReadsAs(e, p)
<1>1. CASE /\ IsNumber(e.value) /\ e = NumberItem(e.value[2])
           /\ e.value[2] \in Seq(Nat) /\ Len(e.value[2]) = NumberLen
  <2>1. PICK b : b = e.value[2]
    OBVIOUS
  <2>2. e = NumberItem(b) /\ b \in Seq(Nat) /\ Len(b) = NumberLen
    BY <1>1, <2>1
  <2>3. At(data, p, EncodeNumber(b))
    BY <2>2 DEF NumberItem, Item
  <2>4. QED
    BY <2>2, <2>3, NumberIsRead
<1>2. CASE e.value[1] = "boolean" /\ e = BooleanItem(e.value[2]) /\ e.value[2] \in BOOLEAN
  <2>1. PICK b \in BOOLEAN : e = BooleanItem(b)
    BY <1>2
  <2>2. At(data, p, EncodeBoolean(b))
    BY <2>1 DEF BooleanItem, Item
  <2>3. QED
    BY <2>1, <2>2, BooleanIsRead
<1>3. CASE IsString(e.value) /\ e = StringItem(e.value[2]) /\ IsShort(e.value[2])
  <2>1. PICK s : e = StringItem(s) /\ IsShort(s)
    BY <1>3
  <2>2. At(data, p, EncodeString(s))
    BY <2>1 DEF StringItem, Item
  <2>3. QED
    BY <2>1, <2>2, StringIsRead
<1>4. CASE e = NullItem
  <2>1. At(data, p, EncodeNull)
    BY <1>4 DEF NullItem, Item
  <2>2. QED
    BY <1>4, <2>1, NullIsRead
<1>5. QED
  BY <1>1, <1>2, <1>3, <1>4 DEF IsScalarItem

-----------------------------------------------------------------------------
(* Objects, as the encoder writes them *)

\* The properties of the list are in the encoder's format, each a key and one of
\* the items.
IsList(items, ps) ==
    /\ IsSequence(ps)
    /\ \A i \in DOMAIN ps : /\ IsShort(ps[i].value[1])
                            /\ \E e \in items : ps[i] = Named(ps[i].value[1], e)

\* Key, then value.
LEMMA NamedIs ==
    ASSUME NEW key, IsShort(key), NEW e, e.bytes \in Seq(Nat)
    PROVE  /\ Named(key, e).value = <<key, e.value>>
           /\ Named(key, e).bytes = WriteStringData(key) \o e.bytes
           /\ Named(key, e).bytes \in Seq(Nat)
           /\ Len(Named(key, e).bytes) = 2 + Len(key) + Len(e.bytes)
<1>1. PICK w : w = WriteStringData(key)
  OBVIOUS
<1>2. w \in Seq(Nat) /\ Len(w) = 2 + Len(key)
  BY <1>1, StringDataIs
<1>3. PICK b : b = e.bytes
  OBVIOUS
<1>4. w \o b \in Seq(Nat) /\ Len(w \o b) = Len(w) + Len(b)
  BY <1>2, <1>3, ConcatProperties
<1>5. QED
  BY <1>1, <1>2, <1>3, <1>4 DEF Named, EncodeNamed, Item

\* A list of properties is a sequence of items.
LEMMA ListHasItems ==
    ASSUME NEW items, \A e \in items : e.bytes \in Seq(Nat), NEW ps, IsList(items, ps)
    PROVE  AreItems(ps)
<1>1. ASSUME NEW i \in DOMAIN ps
      PROVE  ps[i].bytes \in Seq(Nat)
  <2>1. PICK key : key = ps[i].value[1]
    OBVIOUS
  <2>2. IsShort(key)
    BY <2>1 DEF IsList
  <2>3. PICK e \in items : ps[i] = Named(key, e)
    BY <2>1 DEF IsList
  <2>4. e.bytes \in Seq(Nat)
    OBVIOUS
  <2>5. QED
    BY <2>2, <2>3, <2>4, NamedIs
<1>2. QED
  BY <1>1 DEF AreItems, IsList

\* The end marker, behind an empty key.
LEMMA ObjectEndIs ==
    /\ EncodeObjectEnd = WriteStringData(<<>>) \o <<9>>
    /\ EncodeObjectEnd \in Seq(Nat)
    /\ Len(EncodeObjectEnd) = 3
<1>1. IsShort(<<>>)
  BY DEF IsShort
<1>2. WriteStringData(<<>>) \in Seq(Nat) /\ Len(WriteStringData(<<>>)) = 2
  <2>1. PICK e : e = <<>>
    OBVIOUS
  <2>2. IsShort(e) /\ 2 + Len(e) = 2
    BY <1>1, <2>1
  <2>3. WriteStringData(e) \in Seq(Nat) /\ Len(WriteStringData(e)) = 2 + Len(e)
    BY <2>2, StringDataIs
  <2>4. QED
    BY <2>1, <2>2, <2>3
<1>3. WriteStringData(<<>>) = WriteUint16BE(0)
  <2>1. (0 \div 256) % 256 \in Nat /\ 0 % 256 \in Nat
    OBVIOUS
  <2>2. WriteUint16BE(0) \in Seq(Nat)
    BY <2>1 DEF WriteUint16BE
  <2>3. WriteStringData(<<>>) = WriteUint16BE(0) \o <<>>
    BY DEF WriteStringData
  <2>4. WriteUint16BE(0) \o <<>> = WriteUint16BE(0)
    BY <2>2, ConcatEmptySeq
  <2>5. QED
    BY <2>3, <2>4
<1>4. PICK w : w = WriteStringData(<<>>)
  OBVIOUS
<1>5. PICK z : z = <<9>>
  OBVIOUS
<1>6. z \in Seq(Nat) /\ Len(z) = 1
  BY <1>5
<1>7. w \o z \in Seq(Nat) /\ Len(w \o z) = Len(w) + Len(z)
  BY <1>2, <1>4, <1>6, ConcatProperties
<1>8. EncodeObjectEnd = w \o z
  BY <1>3, <1>4, <1>5 DEF EncodeObjectEnd, ObjectEndMarker
<1>9. Len(w \o z) = 3
  <2>1. Len(w) = 2
    BY <1>2, <1>4
  <2>2. QED
    BY <1>6, <1>7, <2>1
<1>10. QED
  BY <1>4, <1>5, <1>7, <1>8, <1>9

\* The decoder reads it as an empty key with the marker behind.
LEMMA EndIsRead ==
    ASSUME TypeOK, NEW p \in Nat, At(data, p, EncodeObjectEnd)
    PROVE  /\ ReadObjectKey(p) = Read(<<>>, p + 2)
           /\ EndAfter(ReadObjectKey(p))
           /\ p + 3 <= Len(data)
<1>1. PICK L \in Nat : L = Len(data)
  BY DEF TypeOK
<1>2. IsShort(<<>>) /\ Len(<<>>) = 0
  BY DEF IsShort
<1>3. PICK w : w = WriteStringData(<<>>)
  OBVIOUS
<1>4. w \in Seq(Nat) /\ Len(w) = 2
  <2>1. PICK e : e = <<>>
    OBVIOUS
  <2>2. IsShort(e) /\ 2 + Len(e) = 2
    BY <1>2, <2>1
  <2>3. WriteStringData(e) \in Seq(Nat) /\ Len(WriteStringData(e)) = 2 + Len(e)
    BY <2>2, StringDataIs
  <2>4. QED
    BY <1>3, <2>1, <2>2, <2>3
<1>5. PICK z : z = <<9>>
  OBVIOUS
<1>6. z \in Seq(Nat) /\ Len(z) = 1 /\ z[1] = 9
  BY <1>5
<1>7. At(data, p, w \o z)
  BY <1>3, <1>5, ObjectEndIs
<1>8. At(data, p, w) /\ At(data, p + Len(w), z)
  BY <1>1, <1>4, <1>6, <1>7, AtConcat
<1>9. p + 2 + 1 <= L /\ data[p + 2 + 1] = 9
  BY <1>1, <1>4, <1>6, <1>8 DEF At
<1>10. ReadObjectKey(p) = Read(<<>>, p + 2)
  <2>1. ReadObjectKey(p) = Read(<<>>, p + 2 + Len(<<>>))
    BY <1>2, <1>3, <1>8, KeyIsRead
  <2>2. p + 2 + Len(<<>>) = p + 2
    BY <1>2
  <2>3. QED
    BY <2>1, <2>2
<1>11. p + 2 < L /\ ByteAt(p + 2) = 9
  BY <1>9 DEF ByteAt
<1>12. QED
  BY <1>1, <1>9, <1>10, <1>11 DEF EndAfter, Read, ObjectEndMarker

\* The properties lie behind the first q bytes, their end marker behind them.
LEMMA PropertiesAt ==
    ASSUME NEW ps, AreItems(ps)
    PROVE  /\ Payload(ps) \in Seq(Nat) /\ PropertyBytes(ps) \in Seq(Nat)
           /\ Len(PropertyBytes(ps)) = Len(Payload(ps)) + 3
           /\ \A d, q : Len(d) \in Nat /\ q \in Nat /\ At(d, q, PropertyBytes(ps)) =>
                  At(d, q, Payload(ps)) /\ At(d, q + Len(Payload(ps)), EncodeObjectEnd)
<1>1. PICK b : b = Payload(ps)
  OBVIOUS
<1>2. b \in Seq(Nat)
  BY <1>1, StartAll
<1>3. PICK z : z = EncodeObjectEnd
  OBVIOUS
<1>4. z \in Seq(Nat) /\ Len(z) = 3
  BY <1>3, ObjectEndIs
<1>5. PropertyBytes(ps) = b \o z
  BY <1>1, <1>3 DEF PropertyBytes
<1>6. b \o z \in Seq(Nat) /\ Len(b \o z) = Len(b) + Len(z)
  BY <1>2, <1>4, ConcatProperties
<1>7. ASSUME NEW d, NEW q, Len(d) \in Nat, q \in Nat, At(d, q, b \o z)
      PROVE  At(d, q, b) /\ At(d, q + Len(b), z)
  BY <1>2, <1>4, <1>7, AtConcat
<1>8. QED
  BY <1>1, <1>2, <1>3, <1>4, <1>5, <1>6, <1>7

\* Where the decoder is once it has entered an object.
Inside(p) == IF ByteAt(p) = ECMAArrayMarker THEN SkipUint32BE(p + 1) ELSE p + 1

\* Where an object or array lies, its marker and count are passed and its properties follow.
LEMMA ObjectIsEntered ==
    ASSUME TypeOK, NEW ps, AreItems(ps), NEW e, IsObjectItem(e, ps), e.bytes \in Seq(Nat),
           NEW p \in Nat, At(data, p, e.bytes)
    PROVE  /\ p < Len(data)
           /\ ByteAt(p) \in {ObjectMarker, ECMAArrayMarker}
           /\ Inside(p) \in Nat
           /\ At(data, Inside(p), PropertyBytes(ps))
           /\ p + Len(e.bytes) = Inside(p) + Len(PropertyBytes(ps))
           /\ e.value = PropertyValues(ps)
<1>1. PICK L \in Nat : L = Len(data)
  BY DEF TypeOK
<1>2. PICK b : b = PropertyBytes(ps)
  OBVIOUS
<1>3. b \in Seq(Nat) /\ Len(b) \in Nat /\ Len(b) >= 3
  BY <1>2, PropertiesAt
<1>4. CASE e = ObjectItem(ps)
  <2>1. e.bytes = <<3>> \o b /\ e.value = PropertyValues(ps)
    BY <1>2, <1>4 DEF ObjectItem, Item, EncodeObjectStart, ObjectMarker
  <2>2. At(data, p, <<3>> \o b) /\ 3 \in Nat /\ Len(data) \in Nat
    BY <1>1, <2>1
  <2>3. /\ Len(<<3>> \o b) = 1 + Len(b) /\ p + 1 + Len(b) <= Len(data)
        /\ data[p + 1] = 3 /\ At(data, p + 1, b)
    BY <1>3, <2>2, Behind
  <2>4. ByteAt(p) = 3 /\ Inside(p) = p + 1
    BY <2>3 DEF ByteAt, Inside, ECMAArrayMarker
  <2>5. p < Len(data) /\ p + (1 + Len(b)) = p + 1 + Len(b)
    BY <1>1, <1>3, <2>3
  <2>6. QED
    BY <1>2, <2>1, <2>3, <2>4, <2>5 DEF ObjectMarker
<1>5. CASE /\ e = Item(SubSeq(e.bytes, 1, 5) \o PropertyBytes(ps), PropertyValues(ps))
           /\ e.bytes[1] = ECMAArrayMarker
  <2>1. PICK c : c = e.bytes
    OBVIOUS
  <2>2. PICK h : h = SubSeq(c, 1, 5)
    OBVIOUS
  <2>3. c = h \o b /\ e.value = PropertyValues(ps) /\ c \in Seq(Nat) /\ c[1] = 8
    BY <1>2, <1>5, <2>1, <2>2 DEF Item, ECMAArrayMarker
  <2>4. h \in Seq(Nat) /\ Len(h) = 5 /\ h[1] = 8
    <3>1. CASE Len(c) >= 5
      <4>1. \A i \in 1 .. 5 : c[i] \in Nat
        <5>1. PICK m \in Nat : m = Len(c)
          BY <2>3
        <5>2. \A i \in 1 .. m : c[i] \in Nat
          <6>1. c \in Seq(Nat)
            BY <2>3
          <6>2. QED
            BY <5>1, <6>1
        <5>3. \A i \in 1 .. 5 : i \in 1 .. m
          BY <3>1, <5>1
        <5>4. QED
          BY <5>2, <5>3
      <4>2. h \in Seq(Nat) /\ Len(h) = 5 /\ h[1] = c[1]
        BY <2>2, <4>1, SubSeqProperties
      <4>3. QED
        BY <2>3, <4>2
    <3>2. CASE Len(c) < 5
      <4>1. PICK S : S = Nat \cup {c[i] : i \in 1 .. 5}
        OBVIOUS
      <4>2. h \in Seq(S) /\ Len(h) = 5
        BY <2>2, <4>1, SubSeqProperties
      <4>3. b \in Seq(S)
        <5>1. b \in Seq(Nat) /\ Nat \subseteq S
          BY <1>3, <4>1
        <5>2. QED
          BY <5>1
      <4>4. Len(h \o b) = Len(h) + Len(b)
        BY <4>2, <4>3, ConcatProperties
      <4>5. QED
        BY <1>3, <2>3, <3>2, <4>2, <4>4
    <3>3. QED
      BY <2>3, <3>1, <3>2
  <2>5. Len(c) = 5 + Len(b)
    <3>1. Len(h \o b) = Len(h) + Len(b)
      BY <1>3, <2>4, ConcatProperties
    <3>2. QED
      BY <2>3, <2>4, <3>1
  <2>6. At(data, p, h) /\ At(data, p + 5, b)
    <3>1. At(data, p, h \o b)
      BY <2>1, <2>3
    <3>2. At(data, p, h) /\ At(data, p + Len(h), b)
      BY <1>1, <1>3, <2>4, <3>1, AtConcat
    <3>3. QED
      BY <2>4, <3>2
  <2>7. p + 5 <= L /\ data[p + 1] = 8
    BY <1>1, <2>4, <2>6 DEF At
  <2>8. ByteAt(p) = 8
    BY <2>7 DEF ByteAt
  <2>9. Inside(p) = p + 5
    <3>1. ~ (p + 1 + 4 > Len(data)) /\ p + 1 + 4 = p + 5
      BY <1>1, <2>7
    <3>2. QED
      BY <2>8, <3>1 DEF Inside, ECMAArrayMarker, SkipUint32BE
  <2>10. p < Len(data) /\ p + (5 + Len(b)) = p + 5 + Len(b)
    BY <1>1, <1>3, <2>7
  <2>11. QED
    BY <1>2, <2>1, <2>3, <2>5, <2>6, <2>8, <2>9, <2>10 DEF ECMAArrayMarker
<1>6. QED
  BY <1>4, <1>5 DEF IsObjectItem

\* What makes items and lists fit together.
LEMMA Encoded ==
    ASSUME NEW items, NEW lists, EncodedBy(items, lists)
    PROVE  /\ \A e \in items : e.bytes \in Seq(Nat)
           /\ \A e \in items : IsScalarItem(e) \/ \E ps \in lists : IsObjectItem(e, ps)
           /\ \A ps \in lists : IsList(items, ps) /\ AreItems(ps)
<1>1. \A e \in items : e.bytes \in Seq(Nat)
  BY DEF EncodedBy
<1>2. \A ps \in lists : IsList(items, ps)
  BY DEF EncodedBy, IsList
<1>3. \A ps \in lists : AreItems(ps)
  BY <1>1, <1>2, ListHasItems
<1>4. QED
  BY <1>1, <1>2, <1>3 DEF EncodedBy

\* An item at p: a value that Decode reads, or an object that it enters.
Enters(e, ps, p) ==
    /\ p < Len(data)
    /\ ByteAt(p) \in {ObjectMarker, ECMAArrayMarker}
    /\ Inside(p) \in Nat
    /\ At(data, Inside(p), PropertyBytes(ps))
    /\ p + Len(e.bytes) = Inside(p) + Len(PropertyBytes(ps))
    /\ e.value = PropertyValues(ps)

\* An item that lies at p is read as its value, or is an object and is entered.
LEMMA ItemIsRead ==
    ASSUME TypeOK, NEW items, NEW lists, EncodedBy(items, lists), NEW e \in items,
           NEW p \in Nat, At(data, p, e.bytes)
    PROVE  ReadsAs(e, p) \/ \E ps \in lists : Enters(e, ps, p)
<1>1. CASE IsScalarItem(e)
  BY <1>1, ScalarIsRead
<1>2. CASE \E ps \in lists : IsObjectItem(e, ps)
  <2>1. PICK ps \in lists : IsObjectItem(e, ps)
    BY <1>2
  <2>2. AreItems(ps) /\ e.bytes \in Seq(Nat)
    BY Encoded
  <2>3. Enters(e, ps, p)
    BY <2>1, <2>2, ObjectIsEntered DEF Enters
  <2>4. QED
    BY <2>3
<1>3. QED
  BY <1>1, <1>2, Encoded

\* No item is empty or begins with the marker that ends an object.
LEMMA FirstByte ==
    ASSUME TypeOK, NEW items, NEW lists, EncodedBy(items, lists), NEW e \in items,
           NEW p \in Nat, At(data, p, e.bytes)
    PROVE  p < Len(data) /\ ByteAt(p) # ObjectEndMarker
BY ItemIsRead DEF ReadsAs, Enters, ObjectMarker, ECMAArrayMarker, ObjectEndMarker

\* A property at p: its key is read as no end of an object, and its value follows.
LEMMA PropertyIsRead ==
    ASSUME TypeOK, NEW items, NEW lists, EncodedBy(items, lists), NEW ps \in lists,
           NEW i \in DOMAIN ps, NEW p \in Nat, At(data, p, ps[i].bytes)
    PROVE  \E e \in items :
             LET k == ReadObjectKey(p) IN
             /\ ps[i].value = <<k.val, e.value>>
             /\ k.pos \in Nat
             /\ ~EndAfter(k)
             /\ At(data, k.pos, e.bytes)
             /\ k.pos + Len(e.bytes) = p + Len(ps[i].bytes)
             /\ p < Len(data)
<1>1. PICK key : key = ps[i].value[1]
  OBVIOUS
<1>2. IsShort(key)
  BY <1>1, Encoded DEF IsList
<1>3. PICK e \in items : ps[i] = Named(key, e)
  BY <1>1, Encoded DEF IsList
<1>4. PICK L \in Nat : L = Len(data)
  BY DEF TypeOK
<1>5. PICK b : b = e.bytes
  OBVIOUS
<1>6. PICK n \in Nat : n = Len(key)
  BY <1>2 DEF IsShort
<1>7. PICK w : w = WriteStringData(key)
  OBVIOUS
<1>8. b \in Seq(Nat) /\ w \in Seq(Nat) /\ Len(w) = 2 + n
  BY <1>2, <1>5, <1>6, <1>7, Encoded, StringDataIs
<1>9. /\ ps[i].value = <<key, e.value>> /\ ps[i].bytes = w \o b
      /\ Len(ps[i].bytes) = 2 + n + Len(b)
  BY <1>2, <1>3, <1>5, <1>6, <1>7, <1>8, NamedIs
<1>10. At(data, p, w) /\ At(data, p + (2 + n), b)
  <2>1. At(data, p, w \o b)
    BY <1>9
  <2>2. At(data, p, w) /\ At(data, p + Len(w), b)
    BY <1>4, <1>8, <2>1, AtConcat
  <2>3. QED
    BY <1>8, <2>2
<1>11. PICK r \in Nat : r = p + 2 + n
  BY <1>6
<1>12. ReadObjectKey(p) = Read(key, r)
  BY <1>2, <1>6, <1>7, <1>10, <1>11, KeyIsRead
<1>13. At(data, r, b)
  BY <1>10, <1>11
<1>14. r < L /\ ByteAt(r) # ObjectEndMarker
  BY <1>4, <1>5, <1>13, FirstByte
<1>15. r + Len(b) = p + (2 + n + Len(b)) /\ p < L
  BY <1>8, <1>11, <1>14
<1>16. QED
  BY <1>4, <1>5, <1>9, <1>11, <1>12, <1>13, <1>14, <1>15 DEF Read, EndAfter

\* A string among the items is short, whatever its item.
LEMMA StringIsShort ==
    ASSUME NEW items, NEW lists, EncodedBy(items, lists), NEW e \in items, IsString(e.value)
    PROVE  e = StringItem(e.value[2]) /\ IsShort(e.value[2])
<1>1. CASE IsScalarItem(e)
  BY <1>1 DEF IsScalarItem, NumberItem, BooleanItem, NullItem, Item, IsString, IsNumber, Null
<1>2. CASE \E ps \in lists : IsObjectItem(e, ps)
  <2>1. PICK ps \in lists : IsObjectItem(e, ps)
    BY <1>2
  <2>2. e.value = PropertyValues(ps)
    BY <2>1 DEF IsObjectItem, ObjectItem, Item
  <2>3. e.value[1] = "object"
    BY <2>2 DEF PropertyValues, Object
  <2>4. QED
    BY <2>3 DEF IsString
<1>3. QED
  BY <1>1, <1>2, Encoded

-----------------------------------------------------------------------------
(* The objects that are being read *)

\* What a call of Decode should return, and where m_pos should be then: for the
\* outermost call g, for the call in an object that is being read the value of its
\* next property.  F[d] says of the object at depth d which list it has, where that
\* begins, and how many of its properties have been read.
Child(f) == [value |-> f.ps[f.n + 1].value[2], end |-> f.q + Len(Start(f.ps, f.n + 1))]
Goal(g, F, d) == IF d = 0 THEN g ELSE Child(F[d])

\* The object's list lies in the data, the object is what was asked for, and the
\* properties that have been read are those written.
FrameOK(lists, b, f, s, g, busy) ==
    /\ f.ps \in lists /\ f.q \in Nat /\ f.n \in 0 .. Len(f.ps)
    /\ At(b, f.q, PropertyBytes(f.ps))
    /\ g.value = PropertyValues(f.ps)
    /\ g.end = f.q + Len(PropertyBytes(f.ps))
    /\ s = [key |-> s.key, properties |-> [i \in 1 .. f.n |-> f.ps[i].value]]
    /\ busy => f.n < Len(f.ps) /\ s.key = f.ps[f.n + 1].value[1]

\* An item that is to be decoded at pos.
Expected(items, g) ==
    \E e \in items : At(data, pos, e.bytes) /\ g.value = e.value /\ g.end = pos + Len(e.bytes)

Frames(lists, g, F) ==
    \A d \in 1 .. Top :
      FrameOK(lists, data, F[d], stack[d], Goal(g, F, d - 1), d < Top \/ control # "object")

Reading(items, lists, g, F) ==
    /\ Frames(lists, g, F)
    /\ control = "decode" => Expected(items, Goal(g, F, Top))
    /\ control = "object" => pos = F[Top].q + Len(Start(F[Top].ps, F[Top].n))
    /\ control = "return" => ret = Goal(g, F, Top).value /\ pos = Goal(g, F, Top).end

\* The innermost frame is the last of the stack.
LEMMA TopIs ==
    ASSUME IInv
    PROVE  /\ Top \in Nat /\ IsSequence(stack) /\ DOMAIN stack = 1 .. Top
           /\ control = "object" => Top \in Nat \ {0}
           /\ pos \in Nat /\ pos <= Len(data) /\ Len(data) \in Nat
<1>1. Top \in Nat /\ IsSequence(stack) /\ DOMAIN stack = 1 .. Top
  BY SequenceLen DEF IInv, TypeOK, Top
<1>2. stack = <<>> <=> Top = 0
  BY DEF IInv, TypeOK, IsSequence, Top
<1>3. QED
  BY <1>1, <1>2 DEF IInv, TypeOK, ControlInv

\* An object further out waits for a value and stays as it is.
LEMMA FrameStays ==
    ASSUME NEW lists, NEW g, NEW F, NEW G, Frames(lists, g, F),
           NEW d \in 1 .. Top, F[d] = G[d], Goal(g, F, d - 1) = Goal(g, G, d - 1),
           NEW s, s = stack[d], NEW c, c => d < Top \/ control # "object"
    PROVE  FrameOK(lists, data, G[d], s, Goal(g, G, d - 1), c)
<1>1. FrameOK(lists, data, F[d], s, Goal(g, F, d - 1), d < Top \/ control # "object")
  BY DEF Frames
<1>2. FrameOK(lists, data, G[d], s, Goal(g, G, d - 1), d < Top \/ control # "object")
  BY <1>1
<1>3. QED
  BY <1>2 DEF FrameOK

\* Decode reads the value expected.
LEMMA ScalarReading ==
    ASSUME IInv, IInv', NEW items, NEW lists, EncodedBy(items, lists), NEW g, NEW F,
           Reading(items, lists, g, F), DecodeScalar
    PROVE  Reading(items, lists, g, F)'
<1>1. PICK h : h = Goal(g, F, Top)
  OBVIOUS
<1>2. control = "decode" /\ pos \in Nat /\ TypeOK
  BY TopIs DEF DecodeScalar, IInv
<1>3. PICK e \in items : At(data, pos, e.bytes) /\ h.value = e.value /\ h.end = pos + Len(e.bytes)
  BY <1>1, <1>2 DEF Reading, Expected
<1>4. ReadsAs(e, pos)
  BY <1>2, <1>3, ItemIsRead DEF DecodeScalar, Enters
<1>5. /\ pos' = h.end /\ ret' = h.value
      /\ control' = "return" /\ data' = data /\ stack' = stack
  BY <1>3, <1>4 DEF DecodeScalar, ReadsAs, Return, Read
<1>6. Top' = Top
  BY <1>5 DEF Top
<1>7. Frames(lists, g, F)'
  <2>1. ASSUME NEW d \in 1 .. Top
        PROVE  FrameOK(lists, data, F[d], stack[d], Goal(g, F, d - 1), TRUE)
    BY <1>2, FrameStays DEF Reading
  <2>2. QED
    BY <1>5, <1>6, <2>1 DEF Frames
<1>8. QED
  BY <1>1, <1>5, <1>6, <1>7 DEF Reading

\* Decode enters the object expected.
LEMMA EnterReading ==
    ASSUME IInv, IInv', NEW items, NEW lists, EncodedBy(items, lists), NEW g, NEW F,
           Reading(items, lists, g, F), EnterObject
    PROVE  \E G : Reading(items, lists, g, G)'
<1>1. PICK n \in Nat : n = Top
  BY TopIs
<1>2. PICK h : h = Goal(g, F, n)
  OBVIOUS
<1>3. control = "decode" /\ pos \in Nat /\ TypeOK
  BY TopIs DEF EnterObject, IInv
<1>4. PICK e \in items : At(data, pos, e.bytes) /\ h.value = e.value /\ h.end = pos + Len(e.bytes)
  BY <1>1, <1>2, <1>3 DEF Reading, Expected
<1>5. PICK ps \in lists : Enters(e, ps, pos)
  BY <1>3, <1>4, ItemIsRead DEF EnterObject, ReadsAs
<1>6. PICK s : s = [key |-> <<>>, properties |-> <<>>]
  OBVIOUS
<1>7. /\ pos' = Inside(pos) /\ stack' = Append(stack, s)
      /\ control' = "object" /\ data' = data
  BY <1>6 DEF EnterObject, Inside
<1>8. Top' = n + 1 /\ stack'[n + 1] = s /\ \A d \in 1 .. n : stack'[d] = stack[d]
  <2>1. PICK S : S = {stack[i] : i \in DOMAIN stack} \cup {s}
    OBVIOUS
  <2>2. stack \in Seq(S) /\ s \in S /\ Len(stack) = n
    BY <1>1, <2>1, TopIs DEF IsSequence, Top
  <2>3. QED
    BY <1>7, <2>2, AppendProperties DEF Top
<1>9. PICK f : f = [ps |-> ps, q |-> pos', n |-> 0]
  OBVIOUS
<1>10. PICK G : G = [d \in 1 .. n + 1 |-> IF d = n + 1 THEN f ELSE F[d]]
  OBVIOUS
<1>11. G[n + 1] = f /\ \A d \in 1 .. n : G[d] = F[d]
  BY <1>10
<1>12. \A d \in 0 .. n : Goal(g, G, d) = Goal(g, F, d)
  BY <1>11 DEF Goal
<1>13. AreItems(ps) /\ Len(ps) \in Nat
  BY Encoded, SequenceLen DEF AreItems
<1>14. FrameOK(lists, data, f, s, h, FALSE)
  <2>1. [i \in 1 .. 0 |-> ps[i].value] = <<>>
    OBVIOUS
  <2>2. s = [key |-> s.key, properties |-> [i \in 1 .. f.n |-> f.ps[i].value]]
    BY <1>6, <1>9, <2>1
  <2>3. QED
    BY <1>4, <1>5, <1>7, <1>9, <1>13, <2>2 DEF FrameOK, Enters
<1>15. Frames(lists, g, G)'
  <2>1. ASSUME NEW d \in 1 .. n
        PROVE  FrameOK(lists, data, G[d], stack[d], Goal(g, G, d - 1), TRUE)
    <3>1. d \in 1 .. Top /\ d - 1 \in 0 .. n
      BY <1>1
    <3>2. QED
      BY <1>3, <1>11, <1>12, <3>1, FrameStays DEF Reading
  <2>2. FrameOK(lists, data, G[n + 1], s, Goal(g, G, n), FALSE)
    <3>1. n \in 0 .. n
      OBVIOUS
    <3>2. Goal(g, G, n) = h
      BY <1>2, <1>12, <3>1
    <3>3. QED
      BY <1>11, <1>14, <3>2
  <2>3. ASSUME NEW d \in 1 .. n + 1
        PROVE  FrameOK(lists, data', G[d], stack'[d], Goal(g, G, d - 1),
                       d < n + 1 \/ control' # "object")
    <3>1. CASE d = n + 1
      <4>1. d - 1 = n /\ ~ (d < n + 1)
        BY <3>1
      <4>2. QED
        BY <1>7, <1>8, <2>2, <3>1, <4>1
    <3>2. CASE d # n + 1
      <4>1. d \in 1 .. n /\ d < n + 1
        BY <3>2
      <4>2. QED
        BY <1>7, <1>8, <2>1, <4>1
    <3>3. QED
      BY <3>1, <3>2
  <2>4. QED
    BY <1>8, <2>3 DEF Frames
<1>16. pos' = f.q + Len(Start(f.ps, f.n))
  <2>1. Start(ps, 0) = <<>> /\ Len(<<>>) = 0
    BY <1>13, StartNothing
  <2>2. pos' \in Nat
    BY <1>5, <1>7 DEF Enters
  <2>3. QED
    BY <1>9, <2>1, <2>2
<1>17. Reading(items, lists, g, G)'
  BY <1>7, <1>8, <1>11, <1>15, <1>16 DEF Reading
<1>18. QED
  BY <1>17

\* What is known at the head of DecodeObject's loop: with properties left the next
\* one lies at pos, without them the end marker does.
LEMMA InObject ==
    ASSUME IInv, NEW items, NEW lists, EncodedBy(items, lists), NEW g, NEW F,
           Reading(items, lists, g, F), control = "object", NEW f, f = F[Top]
    PROVE  /\ FrameOK(lists, data, f, stack[Top], Goal(g, F, Top - 1), FALSE)
           /\ AreItems(f.ps) /\ Len(f.ps) \in Nat /\ DOMAIN f.ps = 1 .. Len(f.ps)
           /\ pos = f.q + Len(Start(f.ps, f.n))
           /\ f.n < Len(f.ps) => At(data, pos, f.ps[f.n + 1].bytes)
           /\ f.n = Len(f.ps) => /\ At(data, pos, EncodeObjectEnd)
                                 /\ pos + 3 = Goal(g, F, Top - 1).end
<1>1. PICK n \in Nat \ {0} : n = Top
  BY TopIs
<1>2. PICK h : h = Goal(g, F, n - 1)
  OBVIOUS
<1>3. PICK s : s = stack[n]
  OBVIOUS
<1>4. FrameOK(lists, data, f, s, h, FALSE)
  <2>1. n \in 1 .. Top
    BY <1>1
  <2>2. FrameOK(lists, data, F[n], s, Goal(g, F, n - 1), FALSE)
    BY <1>1, <1>3, <2>1, FrameStays DEF Reading
  <2>3. QED
    BY <1>1, <1>2, <2>2
<1>5. PICK ps \in lists : ps = f.ps
  BY <1>4 DEF FrameOK
<1>6. AreItems(ps) /\ Len(ps) \in Nat /\ DOMAIN ps = 1 .. Len(ps)
  BY Encoded, SequenceLen DEF AreItems
<1>7. PICK q \in Nat : q = f.q
  BY <1>4 DEF FrameOK
<1>8. PICK m \in 0 .. Len(ps) : m = f.n
  BY <1>4, <1>5 DEF FrameOK
<1>9. pos = q + Len(Start(ps, m))
  BY <1>5, <1>7, <1>8 DEF Reading
<1>10. Len(data) \in Nat /\ At(data, q, PropertyBytes(ps)) /\ h.end = q + Len(PropertyBytes(ps))
  BY <1>4, <1>5, <1>7, TopIs DEF FrameOK
<1>11. /\ At(data, q, Payload(ps)) /\ At(data, q + Len(Payload(ps)), EncodeObjectEnd)
       /\ Len(PropertyBytes(ps)) = Len(Payload(ps)) + 3 /\ Len(Payload(ps)) \in Nat
  <2>1. Payload(ps) \in Seq(Nat) /\ Len(PropertyBytes(ps)) = Len(Payload(ps)) + 3
    BY <1>6, PropertiesAt
  <2>2. At(data, q, Payload(ps)) /\ At(data, q + Len(Payload(ps)), EncodeObjectEnd)
    BY <1>6, <1>10, PropertiesAt
  <2>3. QED
    BY <2>1, <2>2
<1>12. Start(ps, Len(ps)) = Payload(ps)
  BY <1>6, StartAll
<1>13. ASSUME f.n < Len(f.ps)
       PROVE  At(data, pos, f.ps[f.n + 1].bytes)
  <2>1. Len(ps) \in 0 .. Len(ps) /\ At(data, q, Start(ps, Len(ps))) /\ m < Len(ps)
    BY <1>5, <1>6, <1>8, <1>11, <1>12, <1>13
  <2>2. At(data, pos, ps[m + 1].bytes)
    <3>1. m \in Nat
      BY <1>6, <1>8
    <3>2. At(data, q + Len(Start(ps, m)), ps[m + 1].bytes)
      BY <1>6, <1>7, <1>10, <2>1, <3>1, AtItem
    <3>3. QED
      BY <1>9, <3>2
  <2>3. QED
    BY <1>5, <1>8, <2>2
<1>14. ASSUME f.n = Len(f.ps)
       PROVE  At(data, pos, EncodeObjectEnd) /\ pos + 3 = h.end
  <2>1. m = Len(ps)
    BY <1>5, <1>8, <1>14
  <2>2. QED
    BY <1>9, <1>10, <1>11, <1>12, <2>1
<1>15. FrameOK(lists, data, f, stack[Top], Goal(g, F, Top - 1), FALSE)
  BY <1>1, <1>2, <1>3, <1>4
<1>16. pos = f.q + Len(Start(f.ps, f.n))
  BY DEF Reading
<1>17. AreItems(f.ps) /\ Len(f.ps) \in Nat /\ DOMAIN f.ps = 1 .. Len(f.ps)
  BY <1>5, <1>6
<1>18. QED
  BY <1>1, <1>2, <1>13, <1>14, <1>15, <1>16, <1>17

\* DecodeObject reads the next key and calls Decode for its value.
LEMMA KeyReading ==
    ASSUME IInv, IInv', NEW items, NEW lists, EncodedBy(items, lists), NEW g, NEW F,
           Reading(items, lists, g, F), ReadKey
    PROVE  Reading(items, lists, g, F)'
<1>1. PICK n \in Nat \ {0} : n = Top
  BY TopIs DEF ReadKey
<1>2. PICK f : f = F[n]
  OBVIOUS
<1>3. control = "object" /\ pos \in Nat /\ TypeOK /\ DOMAIN stack = 1 .. n
  BY <1>1, TopIs DEF ReadKey, IInv
<1>4. PICK h : h = Goal(g, F, n - 1)
  OBVIOUS
<1>5. PICK s : s = stack[n]
  OBVIOUS
<1>6. /\ FrameOK(lists, data, f, s, h, FALSE)
      /\ Len(f.ps) \in Nat /\ DOMAIN f.ps = 1 .. Len(f.ps)
      /\ f.n < Len(f.ps) => At(data, pos, f.ps[f.n + 1].bytes)
      /\ f.n = Len(f.ps) => At(data, pos, EncodeObjectEnd)
      /\ AreItems(f.ps) /\ pos = f.q + Len(Start(f.ps, f.n))
  BY <1>1, <1>2, <1>3, <1>4, <1>5, InObject
<1>7. PICK k : k = ReadObjectKey(pos)
  OBVIOUS
<1>8. /\ ~EndAfter(k) /\ pos' = k.pos /\ control' = "decode" /\ data' = data
      /\ stack' = [stack EXCEPT ![n].key = k.val]
  BY <1>1, <1>7 DEF ReadKey
<1>9. PICK ps \in lists : ps = f.ps
  BY <1>6 DEF FrameOK
<1>10. PICK m \in Nat : m = f.n /\ m <= Len(ps)
  BY <1>6, <1>9 DEF FrameOK
<1>11. m < Len(ps)
  <2>1. CASE m = Len(ps)
    BY <1>3, <1>6, <1>7, <1>8, <1>9, <1>10, <2>1, EndIsRead
  <2>2. QED
    BY <1>6, <1>9, <1>10, <2>1
<1>12. PICK i : i = m + 1
  OBVIOUS
<1>13. i \in DOMAIN ps /\ At(data, pos, ps[i].bytes)
  BY <1>6, <1>9, <1>10, <1>11, <1>12
<1>14. PICK e \in items : /\ ps[i].value = <<k.val, e.value>>
                          /\ k.pos \in Nat /\ At(data, k.pos, e.bytes)
                          /\ k.pos + Len(e.bytes) = pos + Len(ps[i].bytes)
  BY <1>3, <1>7, <1>13, PropertyIsRead
<1>15. f.q + Len(Start(ps, i)) = k.pos + Len(e.bytes)
  <2>1. /\ ps[i].bytes \in Seq(Nat) /\ Start(ps, m) \in Seq(Nat)
        /\ Start(ps, i) = Start(ps, m) \o ps[i].bytes
    BY <1>6, <1>9, <1>11, <1>12, StartNext
  <2>2. Len(Start(ps, i)) = Len(Start(ps, m)) + Len(ps[i].bytes)
    BY <2>1, ConcatProperties
  <2>3. pos = f.q + Len(Start(ps, m)) /\ f.q \in Nat
    BY <1>6, <1>9, <1>10 DEF FrameOK
  <2>4. Len(Start(ps, m)) \in Nat /\ Len(ps[i].bytes) \in Nat
    BY <2>1
  <2>5. QED
    BY <1>14, <2>2, <2>3, <2>4
<1>16. Goal(g, F, n) = [value |-> e.value, end |-> k.pos + Len(e.bytes)]
  BY <1>2, <1>9, <1>10, <1>12, <1>14, <1>15 DEF Goal, Child
<1>17. Top' = n
  BY <1>1, <1>3, <1>8, ExceptSequence, TopIs DEF Top
<1>18. PICK t : t = [key |-> k.val, properties |-> s.properties]
  OBVIOUS
<1>19. stack'[n] = t /\ \A d \in 1 .. n - 1 : stack'[d] = stack[d]
  <2>1. n \in DOMAIN stack /\ s = [key |-> s.key, properties |-> s.properties]
    BY <1>3, <1>6 DEF FrameOK
  <2>2. [s EXCEPT !.key = k.val] = t
    BY <1>18, <2>1
  <2>3. stack' = [stack EXCEPT ![n] = [s EXCEPT !.key = k.val]]
    BY <1>5, <1>8
  <2>4. QED
    BY <1>3, <2>1, <2>2, <2>3
<1>20. FrameOK(lists, data, f, t, h, TRUE)
  <2>1. s = [key |-> s.key, properties |-> [j \in 1 .. f.n |-> f.ps[j].value]]
    BY <1>6 DEF FrameOK
  <2>2. t = [key |-> t.key, properties |-> [j \in 1 .. f.n |-> f.ps[j].value]]
    <3>1. PICK P : P = [j \in 1 .. f.n |-> f.ps[j].value]
      OBVIOUS
    <3>2. s.properties = P
      BY <2>1, <3>1
    <3>3. t.key = k.val /\ t = [key |-> k.val, properties |-> P]
      BY <1>18, <3>2
    <3>4. QED
      BY <3>1, <3>3
  <2>3. f.n < Len(f.ps) /\ t.key = f.ps[f.n + 1].value[1]
    BY <1>9, <1>10, <1>11, <1>12, <1>14, <1>18
  <2>4. QED
    BY <1>6, <2>2, <2>3 DEF FrameOK
<1>21. Frames(lists, g, F)'
  <2>1. ASSUME NEW d \in 1 .. n
        PROVE  FrameOK(lists, data, F[d], stack'[d], Goal(g, F, d - 1), TRUE)
    <3>1. CASE d = n
      BY <1>2, <1>4, <1>19, <1>20, <3>1
    <3>2. CASE d # n
      <4>1. d \in 1 .. n - 1 /\ d \in 1 .. Top /\ d < Top
        BY <1>1, <3>2
      <4>2. PICK r : r = stack[d]
        OBVIOUS
      <4>3. FrameOK(lists, data, F[d], r, Goal(g, F, d - 1), TRUE)
        BY <4>1, <4>2, FrameStays DEF Reading
      <4>4. QED
        BY <1>19, <4>1, <4>2, <4>3
    <3>3. QED
      BY <3>1, <3>2
  <2>2. QED
    BY <1>8, <1>17, <2>1 DEF Frames
<1>22. Expected(items, Goal(g, F, Top))'
  BY <1>8, <1>14, <1>16, <1>17 DEF Expected
<1>23. QED
  BY <1>8, <1>21, <1>22 DEF Reading

\* DecodeObject finds the end marker where the properties end.
LEMMA EndReading ==
    ASSUME IInv, IInv', NEW items, NEW lists, EncodedBy(items, lists), NEW g, NEW F,
           Reading(items, lists, g, F), ReadObjectEnd
    PROVE  Reading(items, lists, g, F)'
<1>1. PICK n \in Nat \ {0} : n = Top
  BY TopIs DEF ReadObjectEnd
<1>2. PICK f : f = F[n]
  OBVIOUS
<1>3. control = "object" /\ pos \in Nat /\ TypeOK /\ DOMAIN stack = 1 .. n /\ stack # <<>>
  BY <1>1, TopIs DEF ReadObjectEnd, IInv, ControlInv
<1>4. PICK h : h = Goal(g, F, n - 1)
  OBVIOUS
<1>5. PICK s : s = stack[n]
  OBVIOUS
<1>6. /\ FrameOK(lists, data, f, s, h, FALSE)
      /\ Len(f.ps) \in Nat /\ DOMAIN f.ps = 1 .. Len(f.ps)
      /\ f.n < Len(f.ps) => At(data, pos, f.ps[f.n + 1].bytes)
      /\ f.n = Len(f.ps) => At(data, pos, EncodeObjectEnd) /\ pos + 3 = h.end
  BY <1>1, <1>2, <1>3, <1>4, <1>5, InObject
<1>7. PICK k : k = ReadObjectKey(pos)
  OBVIOUS
<1>8. /\ EndAfter(k) /\ pos' = k.pos + 1 /\ control' = "return" /\ data' = data
      /\ ret' = Object(s.properties) /\ stack' = SubSeq(stack, 1, n - 1)
  BY <1>1, <1>5, <1>7 DEF ReadObjectEnd, LeaveObject, Return
<1>9. PICK ps \in lists : ps = f.ps
  BY <1>6 DEF FrameOK
<1>10. PICK m \in Nat : m = f.n /\ m <= Len(ps)
  BY <1>6, <1>9 DEF FrameOK
<1>11. m = Len(ps)
  <2>1. CASE m < Len(ps)
    <3>1. PICK i : i = m + 1
      OBVIOUS
    <3>2. i \in DOMAIN ps /\ At(data, pos, ps[i].bytes)
      BY <1>6, <1>9, <1>10, <2>1, <3>1
    <3>3. ~EndAfter(k)
      BY <1>3, <1>7, <3>2, PropertyIsRead
    <3>4. QED
      BY <1>8, <3>3
  <2>2. QED
    BY <1>6, <1>9, <1>10, <2>1
<1>12. pos' = h.end
  <2>1. At(data, pos, EncodeObjectEnd) /\ pos + 3 = h.end
    BY <1>6, <1>9, <1>10, <1>11
  <2>2. k.pos = pos + 2
    BY <1>3, <1>7, <2>1, EndIsRead DEF Read
  <2>3. QED
    BY <1>3, <1>8, <2>1, <2>2
<1>13. ret' = h.value
  <2>1. h.value = PropertyValues(ps) /\ s.properties = [i \in 1 .. m |-> ps[i].value]
    BY <1>6, <1>9, <1>10 DEF FrameOK
  <2>2. DOMAIN ps = 1 .. m
    BY <1>6, <1>9, <1>11
  <2>3. QED
    BY <1>8, <2>1, <2>2 DEF PropertyValues
<1>14. Top' = n - 1 /\ \A d \in 1 .. n - 1 : stack'[d] = stack[d]
  <2>1. PICK S : S = {stack[i] : i \in DOMAIN stack}
    OBVIOUS
  <2>2. \A i \in 1 .. n - 1 : stack[i] \in S
    <3>1. \A i \in 1 .. n - 1 : i \in DOMAIN stack
      BY <1>3
    <3>2. QED
      BY <2>1, <3>1
  <2>3. QED
    BY <1>8, <2>2, SubSeqProperties DEF Top
<1>15. Frames(lists, g, F)'
  <2>1. ASSUME NEW d \in 1 .. n - 1
        PROVE  FrameOK(lists, data, F[d], stack'[d], Goal(g, F, d - 1), TRUE)
    <3>1. d \in 1 .. Top /\ d < Top
      BY <1>1
    <3>2. PICK r : r = stack[d]
      OBVIOUS
    <3>3. FrameOK(lists, data, F[d], r, Goal(g, F, d - 1), TRUE)
      BY <3>1, <3>2, FrameStays DEF Reading
    <3>4. QED
      BY <1>14, <3>2, <3>3
  <2>2. QED
    BY <1>8, <1>14, <2>1 DEF Frames
<1>16. QED
  BY <1>4, <1>8, <1>12, <1>13, <1>14, <1>15 DEF Reading

\* DecodeObject stores the value read, under its key.
LEMMA StoreReading ==
    ASSUME IInv, IInv', NEW items, NEW lists, EncodedBy(items, lists), NEW g, NEW F,
           Reading(items, lists, g, F), StoreProperty
    PROVE  \E G : Reading(items, lists, g, G)'
<1>1. PICK n \in Nat \ {0} : n = Top
  <2>1. stack = <<>> <=> Top = 0
    BY DEF IInv, TypeOK, IsSequence, Top
  <2>2. QED
    BY <2>1, TopIs DEF StoreProperty
<1>2. PICK f : f = F[n]
  OBVIOUS
<1>3. control = "return" /\ DOMAIN stack = 1 .. n /\ IsSequence(stack)
  BY <1>1, TopIs DEF StoreProperty
<1>4. PICK h : h = Goal(g, F, n - 1)
  OBVIOUS
<1>5. PICK s : s = stack[n]
  OBVIOUS
<1>6. FrameOK(lists, data, f, s, h, TRUE)
  <2>1. n \in 1 .. Top
    BY <1>1
  <2>2. FrameOK(lists, data, F[n], s, Goal(g, F, n - 1), TRUE)
    BY <1>1, <1>3, <1>5, <2>1, FrameStays DEF Reading
  <2>3. QED
    BY <1>2, <1>4, <2>2
<1>7. PICK ps \in lists : ps = f.ps
  BY <1>6 DEF FrameOK
<1>8. AreItems(ps) /\ Len(ps) \in Nat /\ DOMAIN ps = 1 .. Len(ps) /\ IsList(items, ps)
  BY Encoded, SequenceLen DEF AreItems
<1>9. PICK m \in Nat : m = f.n /\ m < Len(ps)
  BY <1>6, <1>7 DEF FrameOK
<1>10. PICK i : i = m + 1
  OBVIOUS
<1>11. i \in DOMAIN ps /\ i \in Nat /\ i - 1 = m
  BY <1>8, <1>9, <1>10
<1>12. s.key = ps[i].value[1] /\ ret = ps[i].value[2] /\ pos = f.q + Len(Start(ps, i))
  BY <1>1, <1>2, <1>3, <1>6, <1>7, <1>9, <1>10 DEF FrameOK, Reading, Goal, Child
<1>13. <<s.key, ret>> = ps[i].value
  <2>1. PICK e : ps[i] = Named(ps[i].value[1], e)
    BY <1>8, <1>11 DEF IsList
  <2>2. ps[i].value = <<ps[i].value[1], e.value>>
    BY <2>1 DEF Named, Item
  <2>3. QED
    BY <1>12, <2>2
<1>14. PICK v : v = ps[i].value
  OBVIOUS
<1>15. /\ control' = "object" /\ data' = data /\ pos' = pos
       /\ stack' = [stack EXCEPT ![n] = [s EXCEPT !.properties = Append(@, v)]]
  BY <1>1, <1>5, <1>13, <1>14 DEF StoreProperty
<1>16. Append(s.properties, v) = [j \in 1 .. i |-> ps[j].value]
  <2>1. PICK p : p = s.properties
    OBVIOUS
  <2>2. p = [j \in 1 .. m |-> ps[j].value]
    BY <1>6, <1>7, <1>9, <2>1 DEF FrameOK
  <2>3. PICK S : S = {ps[j].value : j \in 1 .. i}
    OBVIOUS
  <2>4. \A j \in 1 .. m : ps[j].value \in S
    BY <1>10, <2>3
  <2>5. p \in Seq(S) /\ Len(p) = m /\ v \in S
    <3>1. p \in [1 .. m -> S]
      BY <2>2, <2>4
    <3>2. i \in 1 .. i
      BY <1>11, <1>10
    <3>3. QED
      BY <1>14, <2>3, <3>1, <3>2
  <2>6. PICK c : c = Append(p, v)
    OBVIOUS
  <2>7. /\ c \in Seq(S) /\ Len(c) = i /\ c[i] = v
        /\ \A j \in 1 .. m : c[j] = p[j]
    BY <1>10, <2>5, <2>6, AppendProperties
  <2>8. c = [j \in 1 .. i |-> c[j]]
    BY <2>7
  <2>9. \A j \in 1 .. i : c[j] = ps[j].value
    BY <1>10, <1>14, <2>2, <2>7
  <2>10. QED
    BY <2>1, <2>6, <2>8, <2>9
<1>17. PICK t : t = [key |-> s.key, properties |-> [j \in 1 .. i |-> ps[j].value]]
  OBVIOUS
<1>18. Top' = n
  BY <1>1, <1>3, <1>15, ExceptSequence DEF Top
<1>19. stack'[n] = t /\ \A d \in 1 .. n - 1 : stack'[d] = stack[d]
  <2>1. n \in DOMAIN stack /\ s = [key |-> s.key, properties |-> s.properties]
    BY <1>3, <1>6 DEF FrameOK
  <2>2. [s EXCEPT !.properties = Append(@, v)] = t
    <3>1. PICK P : P = Append(s.properties, v)
      OBVIOUS
    <3>2. [s EXCEPT !.properties = P] = [key |-> s.key, properties |-> P]
      BY <2>1
    <3>3. [s EXCEPT !.properties = Append(@, v)] = [s EXCEPT !.properties = P]
      BY <2>1, <3>1
    <3>4. QED
      BY <1>16, <1>17, <3>1, <3>2, <3>3
  <2>3. QED
    BY <1>3, <1>15, <2>1, <2>2
<1>20. PICK f2 : f2 = [ps |-> ps, q |-> f.q, n |-> i]
  OBVIOUS
<1>21. PICK G : G = [d \in 1 .. n |-> IF d = n THEN f2 ELSE F[d]]
  OBVIOUS
<1>22. G[n] = f2 /\ \A d \in 1 .. n - 1 : G[d] = F[d]
  BY <1>21
<1>23. \A d \in 0 .. n - 1 : Goal(g, G, d) = Goal(g, F, d)
  BY <1>22 DEF Goal
<1>24. FrameOK(lists, data, f2, t, h, FALSE)
  <2>1. t = [key |-> t.key, properties |-> [j \in 1 .. f2.n |-> f2.ps[j].value]]
    BY <1>17, <1>20
  <2>2. i \in 0 .. Len(ps)
    BY <1>8, <1>11
  <2>3. QED
    BY <1>6, <1>7, <1>20, <2>1, <2>2 DEF FrameOK
<1>25. Frames(lists, g, G)'
  <2>1. ASSUME NEW d \in 1 .. n
        PROVE  FrameOK(lists, data, G[d], stack'[d], Goal(g, G, d - 1),
                       d < n \/ control' # "object")
    <3>1. CASE d = n
      <4>1. Goal(g, G, n - 1) = h
        BY <1>4, <1>23
      <4>2. FrameOK(lists, data, G[n], stack'[n], Goal(g, G, n - 1), FALSE)
        BY <1>19, <1>22, <1>24, <4>1
      <4>3. (d < n \/ control' # "object") = FALSE
        BY <1>15, <3>1
      <4>4. QED
        BY <3>1, <4>2, <4>3
    <3>2. CASE d # n
      <4>1. d \in 1 .. n - 1 /\ d \in 1 .. Top /\ d < Top /\ d - 1 \in 0 .. n - 1
        BY <1>1, <3>2
      <4>2. PICK r : r = stack[d]
        OBVIOUS
      <4>3. F[d] = G[d] /\ Goal(g, F, d - 1) = Goal(g, G, d - 1)
        BY <1>22, <1>23, <4>1
      <4>4. FrameOK(lists, data, G[d], r, Goal(g, G, d - 1),
                         d < n \/ control' # "object")
        BY <4>1, <4>2, <4>3, FrameStays DEF Reading
      <4>5. QED
        BY <1>19, <4>1, <4>2, <4>4
    <3>3. QED
      BY <3>1, <3>2
  <2>2. QED
    BY <1>15, <1>18, <2>1 DEF Frames
<1>26. pos' = G[n].q + Len(Start(G[n].ps, G[n].n))
  BY <1>12, <1>15, <1>20, <1>22
<1>27. Reading(items, lists, g, G)'
  BY <1>15, <1>18, <1>25, <1>26 DEF Reading
<1>28. QED
  BY <1>27

\* A decode that has data to read does not end for want of it.
LEMMA NotAtTheEnd ==
    ASSUME IInv, NEW items, NEW lists, EncodedBy(items, lists), NEW g, NEW F,
           Reading(items, lists, g, F), control \in {"decode", "object"}
    PROVE  HasMore
<1>1. pos \in Nat /\ Len(data) \in Nat /\ TypeOK
  BY TopIs DEF IInv
<1>2. CASE control = "decode"
  <2>1. PICK e \in items : At(data, pos, e.bytes)
    BY <1>2 DEF Reading, Expected
  <2>2. QED
    BY <1>1, <2>1, FirstByte DEF HasMore
<1>3. CASE control = "object"
  <2>1. PICK n \in Nat \ {0} : n = Top
    BY <1>3, TopIs
  <2>2. PICK f : f = F[n]
    OBVIOUS
  <2>3. PICK s : s = stack[n]
    OBVIOUS
  <2>4. PICK h : h = Goal(g, F, n - 1)
    OBVIOUS
  <2>5. /\ FrameOK(lists, data, f, s, h, FALSE)
        /\ Len(f.ps) \in Nat /\ DOMAIN f.ps = 1 .. Len(f.ps)
        /\ f.n < Len(f.ps) => At(data, pos, f.ps[f.n + 1].bytes)
        /\ f.n = Len(f.ps) => At(data, pos, EncodeObjectEnd)
    BY <1>3, <2>1, <2>2, <2>3, <2>4, InObject
  <2>6. f.ps \in lists /\ f.n \in 0 .. Len(f.ps)
    BY <2>5 DEF FrameOK
  <2>7. CASE f.n = Len(f.ps)
    <3>1. pos + 3 <= Len(data)
      BY <1>1, <2>5, <2>7, EndIsRead
    <3>2. QED
      BY <1>1, <3>1 DEF HasMore
  <2>8. CASE f.n # Len(f.ps)
    <3>1. PICK i : i = f.n + 1
      OBVIOUS
    <3>2. i \in DOMAIN f.ps /\ At(data, pos, f.ps[i].bytes)
      BY <2>5, <2>6, <2>8, <3>1
    <3>3. PICK ps \in lists : ps = f.ps
      BY <2>6
    <3>4. pos < Len(data)
      BY <1>1, <3>2, <3>3, PropertyIsRead
    <3>5. QED
      BY <3>4 DEF HasMore
  <2>9. QED
    BY <2>7, <2>8
<1>4. QED
  BY <1>2, <1>3

\* Every step of the decoder brings what was written nearer.
LEMMA DecoderReading ==
    ASSUME IInv, NEW items, NEW lists, EncodedBy(items, lists), NEW g, NEW F,
           Reading(items, lists, g, F), Decoder
    PROVE  /\ \E G : Reading(items, lists, g, G)'
           /\ data' = data /\ control' \in {"decode", "object", "return"}
<1>1. IInv'
  BY DecoderKeepsIInv
<1>2. DecoderStep /\ data' = data /\ control' \in {"decode", "object", "return"}
  BY DEF Decoder, DecoderStep, DecodeNothing, DecodeScalar, EnterObject, ReadKey, ReadObjectEnd,
     ReachDataEnd, StoreProperty, LeaveObject, Return
<1>3. ~DecodeNothing /\ ~ReachDataEnd
  BY NotAtTheEnd DEF DecodeNothing, ReachDataEnd
<1>4. CASE DecodeScalar
  BY <1>1, <1>2, <1>4, ScalarReading
<1>5. CASE EnterObject
  BY <1>1, <1>2, <1>5, EnterReading
<1>6. CASE ReadKey
  BY <1>1, <1>2, <1>6, KeyReading
<1>7. CASE ReadObjectEnd
  BY <1>1, <1>2, <1>7, EndReading
<1>8. CASE StoreProperty
  BY <1>1, <1>2, <1>8, StoreReading
<1>9. QED
  BY <1>2, <1>3, <1>4, <1>5, <1>6, <1>7, <1>8 DEF DecoderStep

-----------------------------------------------------------------------------
(* A message *)

\* What WholeItems counts: the items before the first that is cut or unknown.
LEMMA WholeItemsIs ==
    ASSUME NEW its, AreItems(its), NEW kept \in Nat, NEW w, w = WholeItems(its, kept)
    PROVE  /\ w \in 0 .. Len(its) /\ Len(Start(its, w)) <= kept
           /\ \A j \in 1 .. w : its[j].value # Unsupported
           /\ \/ w = Len(its)
              \/ Len(Start(its, w + 1)) > kept
              \/ \E j \in 1 .. w + 1 : its[j].value = Unsupported
<1>1. PICK L \in Nat : L = Len(its)
  BY SequenceLen DEF AreItems
<1> DEFINE A(i) == /\ Len(Start(its, i)) <= kept
                   /\ \A j \in 1 .. i : its[j].value # Unsupported
           G == {n \in 0 .. L : n = L \/ ~A(n + 1)}
<1>2. WholeItems(its, kept) = CHOOSE n \in 0 .. L : A(n) /\ (n = L \/ ~A(n + 1))
  BY <1>1 DEF WholeItems, Start
<1>3. A(0)
  <2>1. Start(its, 0) = <<>> /\ Len(<<>>) = 0
    BY StartNothing
  <2>2. QED
    BY <2>1
<1>4. L \in G /\ G \subseteq Nat
  BY <1>1
<1>5. \E n \in 0 .. L : A(n) /\ (n = L \/ ~A(n + 1))
  <2>1. PICK n \in G : \A y \in G : n <= y
    <3> HIDE DEF G
    <3>1. QED
      BY <1>4, Least
  <2>2. n \in 0 .. L /\ (n = L \/ ~A(n + 1))
    OBVIOUS
  <2>3. CASE n = 0
    BY <1>3, <2>2, <2>3
  <2>4. CASE n # 0
    <3>1. PICK p : p = n - 1
      OBVIOUS
    <3>2. p \in 0 .. L /\ ~ (n <= p) /\ p + 1 = n /\ p # L
      BY <1>1, <2>2, <2>4, <3>1
    <3>3. p \notin G
      BY <2>1, <3>2
    <3>4. A(p + 1)
      BY <3>2, <3>3
    <3>5. A(n)
      BY <3>2, <3>4
    <3>6. QED
      BY <2>2, <3>5
  <2>5. QED
    BY <2>3, <2>4
<1>6. w \in 0 .. L /\ A(w) /\ (w = L \/ ~A(w + 1))
  <2> HIDE DEF A
  <2>1. QED
    BY <1>2, <1>5
<1>7. CASE w = L
  BY <1>1, <1>6, <1>7
<1>8. CASE ~A(w + 1)
  <2>1. Len(Start(its, w + 1)) \in Nat \/ w = L
    <3>1. CASE w # L
      <4>1. w \in Nat /\ w < Len(its)
        BY <1>1, <1>6, <3>1
      <4>2. /\ its[w + 1].bytes \in Seq(Nat) /\ Start(its, w) \in Seq(Nat)
            /\ Start(its, w + 1) = Start(its, w) \o its[w + 1].bytes
        BY <4>1, StartNext
      <4>3. Start(its, w + 1) \in Seq(Nat)
        BY <4>2, ConcatProperties
      <4>4. QED
        BY <4>3
    <3>2. QED
      BY <3>1
  <2>2. QED
    BY <1>1, <1>6, <1>8, <2>1
<1>9. QED
  BY <1>6, <1>7, <1>8

\* A string whose bytes do not all arrive.
CutString(its) ==
    msg.clean /\ msg.whole < Len(its) /\ IsString(its[msg.whole + 1].value)

\* The items of the message, and which of them lie in the data.
Holds(items, its) ==
    /\ AreItems(its) /\ its # <<>>
    /\ msg.values = [i \in 1 .. Len(its) |-> its[i].value]
    /\ msg.whole \in 0 .. Len(its)
    /\ \A i \in 1 .. msg.whole : its[i] \in items
    /\ At(data, 0, Start(its, msg.whole))
    /\ msg.whole = Len(its) /\ msg.clean => Len(data) = Len(Start(its, msg.whole))
    /\ CutString(its) =>
         /\ its[msg.whole + 1] \in items
         /\ Len(data) < Len(Start(its, msg.whole + 1))
         /\ \A k \in 1 .. Len(data) : data[k] = Start(its, msg.whole + 1)[k]

Busy == control \in {"decode", "object", "return"}

\* The values that arrived whole are decoded one by one.
Takes(items, lists, its) ==
    /\ IsSequence(args)
    /\ \A i \in 1 .. Len(args) : i <= msg.whole => args[i] = its[i].value
    /\ Len(args) < msg.whole /\ Busy =>
         \E F : Reading(items, lists, [value |-> its[Len(args) + 1].value,
                                       end |-> Len(Start(its, Len(args) + 1))], F)

\* Behind the last of them there is nothing, and nothing is null.
NothingLeft(its) ==
    msg.whole = Len(its) /\ msg.clean =>
      /\ Len(args) >= msg.whole =>
           pos = Len(data) /\ stack = <<>> /\ control # "object" /\ (control = "return" => ret = Null)
      /\ \A i \in 1 .. Len(args) : i > msg.whole => args[i] = Null
      /\ msg.kind = "reply" => IF Busy THEN Len(args) < msg.whole ELSE Len(args) = msg.whole

EmptyString(v) == IsString(v) => v[2] = <<>>

\* At most the first byte of a length is left.
Spent == Len(data) <= pos + 1 /\ (control = "return" => EmptyString(ret))

\* A string that is cut short is read as empty, and what follows it is none.
CutShort(its) ==
    CutString(its) /\ Len(args) >= msg.whole =>
      /\ \/ Len(args) = msg.whole /\ control = "decode" /\ stack = <<>>
            /\ pos = Len(Start(its, msg.whole))
         \/ ~Busy
         \/ Spent
      /\ \A j \in 1 .. Len(args) : j > msg.whole => EmptyString(args[j])

Progress(items, lists, its) ==
    Holds(items, its) /\ Takes(items, lists, its) /\ NothingLeft(its) /\ CutShort(its)

MsgInv(items, lists) ==
    /\ control = "idle" => args = <<>> /\ msg = NoMessage
    /\ control # "idle" => \E its : Progress(items, lists, its)

\* The item that follows the first n lies at their end.
LEMMA NextItemAt ==
    ASSUME NEW items, NEW its, AreItems(its), NEW d, Len(d) \in Nat, NEW w \in 0 .. Len(its),
           \A i \in 1 .. w : its[i] \in items, At(d, 0, Start(its, w)), NEW n \in Nat, n < w
    PROVE  /\ its[n + 1] \in items
           /\ At(d, Len(Start(its, n)), its[n + 1].bytes)
           /\ Len(Start(its, n + 1)) = Len(Start(its, n)) + Len(its[n + 1].bytes)
           /\ Len(Start(its, n)) \in Nat
<1>1. PICK L \in Nat : L = Len(its)
  BY SequenceLen DEF AreItems
<1>2. w \in 0 .. L /\ n < L /\ n + 1 \in 1 .. w /\ 0 \in Nat
  BY <1>1
<1>3. /\ its[n + 1].bytes \in Seq(Nat) /\ Start(its, n) \in Seq(Nat)
      /\ Start(its, n + 1) = Start(its, n) \o its[n + 1].bytes
  BY <1>1, <1>2, StartNext
<1>4. Len(Start(its, n + 1)) = Len(Start(its, n)) + Len(its[n + 1].bytes)
  BY <1>3, ConcatProperties
<1>5. At(d, 0 + Len(Start(its, n)), its[n + 1].bytes)
  BY <1>1, <1>2, AtItem
<1>6. 0 + Len(Start(its, n)) = Len(Start(its, n)) /\ Len(Start(its, n)) \in Nat
  BY <1>3
<1>7. QED
  BY <1>2, <1>4, <1>5, <1>6

\* With nothing open and the next item at pos, a value is about to be read.
LEMMA Between ==
    ASSUME IInv', NEW items, NEW its, Holds(items, its)', NEW n \in Nat, n < msg'.whole,
           pos' = Len(Start(its, n)), stack' = <<>>, control' = "decode", NEW lists, NEW F
    PROVE  Reading(items, lists, [value |-> its[n + 1].value,
                                  end |-> Len(Start(its, n + 1))], F)'
<1>1. /\ AreItems(its) /\ Len(data') \in Nat /\ msg'.whole \in 0 .. Len(its)
      /\ \A i \in 1 .. msg'.whole : its[i] \in items /\ At(data', 0, Start(its, msg'.whole))
  BY DEF Holds, IInv, TypeOK
<1>2. PICK w \in 0 .. Len(its) : w = msg'.whole
  BY <1>1
<1>3. PICK d : d = data'
  OBVIOUS
<1>4. At(d, 0, Start(its, w))
  BY <1>2, <1>3 DEF Holds
<1>5. /\ its[n + 1] \in items
      /\ At(d, Len(Start(its, n)), its[n + 1].bytes)
      /\ Len(Start(its, n + 1)) = Len(Start(its, n)) + Len(its[n + 1].bytes)
  BY <1>1, <1>2, <1>3, <1>4, NextItemAt
<1>6. PICK e \in items : e = its[n + 1]
  BY <1>5
<1>7. PICK g : g = [value |-> its[n + 1].value, end |-> Len(Start(its, n + 1))]
  OBVIOUS
<1>8. At(data', pos', e.bytes) /\ g.value = e.value /\ g.end = pos' + Len(e.bytes)
  BY <1>3, <1>5, <1>6, <1>7
<1>9. Top' = 0
  BY DEF Top
<1>10. Frames(lists, g, F)'
  BY <1>9 DEF Frames
<1>11. Expected(items, Goal(g, F, Top))'
  BY <1>8, <1>9 DEF Goal, Expected
<1>12. Reading(items, lists, g, F)'
  BY <1>10, <1>11 DEF Reading
<1>13. QED
  BY <1>7, <1>12

-----------------------------------------------------------------------------
(* Every step keeps what is known of the message *)

\* A message's items, as its sender wrote them.
LEMMA ItemsOfMessage ==
    ASSUME NEW items, NEW lists, EncodedBy(items, lists), WritesOnly(items), NEW m \in Messages
    PROVE  /\ AreItems(m.items) /\ m.items # <<>>
           /\ \A i \in DOMAIN m.items : m.items[i].value # Unsupported => m.items[i] \in items
<1>1. /\ IsSequence(m.items) /\ m.items # <<>>
      /\ \A i \in DOMAIN m.items :
           \/ m.items[i] \in items
           \/ m.items[i].value = Unsupported /\ m.items[i].bytes \in Seq(Nat)
  BY DEF WritesOnly
<1>2. \A i \in DOMAIN m.items : m.items[i].bytes \in Seq(Nat)
  BY <1>1, Encoded
<1>3. QED
  BY <1>1, <1>2 DEF AreItems

\* A new message's whole items lie at the start of its data.
LEMMA ReceiveHolds ==
    ASSUME IInv, NEW items, NEW lists, EncodedBy(items, lists), WritesOnly(items),
           NEW m \in Messages, NEW tail \in Tails, NEW kept \in 0 .. Len(Payload(m.items)),
           Receive(m, kept, tail), NEW its, its = m.items
    PROVE  Holds(items, its)'
<1>1. /\ AreItems(its) /\ its # <<>>
      /\ \A i \in DOMAIN its : its[i].value # Unsupported => its[i] \in items
  BY ItemsOfMessage
<1>2. PICK L \in Nat : L = Len(its) /\ DOMAIN its = 1 .. L
  BY <1>1, SequenceLen DEF AreItems
<1>3. PICK P : P = Payload(its)
  OBVIOUS
<1>4. P \in Seq(Nat) /\ Start(its, L) = P /\ Len(P) \in Nat
  BY <1>1, <1>2, <1>3, StartAll
<1>5. kept \in 0 .. Len(P) /\ kept \in Nat
  BY <1>3, <1>4
<1>6. PICK w : w = WholeItems(its, kept)
  OBVIOUS
<1>7. /\ w \in 0 .. L /\ Len(Start(its, w)) <= kept
      /\ \A j \in 1 .. w : its[j].value # Unsupported
      /\ \/ w = L
         \/ Len(Start(its, w + 1)) > kept
         \/ \E j \in 1 .. w + 1 : its[j].value = Unsupported
  BY <1>1, <1>2, <1>5, <1>6, WholeItemsIs
<1>8. /\ data' = SubSeq(P, 1, kept) \o tail
      /\ msg' = [kind |-> m.kind, values |-> [i \in DOMAIN its |-> its[i].value],
                 whole |-> w, clean |-> tail = <<>>]
  BY <1>3, <1>6 DEF Receive
<1>9. \A i \in 1 .. w : its[i] \in items
  BY <1>1, <1>2, <1>7
<1>10. PICK a : a = SubSeq(P, 1, kept)
  OBVIOUS
<1>11. /\ a \in Seq(Nat) /\ Len(a) = kept
       /\ \A k \in 1 .. kept : a[k] = P[k]
  BY <1>4, <1>5, <1>10
<1>12. tail \in Seq(Nat)
  BY RtmpCommandAssumption
<1>13. PICK d : d = a \o tail
  OBVIOUS
<1>14. /\ d \in Seq(Nat) /\ Len(d) = kept + Len(tail) /\ Len(tail) \in Nat
       /\ \A k \in 1 .. kept : d[k] = P[k]
  <2>1. /\ d \in Seq(Nat) /\ Len(d) = kept + Len(tail)
        /\ \A k \in 1 .. kept + Len(tail) : d[k] = IF k <= kept THEN a[k] ELSE tail[k - kept]
    BY <1>11, <1>12, <1>13, ConcatProperties
  <2>2. Len(tail) \in Nat
    BY <1>12
  <2>3. \A k \in 1 .. kept : k \in 1 .. kept + Len(tail) /\ k <= kept
    BY <1>5, <2>2
  <2>4. QED
    BY <1>11, <2>1, <2>2, <2>3
<1>15. \A n \in 0 .. L : At(P, 0, Start(its, n))
  <2>1. At(P, 0, P)
    BY <1>4 DEF At
  <2>2. L \in 0 .. Len(its) /\ At(P, 0, Start(its, L)) /\ 0 \in Nat
    BY <1>2, <1>4, <2>1
  <2>3. QED
    BY <1>1, <1>2, <1>4, <2>2, AtStart
<1>16. \A n \in 0 .. L : Start(its, n) \in Seq(Nat)
  BY <1>1, <1>2, StartIs
<1>17. At(d, 0, Start(its, w))
  <2>1. PICK b \in Seq(Nat) : b = Start(its, w)
    BY <1>7, <1>16
  <2>2. \A k \in 1 .. Len(b) : P[0 + k] = b[k]
    BY <1>7, <1>15, <2>1 DEF At
  <2>3. Len(b) \in Nat /\ Len(b) <= kept
    BY <1>7, <2>1
  <2>4. \A k \in 1 .. Len(b) : k \in 1 .. kept /\ 0 + k = k
    BY <1>5, <2>3
  <2>5. \A k \in 1 .. Len(b) : d[0 + k] = b[k]
    BY <1>14, <2>2, <2>4
  <2>6. 0 + Len(b) <= Len(d)
    BY <1>5, <1>14, <2>3
  <2>7. QED
    BY <2>1, <2>5, <2>6 DEF At
<1>18. ASSUME tail = <<>>
       PROVE  Len(d) = kept
  BY <1>5, <1>14, <1>18
<1>19. ASSUME w = L, tail = <<>>
       PROVE  Len(d) = Len(Start(its, w))
  BY <1>4, <1>5, <1>7, <1>18, <1>19
<1>20. ASSUME tail = <<>>, w < L, IsString(its[w + 1].value)
       PROVE  /\ its[w + 1] \in items
              /\ Len(d) < Len(Start(its, w + 1))
              /\ \A k \in 1 .. Len(d) : d[k] = Start(its, w + 1)[k]
  <2>1. its[w + 1].value # Unsupported
    BY <1>20 DEF IsString, Unsupported
  <2>2. w + 1 \in 0 .. L /\ w + 1 \in 1 .. L
    BY <1>2, <1>7, <1>20
  <2>3. its[w + 1] \in items
    BY <1>1, <1>2, <2>1, <2>2
  <2>4. ~ \E j \in 1 .. w + 1 : its[j].value = Unsupported
    <3>1. \A j \in 1 .. w + 1 : j \in 1 .. w \/ j = w + 1
      BY <1>7
    <3>2. QED
      BY <1>7, <2>1, <3>1
  <2>5. w # L
    BY <1>2, <1>20
  <2>6. Len(Start(its, w + 1)) > kept
    BY <1>7, <2>4, <2>5
  <2>7. PICK b \in Seq(Nat) : b = Start(its, w + 1)
    BY <1>16, <2>2
  <2>8. Len(b) > kept /\ \A k \in 1 .. Len(b) : P[0 + k] = b[k]
    BY <1>15, <2>2, <2>6, <2>7 DEF At
  <2>9. \A k \in 1 .. kept : k \in 1 .. Len(b) /\ 0 + k = k
    BY <1>5, <2>8
  <2>10. \A k \in 1 .. kept : d[k] = b[k]
    BY <1>14, <2>8, <2>9
  <2>11. Len(d) = kept
    BY <1>18, <1>20
  <2>12. QED
    BY <1>5, <2>3, <2>7, <2>8, <2>10, <2>11
<1>21. /\ data' = d /\ msg'.whole = w /\ (msg'.clean <=> tail = <<>>)
       /\ msg'.values = [i \in 1 .. L |-> its[i].value]
  BY <1>2, <1>8, <1>10, <1>13
<1>22. CutString(its)' => /\ its[msg'.whole + 1] \in items
                          /\ Len(data') < Len(Start(its, msg'.whole + 1))
                          /\ \A k \in 1 .. Len(data') : data'[k] = Start(its, msg'.whole + 1)[k]
  BY <1>2, <1>20, <1>21 DEF CutString
<1>23. msg'.whole = Len(its) /\ msg'.clean => Len(data') = Len(Start(its, msg'.whole))
  BY <1>2, <1>19, <1>21
<1>24. QED
  BY <1>1, <1>2, <1>7, <1>9, <1>17, <1>21, <1>22, <1>23 DEF Holds

\* A new message is read from its first item.
LEMMA ReceiveProgress ==
    ASSUME IInv, NEW items, NEW lists, EncodedBy(items, lists), WritesOnly(items),
           MsgInv(items, lists), control = "idle",
           NEW m \in Messages, NEW tail \in Tails, NEW kept \in 0 .. Len(Payload(m.items)),
           Receive(m, kept, tail)
    PROVE  \E its : Progress(items, lists, its)'
<1>1. IInv'
  BY ReceiveIInv
<1>2. PICK its : its = m.items
  OBVIOUS
<1>3. Holds(items, its)'
  BY <1>2, ReceiveHolds
<1>4. /\ args' = <<>> /\ pos' = 0 /\ stack' = <<>> /\ control' = "decode" /\ Len(args') = 0
  BY DEF Receive, MsgInv, IInv, ControlInv
<1>5. AreItems(its) /\ its # <<>> /\ Len(its) \in Nat \ {0} /\ msg'.whole \in 0 .. Len(its)
  <2>1. AreItems(its) /\ its # <<>> /\ msg'.whole \in 0 .. Len(its)
    BY <1>3 DEF Holds
  <2>2. QED
    BY <2>1 DEF AreItems, IsSequence
<1>6. Len(Start(its, 0)) = 0
  BY <1>5, StartNothing
<1>7. Takes(items, lists, its)'
  <2>1. ASSUME 0 < msg'.whole, NEW F
        PROVE  Reading(items, lists, [value |-> its[0 + 1].value, end |-> Len(Start(its, 0 + 1))], F)'
    BY <1>1, <1>3, <1>4, <1>6, <2>1, Between
  <2>2. IsSequence(args')
    BY <1>4 DEF IsSequence
  <2>3. QED
    BY <1>4, <2>1, <2>2 DEF Takes
<1>8. NothingLeft(its)'
  BY <1>4, <1>5 DEF NothingLeft, Busy
<1>9. CutShort(its)'
  <2>1. ASSUME Len(args') >= msg'.whole
        PROVE  Len(args') = msg'.whole /\ pos' = Len(Start(its, msg'.whole))
    <3>1. msg'.whole = 0
      BY <1>4, <1>5, <2>1
    <3>2. QED
      BY <1>4, <1>6, <3>1
  <2>2. QED
    BY <1>4, <2>1 DEF CutShort
<1>10. QED
  BY <1>3, <1>7, <1>8, <1>9 DEF Progress

\* The items stay where they lie while the data does.
LEMMA HoldsOn ==
    ASSUME NEW items, NEW its, Holds(items, its), data' = data, msg' = msg
    PROVE  Holds(items, its)'
BY DEF Holds, CutString

\* Once no more than one byte is left, the decoder makes no string but the empty one.
LEMMA StaysSpent ==
    ASSUME IInv, Decoder, Len(data) <= pos + 1, control = "return" => EmptyString(ret)
    PROVE  Spent'
<1>1. /\ pos \in Nat /\ pos' \in Nat /\ pos' >= pos /\ data' = data /\ Len(data) \in Nat
      /\ pos <= Len(data) /\ TypeOK
  <2>1. IInv' /\ Lowers
    BY DecoderKeepsIInv
  <2>2. data' = data
    BY DEF Decoder, DecoderStep, DecodeNothing, DecodeScalar, EnterObject, ReadKey, ReadObjectEnd,
       ReachDataEnd, StoreProperty
  <2>3. QED
    BY <2>1, <2>2 DEF IInv, TypeOK, Lowers
<1>2. Len(data') <= pos' + 1
  BY <1>1
<1>3. ASSUME control' = "return"
      PROVE  EmptyString(ret')
  <2>1. CASE DecodeNothing
    BY <2>1 DEF DecodeNothing, Return, Null, EmptyString, IsString
  <2>2. CASE DecodeScalar
    <3>1. HasMore /\ pos + 1 = Len(data)
      BY <1>1, <2>2 DEF DecodeScalar, HasMore
    <3>2. PICK p \in Nat : p = pos + 1 /\ p = Len(data)
      BY <1>1, <3>1
    <3>3. ReadUint16BE(p) = Read(0, p)
      BY <3>2 DEF ReadUint16BE
    <3>4. ReadStringData(p, 0) = Read(<<>>, p)
      <4>1. ~ (p + 0 > Len(data))
        BY <3>2
      <4>2. SubSeq(data, p + 1, p + 0) = <<>>
        BY <3>2, SubSeqEmpty
      <4>3. p + 0 = p
        BY <3>2
      <4>4. QED
        BY <4>1, <4>2, <4>3 DEF ReadStringData
    <3>5. DecodeString(p).val = String(<<>>)
      BY <3>3, <3>4 DEF DecodeString, ReadObjectKey, Read
    <3>6. EmptyString(DecodeNumber(p).val) /\ EmptyString(DecodeBoolean(p).val)
      BY DEF DecodeNumber, DecodeBoolean, Read, Number, Boolean, EmptyString, IsString
    <3>7. EmptyString(DecodeString(p).val) /\ EmptyString(Null)
      BY <3>5 DEF String, Null, EmptyString, IsString
    <3>8. \A x : EmptyString(DecodeScalarAt(x, p).val)
      <4>1. TAKE x
      <4>2. DecodeScalarAt(x, p) \in {DecodeNumber(p), DecodeBoolean(p), DecodeString(p),
                                      Read(Null, Len(data)), Read(Null, p)}
        BY DEF DecodeScalarAt
      <4>3. Read(Null, Len(data)).val = Null /\ Read(Null, p).val = Null
        BY DEF Read
      <4>4. QED
        BY <3>6, <3>7, <4>2, <4>3
    <3>9. ret' = DecodeScalarAt(ByteAt(pos), p).val
      BY <2>2, <3>2 DEF DecodeScalar, Return
    <3>10. QED
      BY <3>8, <3>9
  <2>3. CASE ReadObjectEnd \/ ReachDataEnd
    BY <2>3 DEF ReadObjectEnd, ReachDataEnd, LeaveObject, Return, Object, EmptyString, IsString
  <2>4. CASE EnterObject \/ ReadKey \/ StoreProperty
    BY <1>3, <2>4 DEF EnterObject, ReadKey, StoreProperty
  <2>5. QED
    BY <2>1, <2>2, <2>3, <2>4 DEF Decoder, DecoderStep
<1>4. QED
  BY <1>2, <1>3 DEF Spent

\* A string of which some bytes are missing is read as empty, to the end of the data
\* but for the first byte of its length.
LEMMA CutIsRead ==
    ASSUME IInv, NEW items, NEW lists, EncodedBy(items, lists), NEW its, Holds(items, its),
           CutString(its), pos = Len(Start(its, msg.whole)), control = "decode", Decoder
    PROVE  Spent'
<1>1. AreItems(its) /\ Len(its) \in Nat /\ msg.whole \in 0 .. Len(its) /\ msg.whole < Len(its)
  BY SequenceLen DEF Holds, AreItems, CutString
<1>2. PICK w \in Nat : w = msg.whole /\ w < Len(its)
  BY <1>1
<1>3. PICK e \in items : e = its[w + 1] /\ IsString(e.value)
  BY <1>2 DEF Holds, CutString
<1>4. PICK s : e = StringItem(s) /\ IsShort(s)
  BY <1>3, StringIsShort
<1>5. PICK n \in Nat : n = Len(s) /\ n < 65536
  BY <1>4 DEF IsShort
<1>6. PICK b : b = WriteStringData(s)
  OBVIOUS
<1>7. /\ b \in Seq(Nat) /\ Len(b) = 2 + n
      /\ b[1] = (n \div 256) % 256 /\ b[2] = n % 256
  BY <1>4, <1>5, <1>6, StringDataIs
<1>8. PICK a \in Seq(Nat) : a = Start(its, w) /\ Len(a) = pos
  <2>1. Start(its, w) \in Seq(Nat)
    BY <1>1, <1>2, StartNext
  <2>2. QED
    BY <1>2, <2>1
<1>9. PICK c : c = Start(its, w + 1)
  OBVIOUS
<1>10. e.bytes = <<2>> \o b
  BY <1>4, <1>6 DEF StringItem, Item, EncodeString, StringMarker
<1>11. c = a \o (<<2>> \o b)
  BY <1>1, <1>2, <1>3, <1>8, <1>9, <1>10, StartNext
<1>12. PICK t : t = <<2>> \o b
  OBVIOUS
<1>13. t \in Seq(Nat) /\ Len(t) = 3 + n /\ t[1] = 2 /\ t[2] = b[1] /\ t[3] = b[2]
  <2>1. PICK h : h = <<2>>
    OBVIOUS
  <2>2. h \in Seq(Nat) /\ Len(h) = 1 /\ h[1] = 2
    BY <2>1
  <2>3. PICK m \in Nat : m = 2 + n
    BY <1>5
  <2>4. /\ t \in Seq(Nat) /\ Len(t) = 1 + m
        /\ \A k \in 1 .. 1 : t[k] = h[k]
        /\ \A k \in 1 .. m : t[1 + k] = b[k]
    BY <1>7, <1>12, <2>1, <2>2, <2>3, ConcatIs
  <2>5. 1 \in 1 .. 1 /\ 1 \in 1 .. m /\ 2 \in 1 .. m /\ 1 + 1 = 2 /\ 1 + 2 = 3 /\ 1 + m = 3 + n
    BY <1>5, <2>3
  <2>6. t[1] = 2 /\ t[1 + 1] = b[1] /\ t[1 + 2] = b[2]
    BY <2>2, <2>4, <2>5
  <2>7. QED
    BY <2>4, <2>5, <2>6
<1>14. /\ Len(c) = pos + (3 + n)
       /\ \A i \in 1 .. 3 + n : c[pos + i] = t[i]
  <2>1. PICK p \in Nat : p = pos /\ p = Len(a)
    BY <1>8
  <2>2. PICK m \in Nat : m = 3 + n
    BY <1>5
  <2>3. /\ Len(c) = p + m
        /\ \A i \in 1 .. m : c[p + i] = t[i]
    <3>1. c = a \o t /\ m = Len(t) /\ t \in Seq(Nat)
      BY <1>11, <1>12, <1>13, <2>2
    <3>2. QED
      BY <2>1, <3>1, ConcatIs
  <2>4. QED
    BY <2>1, <2>2, <2>3
<1>15. PICK L \in Nat : L = Len(data) /\ pos \in Nat /\ pos <= L /\ data \in Seq(Nat)
  BY TopIs DEF IInv, TypeOK
<1>16. L < pos + (3 + n) /\ \A k \in 1 .. L : data[k] = c[k]
  BY <1>2, <1>9, <1>14, <1>15 DEF Holds
<1>17. \A i \in 1 .. 3 + n : pos + i <= L => data[pos + i] = t[i]
  BY <1>14, <1>15, <1>16
<1>18. CASE L <= pos + 1
  BY <1>15, <1>18, StaysSpent
<1>19. CASE L > pos + 1
  <2>1. ByteAt(pos) = 2 /\ HasMore
    <3>1. 1 \in 1 .. 3 + n /\ pos + 1 <= L
      BY <1>5, <1>15, <1>19
    <3>2. QED
      BY <1>13, <1>15, <1>17, <3>1 DEF ByteAt, HasMore
  <2>2. DecodeScalar
    BY <2>1 DEF Decoder, DecoderStep, DecodeNothing, EnterObject, ReadKey, ReadObjectEnd,
       ReachDataEnd, StoreProperty, ObjectMarker, ECMAArrayMarker
  <2>3. PICK p \in Nat : p = pos + 1
    BY <1>15
  <2>4. ReadObjectKey(p).val = <<>> /\ L <= ReadObjectKey(p).pos + 1
    <3>1. CASE p + 2 > L
      <4>1. ReadUint16BE(p) = Read(0, p)
        BY <1>15, <3>1 DEF ReadUint16BE
      <4>2. ~ (p + 0 > L) /\ p + 0 = p
        BY <1>15, <1>19, <2>3
      <4>3. SubSeq(data, p + 1, p + 0) = <<>>
        BY <2>3, SubSeqEmpty
      <4>4. ReadStringData(p, 0) = Read(<<>>, p)
        BY <1>15, <4>2, <4>3 DEF ReadStringData
      <4>5. QED
        BY <1>15, <2>3, <3>1, <4>1, <4>4 DEF ReadObjectKey, Read
    <3>2. CASE p + 2 <= L
      <4>1. 2 \in 1 .. 3 + n /\ 3 \in 1 .. 3 + n /\ pos + 2 = p + 1 /\ pos + 3 = p + 1 + 1
        BY <1>5, <1>15, <2>3
      <4>2. ByteAt(p) = b[1] /\ ByteAt(p + 1) = b[2]
        <5>1. pos + 2 <= L /\ pos + 3 <= L
          BY <1>15, <2>3, <3>2
        <5>2. data[pos + 2] = t[2] /\ data[pos + 3] = t[3]
          BY <1>17, <4>1, <5>1
        <5>3. t[2] = b[1] /\ t[3] = b[2]
          BY <1>13
        <5>4. QED
          BY <4>1, <5>2, <5>3 DEF ByteAt
      <4>3. ReadUint16BE(p) = Read(n, p + 2)
        <5>1. PICK h : h = b[1]
          OBVIOUS
        <5>2. PICK l : l = b[2]
          OBVIOUS
        <5>3. h = (n \div 256) % 256 /\ l = n % 256
          BY <1>7, <5>1, <5>2
        <5>4. PICK q \in Nat : q = n \div 256
          BY <1>5
        <5>5. n = 256 * q + l /\ q < 256
          BY <1>5, <5>3, <5>4
        <5>6. h = q
          BY <5>3, <5>4, <5>5
        <5>7. 256 * h + l = n
          BY <5>5, <5>6
        <5>8. ReadUint16BE(p) = Read(256 * h + l, p + 2)
          BY <1>15, <3>2, <4>2, <5>1, <5>2 DEF ReadUint16BE
        <5>9. QED
          BY <5>7, <5>8
      <4>4. p + 2 + n > L
        BY <1>5, <1>15, <1>16, <2>3
      <4>5. ReadStringData(p + 2, n) = Read(<<>>, L)
        BY <1>15, <4>4 DEF ReadStringData
      <4>6. QED
        BY <1>15, <4>3, <4>5 DEF ReadObjectKey, Read
    <3>3. QED
      BY <1>15, <2>3, <3>1, <3>2
  <2>5. DecodeScalarAt(2, p) = DecodeString(p)
    BY DEF DecodeScalarAt, NumberMarker, BooleanMarker, StringMarker, SkipAllMarker
  <2>6. /\ pos' = ReadObjectKey(p).pos /\ ret' = String(ReadObjectKey(p).val) /\ data' = data
    BY <2>1, <2>2, <2>3, <2>5 DEF DecodeScalar, DecodeString, Return, Read
  <2>7. EmptyString(ret')
    BY <2>4, <2>6 DEF String, EmptyString
  <2>8. Len(data') <= pos' + 1
    BY <1>15, <2>4, <2>6
  <2>9. QED
    BY <2>7, <2>8 DEF Spent
<1>20. QED
  BY <1>15, <1>18, <1>19

\* The decoder's steps keep what is known of the message.
LEMMA DecoderProgress ==
    ASSUME IInv, NEW items, NEW lists, EncodedBy(items, lists), NEW its,
           Progress(items, lists, its), Decoder
    PROVE  Progress(items, lists, its)'
<1>1. /\ data' = data /\ msg' = msg /\ args' = args
      /\ control \in {"decode", "object", "return"} /\ control' \in {"decode", "object", "return"}
  BY DEF Decoder, DecoderStep, DecodeNothing, DecodeScalar, EnterObject, ReadKey, ReadObjectEnd,
     ReachDataEnd, StoreProperty, LeaveObject, Return
<1>2. Holds(items, its)'
  BY <1>1, HoldsOn DEF Progress
<1>3. PICK n \in Nat : n = Len(args)
  BY SequenceLen DEF Progress, Takes
<1>4. PICK w \in Nat : w = msg.whole /\ w <= Len(its) /\ Len(its) \in Nat
  BY SequenceLen DEF Progress, Holds, AreItems
<1>5. Takes(items, lists, its)'
  <2>1. ASSUME n < w
        PROVE  \E F : Reading(items, lists, [value |-> its[n + 1].value,
                                             end |-> Len(Start(its, n + 1))], F)'
    <3>1. PICK g : g = [value |-> its[n + 1].value, end |-> Len(Start(its, n + 1))]
      OBVIOUS
    <3>2. PICK F : Reading(items, lists, g, F)
      BY <1>1, <1>3, <1>4, <2>1, <3>1 DEF Progress, Takes, Busy
    <3>3. \E G : Reading(items, lists, g, G)'
      BY <3>2, DecoderReading
    <3>4. QED
      BY <3>1, <3>3
  <2>2. QED
    BY <1>1, <1>3, <1>4, <2>1 DEF Progress, Takes
<1>6. NothingLeft(its)'
  <2>1. ASSUME msg.whole = Len(its), msg.clean, Len(args) >= msg.whole
        PROVE  /\ pos' = Len(data') /\ stack' = <<>> /\ control' = "return" /\ ret' = Null
    <3>1. pos = Len(data) /\ stack = <<>> /\ control # "object"
      BY <2>1 DEF Progress, NothingLeft
    <3>2. ~HasMore
      BY <3>1, TopIs DEF HasMore
    <3>3. DecodeNothing
      BY <3>1, <3>2 DEF Decoder, DecoderStep, DecodeScalar, EnterObject, ReadKey, ReadObjectEnd,
         ReachDataEnd, StoreProperty
    <3>4. QED
      BY <3>1, <3>3 DEF DecodeNothing, Return
  <2>2. QED
    BY <1>1, <2>1 DEF Progress, NothingLeft, Busy
<1>7. CutShort(its)'
  <2>1. ASSUME CutString(its), n >= w
        PROVE  Spent'
    <3>1. CASE control = "decode" /\ pos = Len(Start(its, msg.whole))
      BY <2>1, <3>1, CutIsRead DEF Progress
    <3>2. CASE Spent
      BY <3>2, StaysSpent DEF Spent
    <3>3. QED
      BY <1>1, <1>3, <1>4, <2>1, <3>1, <3>2 DEF Progress, CutShort, Busy
  <2>2. CutString(its)' <=> CutString(its)
    BY <1>1 DEF CutString
  <2>3. QED
    BY <1>1, <1>3, <1>4, <2>1, <2>2 DEF Progress, CutShort
<1>8. QED
  BY <1>2, <1>5, <1>6, <1>7 DEF Progress

\* Decode returns the next value to the handler.
LEMMA TakeProgress ==
    ASSUME IInv, NEW items, NEW lists, EncodedBy(items, lists), NEW its,
           Progress(items, lists, its), TakeValue
    PROVE  Progress(items, lists, its)'
<1>1. IInv'
  BY HandlerKeepsIInv DEF Handler
<1>2. /\ control = "return" /\ stack = <<>> /\ args' = Append(args, ret) /\ Top = 0
      /\ control' = (IF Wants(args') THEN "decode" ELSE "handle")
      /\ data' = data /\ pos' = pos /\ stack' = stack /\ ret' = ret /\ msg' = msg
  BY DEF TakeValue, Top
<1>3. Holds(items, its) /\ Holds(items, its)'
  BY <1>2, HoldsOn DEF Progress
<1>4. PICK n \in Nat : n = Len(args) /\ IsSequence(args)
  BY SequenceLen DEF Progress, Takes
<1>5. PICK w \in Nat : w = msg.whole /\ w <= Len(its) /\ Len(its) \in Nat
  BY SequenceLen DEF Progress, Holds, AreItems
<1>6. /\ IsSequence(args') /\ Len(args') = n + 1 /\ args'[n + 1] = ret
      /\ \A i \in 1 .. n : args'[i] = args[i]
  <2>1. PICK S : S = {args[i] : i \in DOMAIN args} \cup {ret}
    OBVIOUS
  <2>2. args \in Seq(S) /\ ret \in S
    BY <1>4, <2>1 DEF IsSequence
  <2>3. QED
    BY <1>2, <1>4, <2>2, AppendProperties, AppendSequence
<1>7. ASSUME n < w
      PROVE  ret = its[n + 1].value /\ pos = Len(Start(its, n + 1))
  <2>1. PICK g : g = [value |-> its[n + 1].value, end |-> Len(Start(its, n + 1))]
    OBVIOUS
  <2>2. PICK F : Reading(items, lists, g, F)
    BY <1>2, <1>4, <1>5, <1>7, <2>1 DEF Progress, Takes, Busy
  <2>3. ret = g.value /\ pos = g.end
    BY <1>2, <2>2 DEF Reading, Goal
  <2>4. QED
    BY <2>1, <2>3
<1>8. \A i \in 1 .. n + 1 : i <= w => args'[i] = its[i].value
  <2>1. ASSUME NEW i \in 1 .. n + 1, i <= w
        PROVE  args'[i] = its[i].value
    <3>1. CASE i = n + 1
      BY <1>6, <1>7, <2>1, <3>1
    <3>2. CASE i # n + 1
      <4>1. i \in 1 .. n
        BY <3>2
      <4>2. QED
        BY <1>4, <1>5, <1>6, <2>1, <4>1 DEF Progress, Takes
    <3>3. QED
      BY <3>1, <3>2
  <2>2. QED
    BY <2>1
<1>9. Takes(items, lists, its)'
  <2>1. ASSUME n + 1 < w, control' = "decode", NEW F
        PROVE  Reading(items, lists, [value |-> its[n + 1 + 1].value,
                                      end |-> Len(Start(its, n + 1 + 1))], F)'
    <3>1. PICK m \in Nat : m = n + 1
      BY <1>4
    <3>2. pos' = Len(Start(its, m)) /\ m < msg'.whole /\ stack' = <<>>
      BY <1>2, <1>4, <1>5, <1>7, <2>1, <3>1
    <3>3. Reading(items, lists, [value |-> its[m + 1].value, end |-> Len(Start(its, m + 1))], F)'
      BY <1>1, <1>3, <2>1, <3>1, <3>2, Between
    <3>4. QED
      BY <3>1, <3>3
  <2>2. Busy' => control' = "decode"
    BY <1>2 DEF Busy
  <2>3. QED
    BY <1>2, <1>5, <1>6, <1>8, <2>1, <2>2 DEF Takes
<1>10. NothingLeft(its)'
  <2>1. SUFFICES ASSUME msg.whole = Len(its), msg.clean
                 PROVE  NothingLeft(its)'
    BY <1>2 DEF NothingLeft
  <2>2. ASSUME n >= w
        PROVE  pos = Len(data) /\ ret = Null
    BY <1>2, <1>4, <1>5, <2>1, <2>2 DEF Progress, NothingLeft
  <2>3. ASSUME n + 1 = w
        PROVE  pos = Len(data)
    BY <1>4, <1>5, <1>7, <2>1, <2>3 DEF Progress, Holds
  <2>4. ASSUME n + 1 >= w
        PROVE  pos' = Len(data') /\ stack' = <<>> /\ control' # "object" /\ control' # "return"
    BY <1>2, <1>4, <1>5, <2>2, <2>3, <2>4
  <2>5. \A i \in 1 .. n + 1 : i > w => args'[i] = Null
    <3>1. ASSUME NEW i \in 1 .. n + 1, i > w
          PROVE  args'[i] = Null
      <4>1. CASE i = n + 1
        BY <1>4, <1>5, <1>6, <2>2, <3>1, <4>1
      <4>2. CASE i # n + 1
        <5>1. i \in 1 .. n
          BY <4>2
        <5>2. QED
          BY <1>4, <1>5, <1>6, <2>1, <3>1, <5>1 DEF Progress, NothingLeft
      <4>3. QED
        BY <4>1, <4>2
    <3>2. QED
      BY <3>1
  <2>6. ASSUME msg.kind = "reply"
        PROVE  IF Busy' THEN n + 1 < w ELSE n + 1 = w
    <3>1. n < w
      BY <1>2, <1>4, <1>5, <2>1, <2>6 DEF Progress, NothingLeft, Busy
    <3>2. control' = IF HasMore THEN "decode" ELSE "handle"
      BY <1>2, <2>6 DEF Wants
    <3>3. CASE n + 1 = w
      <4>1. ~HasMore
        BY <2>3, <3>3, TopIs DEF HasMore
      <4>2. QED
        BY <3>2, <3>3, <4>1 DEF Busy
    <3>4. CASE n + 1 < w
      <4>1. PICK m \in Nat : m = n + 1
        BY <1>4
      <4>2. PICK d : d = data
        OBVIOUS
      <4>3. /\ AreItems(its) /\ Len(d) \in Nat /\ w \in 0 .. Len(its) /\ m < w
            /\ \A i \in 1 .. w : its[i] \in items /\ At(d, 0, Start(its, w))
        BY <1>3, <1>5, <3>4, <4>1, <4>2, TopIs DEF Holds
      <4>4. At(d, 0, Start(its, w)) /\ \A i \in 1 .. w : its[i] \in items
        BY <1>3, <1>5, <4>2 DEF Holds
      <4>5. /\ its[m + 1] \in items /\ At(d, Len(Start(its, m)), its[m + 1].bytes)
            /\ Len(Start(its, m)) \in Nat
        BY <4>3, <4>4, NextItemAt
      <4>6. PICK e \in items : e = its[m + 1]
        BY <4>5
      <4>7. At(data, pos, e.bytes) /\ pos \in Nat /\ TypeOK
        BY <1>7, <3>1, <4>1, <4>2, <4>5, <4>6, TopIs DEF IInv
      <4>8. HasMore
        BY <4>7, FirstByte DEF HasMore
      <4>9. QED
        BY <3>2, <3>4, <4>8 DEF Busy
    <3>5. QED
      BY <1>4, <1>5, <3>1, <3>3, <3>4
  <2>7. QED
    BY <1>2, <1>5, <1>6, <2>4, <2>5, <2>6 DEF NothingLeft
<1>11. CutShort(its)'
  <2>1. CutString(its)' <=> CutString(its)
    BY <1>2 DEF CutString
  <2>2. SUFFICES ASSUME CutString(its), n + 1 >= w
                 PROVE  /\ \/ n + 1 = w /\ control' = "decode" /\ stack' = <<>>
                              /\ pos' = Len(Start(its, w))
                           \/ ~Busy'
                           \/ Spent'
                        /\ \A j \in 1 .. n + 1 : j > w => EmptyString(args'[j])
    BY <1>2, <1>5, <1>6, <2>1 DEF CutShort
  <2>3. CASE n + 1 = w
    <3>1. control' # "decode" => ~Busy'
      BY <1>2 DEF Busy
    <3>2. pos' = Len(Start(its, w)) /\ stack' = <<>>
      BY <1>2, <1>4, <1>5, <1>7, <2>3
    <3>3. \A j \in 1 .. n + 1 : ~ (j > w)
      BY <2>3
    <3>4. QED
      BY <2>3, <3>1, <3>2, <3>3
  <2>4. CASE n >= w
    <3>1. Spent /\ \A j \in 1 .. n : j > w => EmptyString(args[j])
      BY <1>2, <1>4, <1>5, <2>2, <2>4 DEF Progress, CutShort, Busy
    <3>2. EmptyString(ret) /\ Spent'
      BY <1>2, <3>1 DEF Spent
    <3>3. ASSUME NEW j \in 1 .. n + 1, j > w
          PROVE  EmptyString(args'[j])
      <4>1. CASE j = n + 1
        BY <1>6, <3>2, <4>1
      <4>2. CASE j # n + 1
        <5>1. j \in 1 .. n
          BY <4>2
        <5>2. QED
          BY <1>6, <3>1, <3>3, <5>1
      <4>3. QED
        BY <4>1, <4>2
    <3>4. QED
      BY <3>2, <3>3
  <2>5. QED
    BY <1>4, <1>5, <2>2, <2>3, <2>4
<1>12. QED
  BY <1>3, <1>9, <1>10, <1>11 DEF Progress

\* The handlers decode nothing.
LEMMA HandleProgress ==
    ASSUME IInv, NEW items, NEW lists, NEW its, Progress(items, lists, its),
           HandleCommand \/ HandleData \/ HandleReply
    PROVE  Progress(items, lists, its)'
<1>1. /\ control = "handle" /\ control' = "handled"
      /\ UNCHANGED <<data, pos, stack, ret, msg, args>>
  BY DEF HandleCommand, HandleData, HandleReply
<1>2. ~Busy /\ ~Busy'
  BY <1>1 DEF Busy
<1>3. Holds(items, its)'
  BY <1>1, HoldsOn DEF Progress
<1>4. Takes(items, lists, its)'
  BY <1>1, <1>2 DEF Progress, Takes
<1>5. NothingLeft(its)'
  BY <1>1, <1>2 DEF Progress, NothingLeft
<1>6. CutShort(its)'
  BY <1>1, <1>2 DEF Progress, CutShort, CutString
<1>7. QED
  BY <1>3, <1>4, <1>5, <1>6 DEF Progress

\* So every step keeps it.
LEMMA NextKeepsMsgInv ==
    ASSUME NEW items, NEW lists, EncodedBy(items, lists), WritesOnly(items),
           IInv, MsgInv(items, lists), [Next]_vars
    PROVE  MsgInv(items, lists)'
<1>1. CASE control = "idle" /\ \E m \in Messages, tail \in Tails :
                \E kept \in 0 .. Len(Payload(m.items)) : Receive(m, kept, tail)
  <2>1. \E its : Progress(items, lists, its)'
    BY <1>1, ReceiveProgress
  <2>2. control' # "idle"
    BY <1>1 DEF Receive
  <2>3. QED
    BY <2>1, <2>2 DEF MsgInv
<1>2. CASE control # "idle" /\ Next
  <2>1. PICK its : Progress(items, lists, its)
    BY <1>2 DEF MsgInv
  <2>2. CASE Decoder
    <3>1. Progress(items, lists, its)'
      BY <2>1, <2>2, DecoderProgress
    <3>2. control' # "idle"
      BY <2>2 DEF Decoder, DecoderStep, DecodeNothing, DecodeScalar, EnterObject, ReadKey,
         ReadObjectEnd, ReachDataEnd, StoreProperty, LeaveObject, Return
    <3>3. QED
      BY <3>1, <3>2 DEF MsgInv
  <2>3. CASE TakeValue
    <3>1. Progress(items, lists, its)'
      BY <2>1, <2>3, TakeProgress
    <3>2. control' # "idle"
      BY <2>3 DEF TakeValue
    <3>3. QED
      BY <3>1, <3>2 DEF MsgInv
  <2>4. CASE HandleCommand \/ HandleData \/ HandleReply
    <3>1. Progress(items, lists, its)'
      BY <2>1, <2>4, HandleProgress
    <3>2. control' # "idle"
      BY <2>4 DEF HandleCommand, HandleData, HandleReply
    <3>3. QED
      BY <3>1, <3>2 DEF MsgInv
  <2>5. CASE MessageDone
    BY <2>5 DEF MessageDone, MsgInv
  <2>6. QED
    BY <1>2, <2>2, <2>3, <2>4, <2>5 DEF Next, Handler
<1>3. CASE UNCHANGED vars
  <2>1. /\ data' = data /\ pos' = pos /\ control' = control /\ stack' = stack /\ ret' = ret
        /\ msg' = msg /\ args' = args
    BY <1>3 DEF vars, decoderVars
  <2>2. ASSUME NEW its, Progress(items, lists, its)
        PROVE  Progress(items, lists, its)'
    <3>1. Holds(items, its)'
      BY <2>1, <2>2, HoldsOn DEF Progress
    <3>2. Takes(items, lists, its)'
      <4>1. ASSUME NEW g, NEW F, Reading(items, lists, g, F)
            PROVE  Reading(items, lists, g, F)'
        BY <2>1, <4>1 DEF Reading, Frames, Expected, Top
      <4>2. QED
        BY <2>1, <2>2, <4>1 DEF Progress, Takes, Busy
    <3>3. NothingLeft(its)' /\ CutShort(its)'
      BY <2>1, <2>2 DEF Progress, NothingLeft, CutShort, CutString, Spent, Busy
    <3>4. QED
      BY <3>1, <3>2, <3>3 DEF Progress
  <2>3. QED
    BY <2>1, <2>2 DEF MsgInv
<1>4. QED
  BY <1>1, <1>2, <1>3 DEF Next, Decoder, DecoderStep, DecodeNothing, DecodeScalar, EnterObject,
     ReadKey, ReadObjectEnd, ReachDataEnd, StoreProperty, Handler, TakeValue, HandleCommand,
     HandleData, HandleReply, MessageDone

\* At first there is no message.
LEMMA InitMsgInv ==
    ASSUME NEW items, NEW lists, Init
    PROVE  MsgInv(items, lists)
BY DEF Init, MsgInv

-----------------------------------------------------------------------------
(* What a command makes the receiver do *)

\* Whether the values of a command are as many as its handler decodes.
Enough(a) ==
    /\ ~IsString(a[1]) => Len(a) = 1
    /\ IsString(a[1]) /\ ~IsNumber(a[2]) => Len(a) = 2
    /\ IsString(a[1]) /\ IsNumber(a[2]) => Len(a) = CommandArity(a[1][2])

\* A connect's names, where its command object is one.
NamesOf(obj) ==
    LET a == GetString(obj[2], app)
        u == GetString(obj[2], tcUrl)
    IN  [app |-> IF a = <<>> THEN AfterLastSlash(u) ELSE a, tcUrl |-> u]

CommandInv ==
    /\ IsSequence(args)
    /\ control = "idle" => args = <<>>
    /\ msg.kind = "command" /\ Busy /\ Len(args) >= 1 =>
         /\ IsString(args[1])
         /\ Len(args) = 1 \/ (IsNumber(args[2]) /\ Len(args) < CommandArity(args[1][2]))
    /\ msg.kind = "command" /\ control \in {"handle", "handled"} => Len(args) >= 1 /\ Enough(args)
    /\ msg.kind = "command" /\ control = "handled" =>
         /\ call = CallFor(args, names)
         /\ Len(args) = 3 /\ args[1] = String(connect) /\ IsObject(args[3]) => names = NamesOf(args[3])

\* A command's handler decodes two to five values.
LEMMA ArityIs ==
    ASSUME NEW s
    PROVE  CommandArity(s) \in 2 .. 5
BY DEF CommandArity

\* The handler takes values until it has those its command needs.
LEMMA TakeCommand ==
    ASSUME CommandInv, TakeValue
    PROVE  CommandInv'
<1>1. PICK n \in Nat : n = Len(args) /\ IsSequence(args)
  BY SequenceLen DEF CommandInv
<1>2. /\ IsSequence(args') /\ Len(args') = n + 1
      /\ \A i \in 1 .. n : args'[i] = args[i]
  <2>1. PICK S : S = {args[i] : i \in DOMAIN args} \cup {ret}
    OBVIOUS
  <2>2. args \in Seq(S) /\ ret \in S
    BY <1>1, <2>1 DEF IsSequence
  <2>3. QED
    BY <1>1, <2>2, AppendProperties, AppendSequence DEF TakeValue
<1>3. PICK a : a = args'
  OBVIOUS
<1>4. /\ control = "return" /\ msg' = msg
      /\ control' = (IF Wants(a) THEN "decode" ELSE "handle")
  BY <1>3 DEF TakeValue
<1>5. ASSUME msg.kind = "command"
      PROVE  /\ Wants(a) => /\ IsString(a[1])
                            /\ n + 1 = 1 \/ (IsNumber(a[2]) /\ n + 1 < CommandArity(a[1][2]))
             /\ ~Wants(a) => Enough(a)
  <2>1. Wants(a) <=> /\ IsString(a[1])
                     /\ n + 1 = 1 \/ (IsNumber(a[2]) /\ n + 1 < CommandArity(a[1][2]))
    BY <1>2, <1>3, <1>5 DEF Wants
  <2>2. PICK r \in 2 .. 5 : r = CommandArity(a[1][2])
    BY ArityIs
  <2>3. ASSUME ~Wants(a), n = 0
        PROVE  Enough(a)
    BY <1>2, <1>3, <2>1, <2>3 DEF Enough
  <2>4. ASSUME ~Wants(a), n >= 1
        PROVE  Enough(a)
    <3>1. /\ IsString(args[1])
          /\ n = 1 \/ (IsNumber(args[2]) /\ n < CommandArity(args[1][2]))
      BY <1>1, <1>4, <1>5, <2>4 DEF CommandInv, Busy
    <3>2. a[1] = args[1] /\ IsString(a[1])
      BY <1>2, <1>3, <2>4, <3>1
    <3>3. CASE n = 1
      BY <1>2, <1>3, <2>1, <2>2, <2>4, <3>2, <3>3 DEF Enough
    <3>4. CASE n > 1
      <4>1. a[2] = args[2] /\ IsNumber(a[2]) /\ n < r
        BY <1>2, <1>3, <2>2, <3>1, <3>2, <3>4
      <4>2. n + 1 = r
        BY <2>1, <2>2, <2>4, <3>2, <4>1
      <4>3. QED
        BY <1>2, <1>3, <2>2, <3>2, <4>1, <4>2 DEF Enough
    <3>5. QED
      BY <2>4, <3>3, <3>4
  <2>5. QED
    BY <2>1, <2>3, <2>4
<1>6. QED
  BY <1>2, <1>3, <1>4, <1>5 DEF CommandInv, Busy

\* Then it makes the call they lead to.
LEMMA CallCommand ==
    ASSUME CommandInv, HandleCommand
    PROVE  CommandInv'
<1>1. /\ control = "handle" /\ msg.kind = "command" /\ control' = "handled"
      /\ msg' = msg /\ args' = args /\ call' = CallFor(args, names')
      /\ names' = IF Len(args) = 3 /\ args[1] = String(connect) THEN Connect(args[3]) ELSE names
  BY DEF HandleCommand
<1>2. ASSUME IsObject(args[3])
      PROVE  Connect(args[3]) = NamesOf(args[3])
  <2>1. PICK obj : obj = args[3]
    OBVIOUS
  <2>2. PICK a : a = GetString(obj[2], app)
    OBVIOUS
  <2>3. PICK u : u = GetString(obj[2], tcUrl)
    OBVIOUS
  <2>4. PICK g : g = [app |-> a, tcUrl |-> u]
    OBVIOUS
  <2>5. Connect(obj) = IF g.app = <<>> THEN [g EXCEPT !.app = AfterLastSlash(g.tcUrl)] ELSE g
    BY <1>2, <2>1, <2>2, <2>3, <2>4 DEF Connect
  <2>6. g.app = a /\ g.tcUrl = u
    BY <2>4
  <2>7. [g EXCEPT !.app = AfterLastSlash(u)] = [app |-> AfterLastSlash(u), tcUrl |-> u]
    BY <2>4
  <2>8. NamesOf(obj) = [app |-> IF a = <<>> THEN AfterLastSlash(u) ELSE a, tcUrl |-> u]
    BY <2>2, <2>3 DEF NamesOf
  <2>9. CASE a = <<>>
    BY <2>1, <2>5, <2>6, <2>7, <2>8, <2>9
  <2>10. CASE a # <<>>
    BY <2>1, <2>4, <2>5, <2>6, <2>8, <2>10
  <2>11. QED
    BY <2>9, <2>10
<1>3. QED
  BY <1>1, <1>2 DEF CommandInv, Busy

\* No other step changes what was decoded or called.
LEMMA NextKeepsCommandInv ==
    ASSUME CommandInv, [Next]_vars
    PROVE  CommandInv'
<1>1. CASE control = "idle" /\ \E m \in Messages, tail \in Tails :
                \E kept \in 0 .. Len(Payload(m.items)) : Receive(m, kept, tail)
  <2>1. control' = "decode" /\ args' = <<>> /\ Len(args') = 0 /\ IsSequence(args')
    BY <1>1 DEF Receive, CommandInv, IsSequence
  <2>2. QED
    BY <2>1 DEF CommandInv
<1>2. CASE Decoder
  <2>1. /\ control \in {"decode", "object", "return"} /\ control' \in {"decode", "object", "return"}
        /\ args' = args /\ msg' = msg
    BY <1>2 DEF Decoder, DecoderStep, DecodeNothing, DecodeScalar, EnterObject, ReadKey,
       ReadObjectEnd, ReachDataEnd, StoreProperty, LeaveObject, Return
  <2>2. QED
    BY <2>1 DEF CommandInv, Busy
<1>3. CASE TakeValue
  BY <1>3, TakeCommand
<1>4. CASE HandleCommand
  BY <1>4, CallCommand
<1>5. CASE HandleData \/ HandleReply
  BY <1>5 DEF HandleData, HandleReply, CommandInv, Busy
<1>6. CASE MessageDone
  <2>1. control' = "idle" /\ args' = <<>> /\ IsSequence(args')
    BY <1>6 DEF MessageDone, IsSequence
  <2>2. QED
    BY <2>1 DEF CommandInv, Busy
<1>7. CASE UNCHANGED vars
  BY <1>7 DEF vars, decoderVars, CommandInv, Busy
<1>8. QED
  BY <1>1, <1>2, <1>3, <1>4, <1>5, <1>6, <1>7 DEF Next, Handler

\* At first nothing is decoded.
LEMMA InitCommandInv == Init => CommandInv
BY DEF Init, CommandInv, IsSequence, Busy

\* What is known of a message makes its values the ones written.
LEMMA DecodedInv ==
    ASSUME NEW items, NEW lists, MsgInv(items, lists)
    PROVE  DecodedAsWritten
<1>1. CASE control = "idle"
  <2>1. args = <<>> /\ Len(args) = 0 /\ msg.values = <<>> /\ DOMAIN msg.values = {}
    BY <1>1 DEF MsgInv, NoMessage
  <2>2. QED
    BY <1>1, <2>1 DEF DecodedAsWritten
<1>2. CASE control # "idle"
  <2>1. PICK its : Progress(items, lists, its)
    BY <1>2 DEF MsgInv
  <2>2. PICK L \in Nat : L = Len(its)
    BY <2>1, SequenceLen DEF Progress, Holds, AreItems
  <2>3. PICK w \in 0 .. L : w = msg.whole
    BY <2>1, <2>2 DEF Progress, Holds
  <2>4. /\ DOMAIN msg.values = 1 .. L /\ Len(msg.values) = L
        /\ \A i \in 1 .. L : msg.values[i] = its[i].value
    BY <2>1, <2>2 DEF Progress, Holds
  <2>5. PICK n \in Nat : n = Len(args) /\ DOMAIN args = 1 .. n
    BY <2>1, SequenceLen DEF Progress, Takes
  <2>6. \A i \in DOMAIN args \cap 1 .. w : args[i] = msg.values[i]
    BY <2>1, <2>3, <2>4, <2>5 DEF Progress, Takes
  <2>7. control = "handled" /\ msg.kind = "reply" /\ Sound => n = L
    BY <2>1, <2>2, <2>3, <2>4, <2>5 DEF Progress, NothingLeft, Sound, Busy
  <2>8. ASSUME msg.clean, w + 1 \in DOMAIN msg.values, IsString(msg.values[w + 1]),
               NEW j \in w + 1 .. n
        PROVE  IsString(args[j]) => args[j][2] = <<>>
    <3>1. w < L /\ msg.values[w + 1] = its[w + 1].value
      BY <2>3, <2>4, <2>8
    <3>2. CutString(its)
      BY <2>2, <2>3, <2>8, <3>1 DEF CutString
    <3>3. j \in 1 .. n /\ j > w /\ n >= w
      BY <2>3, <2>8
    <3>4. EmptyString(args[j])
      BY <2>1, <2>3, <2>5, <3>2, <3>3 DEF Progress, CutShort
    <3>5. QED
      BY <3>4 DEF EmptyString
  <2>9. QED
    BY <2>3, <2>4, <2>5, <2>6, <2>7, <2>8 DEF DecodedAsWritten
<1>3. QED
  BY <1>1, <1>2

\* With nothing missing, the values decoded are those written, then null.
LEMMA ArgsAreWritten ==
    ASSUME NEW items, NEW lists, MsgInv(items, lists), CommandInv, control = "handled", Sound
    PROVE  /\ Len(args) \in Nat
           /\ \A i \in 1 .. Len(args) : args[i] = Written(i)
           /\ \E its : /\ \A i \in 1 .. Len(msg.values) : msg.values[i] = its[i].value /\ its[i] \in items
                       /\ Len(msg.values) \in Nat
<1>1. PICK its : Progress(items, lists, its)
  BY DEF MsgInv
<1>2. PICK L \in Nat : L = Len(its)
  BY <1>1, SequenceLen DEF Progress, Holds, AreItems
<1>3. /\ DOMAIN msg.values = 1 .. L /\ Len(msg.values) = L
      /\ \A i \in 1 .. L : msg.values[i] = its[i].value
  BY <1>1, <1>2 DEF Progress, Holds
<1>4. msg.whole = L /\ msg.clean
  BY <1>3 DEF Sound
<1>5. PICK n \in Nat : n = Len(args)
  BY SequenceLen DEF CommandInv
<1>6. \A i \in 1 .. n : args[i] = Written(i)
  <2>1. ASSUME NEW i \in 1 .. n
        PROVE  args[i] = Written(i)
    <3>1. CASE i <= L
      BY <1>1, <1>3, <1>4, <1>5, <3>1 DEF Progress, Takes, Written
    <3>2. CASE i > L
      BY <1>1, <1>2, <1>3, <1>4, <1>5, <3>2 DEF Progress, NothingLeft, Written
    <3>3. QED
      BY <3>1, <3>2
  <2>2. QED
    BY <2>1
<1>7. \A i \in 1 .. L : its[i] \in items
  BY <1>1, <1>4 DEF Progress, Holds
<1>8. QED
  BY <1>3, <1>5, <1>6, <1>7

\* And its command the one understood.
LEMMA CommandsInv ==
    ASSUME NEW items, NEW lists, MsgInv(items, lists), CommandInv
    PROVE  CommandsUnderstood
<1>1. SUFFICES ASSUME control = "handled", msg.kind = "command", Sound
               PROVE  CommandsUnderstood
  BY DEF CommandsUnderstood
<1>2. PICK n \in Nat \ {0} : n = Len(args)
  BY <1>1, ArgsAreWritten DEF CommandInv
<1>3. \A i \in 1 .. n : args[i] = Written(i)
  BY <1>1, <1>2, ArgsAreWritten
<1>4. Enough(args) /\ call = CallFor(args, names)
  BY <1>1 DEF CommandInv
<1>5. args[1] = Written(1)
  BY <1>2, <1>3
<1>6. CASE ~IsString(Written(1))
  <2>1. n < 2
    <3>1. Len(args) = 1
      BY <1>4, <1>5, <1>6 DEF Enough
    <3>2. QED
      BY <1>2, <3>1
  <2>2. call = NoCall
    BY <1>2, <1>4, <2>1 DEF CallFor
  <2>3. QED
    BY <1>6, <2>2 DEF CommandsUnderstood
<1>7. CASE IsString(Written(1))
  <2>1. PICK r \in 2 .. 5 : r = CommandArity(args[1][2])
    BY ArityIs
  <2>2. n >= 2 /\ args[2] = Written(2)
    BY <1>2, <1>3, <1>4, <1>5, <1>7, <2>1 DEF Enough
  <2>3. CASE ~IsNumber(Written(2))
    <3>1. call = NoCall
      BY <1>4, <2>2, <2>3 DEF CallFor
    <3>2. QED
      BY <2>3, <3>1 DEF CommandsUnderstood
  <2>4. CASE IsNumber(Written(2))
    <3>1. n = r
      BY <1>2, <1>4, <1>5, <1>7, <2>1, <2>2, <2>4 DEF Enough
    <3>2. ~ (Len(args) < 2 \/ ~IsString(args[1]) \/ ~IsNumber(args[2]))
      BY <1>2, <1>5, <1>7, <2>2, <2>4
    <3>3. /\ connect # createStream /\ connect # publish /\ connect # play
          /\ createStream # publish /\ createStream # play /\ publish # play
      BY DEF connect, createStream, publish, play
    <3>4. \A s : String(s)[2] = s
      BY DEF String
    <3>5. CASE Written(1) = String(connect)
      <4>1. args[1][2] = connect
        BY <1>5, <3>4, <3>5
      <4>2. call = <<"handleConnect", args[2][2], <<names.app>>>>
        BY <1>4, <3>2, <3>3, <4>1 DEF CallFor
      <4>3. call[1] = "handleConnect" /\ call[2] = Written(2)[2]
        BY <2>2, <4>2
      <4>4. \A s : s # connect => Written(1) # String(s)
        BY <1>5, <3>4, <4>1
      <4>5. QED
        BY <1>7, <2>4, <3>3, <3>5, <4>3, <4>4 DEF CommandsUnderstood
    <3>6. CASE Written(1) = String(createStream)
      <4>1. args[1][2] = createStream
        BY <1>5, <3>4, <3>6
      <4>2. call = <<"handleCreateStream", Written(2)[2], <<>>>>
        BY <1>4, <2>2, <3>2, <3>3, <4>1 DEF CallFor
      <4>3. \A s : s # createStream => Written(1) # String(s)
        BY <1>5, <3>4, <4>1
      <4>4. QED
        BY <1>7, <2>4, <3>3, <3>6, <4>2, <4>3 DEF CommandsUnderstood
    <3>7. CASE Written(1) = String(publish) /\ IsString(Written(4))
      <4>1. args[1][2] = publish
        BY <1>5, <3>4, <3>7
      <4>2. n = 5
        BY <2>1, <3>1, <3>3, <4>1 DEF CommandArity
      <4>3. args[4] = Written(4) /\ args[5] = Written(5)
        BY <1>3, <4>2
      <4>4. call = <<"handlePublish", args[2][2],
                     <<StringOr(args[4], <<>>), StringOr(args[5], live)>>>>
        BY <1>4, <3>2, <3>3, <4>1 DEF CallFor
      <4>5. /\ call[1] = "handlePublish" /\ call[2] = Written(2)[2]
            /\ call[3][1] = Written(4)[2]
            /\ call[3][2] = IF IsString(Written(5)) THEN Written(5)[2] ELSE live
        BY <2>2, <3>7, <4>3, <4>4 DEF StringOr
      <4>6. \A s : s # publish => Written(1) # String(s)
        BY <1>5, <3>4, <4>1
      <4>7. QED
        BY <1>7, <2>4, <3>3, <3>7, <4>5, <4>6 DEF CommandsUnderstood
    <3>8. CASE Written(1) = String(play) /\ IsString(Written(4))
      <4>1. args[1][2] = play
        BY <1>5, <3>4, <3>8
      <4>2. n = 4
        BY <2>1, <3>1, <3>3, <4>1 DEF CommandArity
      <4>3. args[4] = Written(4)
        BY <1>3, <4>2
      <4>4. call = <<"handlePlay", args[2][2], <<StringOr(args[4], <<>>)>>>>
        BY <1>4, <3>2, <3>3, <4>1 DEF CallFor
      <4>5. call = <<"handlePlay", Written(2)[2], <<Written(4)[2]>>>>
        BY <2>2, <3>8, <4>3, <4>4 DEF StringOr
      <4>6. \A s : s # play => Written(1) # String(s)
        BY <1>5, <3>4, <4>1
      <4>7. QED
        BY <1>7, <2>4, <3>3, <3>8, <4>5, <4>6 DEF CommandsUnderstood
    <3>9. QED
      BY <1>7, <2>4, <3>5, <3>6, <3>7, <3>8 DEF CommandsUnderstood
  <2>5. QED
    BY <2>3, <2>4
<1>8. QED
  BY <1>6, <1>7

-----------------------------------------------------------------------------
(* The names that a connect gives *)

\* Where no key comes twice, the first property of a name is the only one.
LEMMA KeyFound ==
    ASSUME NEW obj, IsSequence(obj[2]), NoKeyTwice(obj), NEW key
    PROVE  GetString(obj[2], key) = Under(obj, key)
<1>1. PICK vs : vs = obj[2] /\ IsSequence(vs)
  OBVIOUS
<1>2. PICK L \in Nat : L = Len(vs) /\ DOMAIN vs = 1 .. L
  BY <1>1, SequenceLen
<1>3. \A i, j \in 1 .. L : vs[i][1] = vs[j][1] => i = j
  BY <1>1, <1>2 DEF NoKeyTwice
<1> DEFINE I == {i \in 1 .. L : vs[i][1] = key}
           F == {p \in Range(vs) : p[1] = key /\ IsString(p[2])}
<1>4. GetString(vs, key) = LET i == IF I # {} THEN Min(I) ELSE 0
                           IN  IF i # 0 /\ IsString(vs[i][2]) THEN vs[i][2][2] ELSE <<>>
  BY <1>2 DEF GetString, SelectInSeq
<1>5. Under(obj, key) = IF F = {} THEN <<>> ELSE (CHOOSE p \in F : TRUE)[2][2]
  BY <1>1 DEF Under
<1>6. CASE I = {}
  <2>1. F = {}
    BY <1>2, <1>6 DEF Range
  <2>2. GetString(vs, key) = <<>>
    <3> HIDE DEF I
    <3>1. QED
      BY <1>4, <1>6
  <2>3. QED
    BY <1>1, <1>5, <2>1, <2>2
<1>7. CASE I # {}
  <2>1. PICK k \in I : TRUE
    BY <1>7
  <2>2. k \in 1 .. L /\ vs[k][1] = key
    OBVIOUS
  <2>3. I = {k}
    BY <1>3, <2>2
  <2>4. Min(I) = k
    BY <2>2, <2>3 DEF Min
  <2>5. GetString(vs, key) = IF IsString(vs[k][2]) THEN vs[k][2][2] ELSE <<>>
    <3>1. k # 0
      BY <2>2
    <3> HIDE DEF I
    <3>2. QED
      BY <1>4, <1>7, <2>4, <3>1
  <2>6. F = IF IsString(vs[k][2]) THEN {vs[k]} ELSE {}
    BY <1>2, <1>3, <2>2 DEF Range
  <2>7. QED
    <3> HIDE DEF F
    <3>1. QED
      BY <1>1, <1>5, <2>5, <2>6
<1>8. QED
  BY <1>6, <1>7

\* A set of numbers up to n that has any has a greatest one.
LEMMA Greatest ==
    ASSUME NEW n \in Nat, NEW I, I \subseteq 1 .. n, I # {}
    PROVE  Max(I) \in I /\ \A y \in I : Max(I) >= y
<1> DEFINE D == {n - i : i \in I}
<1>1. D \subseteq Nat /\ D # {}
  <2>1. \A i \in I : n - i \in Nat
    OBVIOUS
  <2>2. D \subseteq Nat
    BY <2>1
  <2>3. PICK i \in I : TRUE
    OBVIOUS
  <2>4. n - i \in D
    OBVIOUS
  <2>5. QED
    BY <2>2, <2>4
<1>2. PICK d \in D : \A y \in D : d <= y
  <2> HIDE DEF D
  <2>1. QED
    BY <1>1, Least
<1>3. PICK m \in I : d = n - m
  OBVIOUS
<1>4. ASSUME NEW y \in I
      PROVE  m >= y
  <2>1. n - y \in D /\ y \in 1 .. n /\ m \in 1 .. n
    OBVIOUS
  <2>2. d <= n - y
    BY <1>2, <2>1
  <2>3. QED
    BY <1>3, <2>1, <2>2
<1>5. \E x \in I : \A y \in I : x >= y
  BY <1>4
<1>6. QED
  BY <1>5 DEF Max

\* AfterLastSlash returns the end of the string behind its last slash.
LEMMA LastSlash ==
    ASSUME NEW u \in Seq(Nat)
    PROVE  IF Slash \in Range(u)
           THEN Slash \notin Range(AfterLastSlash(u)) /\ IsSuffix(<<Slash>> \o AfterLastSlash(u), u)
           ELSE AfterLastSlash(u) = <<>>
<1>1. PICK n \in Nat : n = Len(u) /\ DOMAIN u = 1 .. n
  OBVIOUS
<1> DEFINE I == {i \in 1 .. n : u[i] = Slash}
<1>2. AfterLastSlash(u) = LET i == IF I # {} THEN Max(I) ELSE 0
                          IN  IF i = 0 THEN <<>> ELSE SubSeq(u, i + 1, n)
  BY <1>1 DEF AfterLastSlash, SelectLastInSeq
<1>3. Slash \in Range(u) <=> I # {}
  BY <1>1 DEF Range
<1>4. CASE I = {}
  <2> HIDE DEF I
  <2>1. QED
    BY <1>2, <1>3, <1>4
<1>5. CASE I # {}
  <2>1. PICK m : m = Max(I)
    OBVIOUS
  <2>2. m \in I /\ \A y \in I : m >= y
    BY <1>5, <2>1, Greatest
  <2>3. m \in 1 .. n /\ u[m] = Slash /\ m # 0
    BY <2>2
  <2>4. PICK t : t = SubSeq(u, m + 1, n)
    OBVIOUS
  <2>5. AfterLastSlash(u) = t
    <3> HIDE DEF I
    <3>1. QED
      BY <1>2, <1>5, <2>1, <2>3, <2>4
  <2>6. PICK r \in Nat : r = n - m
    BY <2>3
  <2>7. /\ t \in Seq(Nat) /\ Len(t) = r
        /\ \A i \in 1 .. r : t[i] = u[m + i]
    <3>1. PICK q \in Int : q = m + 1
      BY <2>3
    <3>2. \A i \in q .. n : u[i] \in Nat
      BY <1>1, <2>3, <3>1
    <3>3. /\ t \in Seq(Nat)
          /\ Len(t) = IF q <= n THEN n - q + 1 ELSE 0
          /\ \A i \in 1 .. n - q + 1 : t[i] = u[q + i - 1]
      BY <2>4, <3>1, <3>2, SubSeqProperties
    <3>4. n - q + 1 = r /\ \A i \in 1 .. r : q + i - 1 = m + i
      BY <2>3, <2>6, <3>1
    <3>5. Len(t) = r
      BY <2>3, <2>6, <3>1, <3>3
    <3>6. QED
      BY <3>3, <3>4, <3>5
  <2>8. Slash \notin Range(t)
    <3>1. ASSUME NEW i \in 1 .. r
          PROVE  t[i] # Slash
      <4>1. m + i \in 1 .. n /\ ~ (m >= m + i)
        BY <2>3, <2>6
      <4>2. m + i \notin I
        BY <2>2, <4>1
      <4>3. QED
        BY <2>7, <4>1, <4>2
    <3>2. DOMAIN t = 1 .. r
      BY <2>7
    <3>3. QED
      BY <3>1, <3>2 DEF Range
  <2>9. PICK h : h = <<Slash>>
    OBVIOUS
  <2>10. PICK s : s = h \o t
    OBVIOUS
  <2>11. /\ Len(s) = r + 1 /\ s \in Seq(Nat)
         /\ \A k \in 1 .. r + 1 : s[k] = u[m + k - 1]
    <3>1. h \in Seq(Nat) /\ Len(h) = 1 /\ h[1] = Slash
      BY <2>9 DEF Slash
    <3>2. /\ s \in Seq(Nat) /\ Len(s) = 1 + r
          /\ s[1] = h[1]
          /\ \A k \in 1 .. r : s[1 + k] = t[k]
      <4>1. /\ s \in Seq(Nat) /\ Len(s) = Len(h) + Len(t)
            /\ \A k \in 1 .. Len(h) + Len(t) : s[k] = IF k <= Len(h) THEN h[k] ELSE t[k - Len(h)]
        BY <2>7, <2>10, <3>1, ConcatProperties
      <4>2. Len(h) = 1 /\ Len(t) = r
        BY <2>7, <3>1
      <4>3. /\ s \in Seq(Nat) /\ Len(s) = 1 + r
            /\ \A k \in 1 .. 1 + r : s[k] = IF k <= 1 THEN h[k] ELSE t[k - 1]
        BY <4>1, <4>2
      <4>4. \A k \in 1 .. 1 : k \in 1 .. 1 + r /\ k <= 1
        OBVIOUS
      <4>5. \A k \in 1 .. r : 1 + k \in 1 .. 1 + r /\ ~ (1 + k <= 1) /\ 1 + k - 1 = k
        OBVIOUS
      <4>6. ASSUME NEW k \in 1 .. r
            PROVE  s[1 + k] = t[k]
        <5>1. PICK j \in 1 .. 1 + r : j = 1 + k /\ ~ (j <= 1) /\ j - 1 = k
          BY <4>5
        <5>2. QED
          BY <4>3, <5>1
      <4>7. s[1] = h[1]
        BY <4>3, <4>4
      <4>8. QED
        BY <4>3, <4>6, <4>7
    <3>3. ASSUME NEW k \in 1 .. r + 1
          PROVE  s[k] = u[m + k - 1]
      <4>1. CASE k = 1
        <5>1. m + k - 1 = m /\ 1 \in 1 .. 1
          BY <2>3, <4>1
        <5>2. QED
          BY <2>3, <3>1, <3>2, <4>1, <5>1
      <4>2. CASE k # 1
        <5>1. PICK j \in 1 .. r : k = 1 + j
          BY <4>2
        <5>2. m + k - 1 = m + j
          BY <2>3, <5>1
        <5>3. QED
          BY <2>7, <3>2, <5>1, <5>2
      <4>3. QED
        BY <4>1, <4>2
    <3>4. QED
      BY <3>2, <3>3
  <2>12. IsSuffix(s, u)
    <3>1. PICK a : a = Reverse(s)
      OBVIOUS
    <3>2. PICK b : b = Reverse(u)
      OBVIOUS
    <3>3. PICK l \in Nat : l = r + 1 /\ l <= n
      BY <2>3, <2>6
    <3>4. /\ a = [i \in 1 .. l |-> s[l - i + 1]]
          /\ b = [i \in 1 .. n |-> u[n - i + 1]]
      BY <1>1, <2>11, <3>1, <3>2, <3>3 DEF Reverse
    <3>5. Len(a) = l /\ Len(b) = n
      BY <3>3, <3>4
    <3>6. \A i \in 1 .. l : a[i] = b[i]
      <4>1. ASSUME NEW i \in 1 .. l
            PROVE  a[i] = b[i]
        <5>1. PICK k \in 1 .. r + 1 : k = l - i + 1
          BY <3>3
        <5>2. m + k - 1 = n - i + 1 /\ i \in 1 .. n
          BY <2>3, <2>6, <3>3, <5>1
        <5>3. a[i] = s[k] /\ b[i] = u[n - i + 1]
          BY <3>4, <5>1, <5>2
        <5>4. QED
          BY <2>11, <5>2, <5>3
      <4>2. QED
        BY <4>1
    <3>7. SubSeq(a, 1, l) = SubSeq(b, 1, l)
      <4>1. PICK x : x = SubSeq(a, 1, l)
        OBVIOUS
      <4>2. PICK y : y = SubSeq(b, 1, l)
        OBVIOUS
      <4>3. PICK S : S = {a[i] : i \in 1 .. l} \cup {b[i] : i \in 1 .. l}
        OBVIOUS
      <4>4. \A i \in 1 .. l : a[i] \in S /\ b[i] \in S /\ 1 + i - 1 = i
        BY <4>3
      <4>5. l - 1 + 1 = l /\ (1 <= l) /\ 1 \in Int /\ l \in Int
        BY <3>3
      <4>6. x \in Seq(S) /\ Len(x) = l /\ \A i \in 1 .. l : x[i] = a[i]
        BY <4>1, <4>4, <4>5, SubSeqProperties
      <4>7. y \in Seq(S) /\ Len(y) = l /\ \A i \in 1 .. l : y[i] = b[i]
        BY <4>2, <4>4, <4>5, SubSeqProperties
      <4>8. x = y
        BY <3>6, <4>6, <4>7, SeqEqual
      <4>9. QED
        BY <4>1, <4>2, <4>8
    <3>8. QED
      BY <3>1, <3>2, <3>3, <3>5, <3>7 DEF IsSuffix, IsPrefix
  <2>13. QED
    BY <1>3, <1>5, <2>5, <2>8, <2>9, <2>10, <2>12
<1>6. QED
  BY <1>4, <1>5

\* The properties of an object among the items, and their strings.
LEMMA PropertiesOf ==
    ASSUME NEW items, NEW lists, EncodedBy(items, lists), NEW e \in items, IsObject(e.value)
    PROVE  /\ IsSequence(e.value[2])
           /\ \A i \in DOMAIN e.value[2] :
                IsString(e.value[2][i][2]) => e.value[2][i][2][2] \in Seq(Nat)
<1>1. PICK ps \in lists : IsObjectItem(e, ps)
  <2>1. CASE IsScalarItem(e)
    BY <2>1 DEF IsScalarItem, NumberItem, BooleanItem, StringItem, NullItem, Item, IsObject,
       IsString, IsNumber, Null
  <2>2. QED
    BY <2>1, Encoded
<1>2. e.value = PropertyValues(ps)
  BY <1>1 DEF IsObjectItem, ObjectItem, Item
<1>3. IsList(items, ps)
  BY Encoded
<1>4. PICK L \in Nat : L = Len(ps) /\ DOMAIN ps = 1 .. L
  BY <1>3, SequenceLen DEF IsList
<1>5. PICK vs : vs = [i \in 1 .. L |-> ps[i].value]
  OBVIOUS
<1>6. e.value[2] = vs
  BY <1>2, <1>4, <1>5 DEF PropertyValues, Object
<1>7. IsSequence(vs) /\ DOMAIN vs = 1 .. L
  BY <1>4, <1>5 DEF IsSequence
<1>8. ASSUME NEW i \in 1 .. L, IsString(vs[i][2])
      PROVE  vs[i][2][2] \in Seq(Nat)
  <2>1. PICK key : key = ps[i].value[1]
    OBVIOUS
  <2>2. IsShort(key)
    BY <1>3, <1>4, <2>1 DEF IsList
  <2>3. PICK g \in items : ps[i] = Named(key, g)
    BY <1>3, <1>4, <2>1 DEF IsList
  <2>4. vs[i] = <<key, g.value>>
    BY <1>5, <2>3 DEF Named, Item
  <2>5. IsString(g.value) /\ vs[i][2][2] = g.value[2]
    BY <1>8, <2>4
  <2>6. QED
    BY <2>5, StringIsShort DEF IsShort
<1>9. QED
  BY <1>6, <1>7, <1>8

\* What is found under a key is a string of bytes.
LEMMA UnderIsBytes ==
    ASSUME NEW obj, NEW key,
           \A i \in DOMAIN obj[2] : IsString(obj[2][i][2]) => obj[2][i][2][2] \in Seq(Nat)
    PROVE  Under(obj, key) \in Seq(Nat)
<1> DEFINE F == {p \in Range(obj[2]) : p[1] = key /\ IsString(p[2])}
<1>1. \A p \in F : p[2][2] \in Seq(Nat)
  BY DEF Range
<1>2. Under(obj, key) = IF F = {} THEN <<>> ELSE (CHOOSE p \in F : TRUE)[2][2]
  BY DEF Under
<1>3. QED
  <2> HIDE DEF F
  <2>1. CASE F = {}
    BY <1>2, <2>1
  <2>2. CASE F # {}
    <3>1. PICK p \in F : p = CHOOSE q \in F : TRUE
      BY <2>2
    <3>2. QED
      BY <1>1, <1>2, <2>2, <3>1
  <2>3. QED
    BY <2>1, <2>2

\* The app is what the connect's command object says.
LEMMA AppInv ==
    ASSUME NEW items, NEW lists, EncodedBy(items, lists), MsgInv(items, lists), CommandInv
    PROVE  AppIsWhatConnectNames
<1>1. SUFFICES ASSUME control = "handled", msg.kind = "command", Sound,
                      Written(1) = String(connect), IsNumber(Written(2)),
                      IsObject(Written(3)), NoKeyTwice(Written(3))
               PROVE  AppIsWhatConnectNames
  BY DEF AppIsWhatConnectNames
<1>2. PICK n \in Nat \ {0} : n = Len(args)
  BY <1>1, ArgsAreWritten DEF CommandInv
<1>3. \A i \in 1 .. n : args[i] = Written(i)
  BY <1>1, <1>2, ArgsAreWritten
<1>4. Enough(args)
  BY <1>1 DEF CommandInv
<1>5. args[1] = String(connect) /\ args[1][2] = connect /\ IsString(args[1])
  BY <1>1, <1>2, <1>3 DEF String, IsString
<1>6. PICK r \in 2 .. 5 : r = CommandArity(args[1][2])
  BY ArityIs
<1>7. n >= 2 /\ args[2] = Written(2)
  BY <1>2, <1>3, <1>4, <1>5, <1>6 DEF Enough
<1>8. n = 3
  <2>1. r = 3
    BY <1>5, <1>6 DEF CommandArity, connect, publish, play
  <2>2. QED
    BY <1>1, <1>2, <1>4, <1>5, <1>6, <1>7, <2>1 DEF Enough
<1>9. PICK obj : obj = Written(3)
  OBVIOUS
<1>10. args[3] = obj /\ IsObject(obj)
  BY <1>1, <1>3, <1>8, <1>9
<1>11. names = NamesOf(obj)
  BY <1>1, <1>2, <1>5, <1>8, <1>10 DEF CommandInv
<1>12. PICK e \in items : obj = e.value
  <2>1. PICK its : /\ \A i \in 1 .. Len(msg.values) : msg.values[i] = its[i].value /\ its[i] \in items
                   /\ Len(msg.values) \in Nat
    BY <1>1, ArgsAreWritten
  <2>2. PICK L \in Nat : L = Len(msg.values)
    BY <2>1
  <2>3. 3 <= L
    BY <1>9, <1>10, <2>2 DEF Written, IsObject, Null
  <2>4. obj = its[3].value /\ its[3] \in items
    BY <1>9, <2>1, <2>2, <2>3 DEF Written
  <2>5. QED
    BY <2>4
<1>13. /\ IsSequence(obj[2])
       /\ \A i \in DOMAIN obj[2] : IsString(obj[2][i][2]) => obj[2][i][2][2] \in Seq(Nat)
  BY <1>10, <1>12, PropertiesOf
<1>14. PICK a : a = Under(obj, app) /\ a = GetString(obj[2], app)
  BY <1>1, <1>9, <1>13, KeyFound
<1>15. PICK u \in Seq(Nat) : u = Under(obj, tcUrl) /\ u = GetString(obj[2], tcUrl)
  BY <1>1, <1>9, <1>13, KeyFound, UnderIsBytes
<1>16. names.app = IF a = <<>> THEN AfterLastSlash(u) ELSE a
  BY <1>11, <1>14, <1>15 DEF NamesOf
<1>17. IF Slash \in Range(u)
       THEN Slash \notin Range(AfterLastSlash(u)) /\ IsSuffix(<<Slash>> \o AfterLastSlash(u), u)
       ELSE AfterLastSlash(u) = <<>>
  BY LastSlash
<1>18. AppIsWhatConnectNames <=>
         CASE a # <<>> -> names.app = a
           [] a = <<>> /\ Slash \in Range(u) ->
                Slash \notin Range(names.app) /\ IsSuffix(<<Slash>> \o names.app, u)
           [] OTHER -> names.app = <<>>
  BY <1>1, <1>9, <1>14, <1>15 DEF AppIsWhatConnectNames
<1>19. CASE a # <<>>
  BY <1>16, <1>18, <1>19
<1>20. CASE a = <<>> /\ Slash \in Range(u)
  BY <1>16, <1>17, <1>18, <1>20
<1>21. CASE a = <<>> /\ Slash \notin Range(u)
  BY <1>16, <1>17, <1>18, <1>21
<1>22. QED
  BY <1>19, <1>20, <1>21

-----------------------------------------------------------------------------
(* The theorems *)

\* On every payload, whole or cut or meaningless, m_pos stays inside the data, and
\* every value that Decode returns has a type of the variant.
THEOREM TypeCorrect == Spec => []TypeOK
<1>1. IInv => TypeOK
  BY DEF IInv
<1>2. QED
  BY <1>1, Invariance, PTL

\* Decode's recursion is never deeper than the bytes it has read, on any payload; it
\* is not bounded otherwise.
THEOREM DepthIsBounded == Spec => []NestingBounded
<1>1. IInv => NestingBounded
  BY DEF IInv
<1>2. QED
  BY <1>1, Invariance, PTL

\* Every step of the decoder lowers the lexicographic measure of the bytes left,
\* the objects open and the place in the round: decoding ends on every payload.
THEOREM DecodingEnds == Spec => DecoderLowers
<1>1. IInv /\ [Next]_vars => [Decoder => Lowers]_vars
  BY DecoderKeepsIInv
<1>2. QED
  BY <1>1, Invariance, PTL DEF Spec, DecoderLowers

\* All of it, of every state.
LEMMA MessagesInv ==
    ASSUME NEW items, NEW lists, EncodedBy(items, lists), WritesOnly(items)
    PROVE  Spec => [](MsgInv(items, lists) /\ CommandInv)
<1>1. Init => MsgInv(items, lists) /\ CommandInv
  BY InitMsgInv, InitCommandInv
<1>2. IInv /\ (MsgInv(items, lists) /\ CommandInv) /\ [Next]_vars
        => (MsgInv(items, lists) /\ CommandInv)'
  BY NextKeepsMsgInv, NextKeepsCommandInv
<1>3. QED
  BY <1>1, <1>2, Invariance, PTL DEF Spec

\* Encoder and decoder agree, for every message of any number of values whose objects
\* nest to any depth, cut at any byte and with any bytes behind it: what arrived whole
\* is decoded as what was written, a reply's reader gets all of it, and a string that
\* is cut short is no name.
THEOREM Decoded ==
    ASSUME NEW items, NEW lists, EncodedBy(items, lists), WritesOnly(items)
    PROVE  Spec => []DecodedAsWritten
<1>1. MsgInv(items, lists) /\ CommandInv => DecodedAsWritten
  BY DecodedInv
<1>2. QED
  BY <1>1, MessagesInv, PTL

\* A command that arrives as it was written makes its handler be called with the
\* transaction id and the strings written at their places, and nothing else is called.
THEOREM Understood ==
    ASSUME NEW items, NEW lists, EncodedBy(items, lists), WritesOnly(items)
    PROVE  Spec => []CommandsUnderstood
<1>1. MsgInv(items, lists) /\ CommandInv => CommandsUnderstood
  BY CommandsInv
<1>2. QED
  BY <1>1, MessagesInv, PTL

\* The app of a connect is the one its command object names, or the end of its tcUrl
\* behind the last slash, or nothing: never that of an earlier connect.
THEOREM AppNamed ==
    ASSUME NEW items, NEW lists, EncodedBy(items, lists), WritesOnly(items)
    PROVE  Spec => []AppIsWhatConnectNames
<1>1. MsgInv(items, lists) /\ CommandInv => AppIsWhatConnectNames
  BY AppInv
<1>2. QED
  BY <1>1, MessagesInv, PTL

===============================================================================
