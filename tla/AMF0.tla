--------------------------------- MODULE AMF0 ---------------------------------
(***************************************************************************)
(* The AMF0 encoder and decoder.  The encoder's functions are operators on *)
(* the bytes they append.  The decoder is a state machine: AMF0Decoder     *)
(* recurses from Decode into DecodeObject and back, and the recursion is   *)
(* the stack of the objects that are being read.  Whoever decodes a value  *)
(* sets control to "decode" with an empty stack and takes `ret' when       *)
(* control is "return" with an empty stack again.                          *)
(*                                                                         *)
(* Bytes are numbers and a string is the sequence of its bytes.  A double  *)
(* is its bytes in memory order, NumberLen of them.                        *)
(***************************************************************************)
EXTENDS Naturals, Sequences, SequencesExt

CONSTANTS NumberLen     \* sizeof(double): 8 in the code

ASSUME AMF0Assumption == NumberLen \in Nat \ {0}

-----------------------------------------------------------------------------
(* Values: a type and what the variant holds.  An object is the sequence of
   its <<key, value>> pairs.                                                *)

Number(b)  == <<"number", b>>
Boolean(b) == <<"boolean", b>>
String(s)  == <<"string", s>>
Object(ps) == <<"object", ps>>
Null       == <<"null", <<>>>>

IsString(v) == v[1] = "string"
IsNumber(v) == v[1] = "number"
IsObject(v) == v[1] = "object"

\* AMF0Object::GetString with its default default, "": the first property of
\* that name counts, and only if it is a string.
GetString(ps, key) ==
    LET i == SelectInSeq(ps, LAMBDA p : p[1] = key)
    IN  IF i # 0 /\ IsString(ps[i][2]) THEN ps[i][2][2] ELSE <<>>

\* AMF0Type, and the marker that ends a decode.
NumberMarker    == 0
BooleanMarker   == 1
StringMarker    == 2
ObjectMarker    == 3
NullMarker      == 5
ECMAArrayMarker == 8
ObjectEndMarker == 9
SkipAllMarker   == 63

-----------------------------------------------------------------------------
(* AMF0Encoder *)

WriteUint16BE(n) == <<(n \div 256) % 256, n % 256>>

WriteUint32BE(n) == WriteUint16BE(n \div 65536) \o WriteUint16BE(n)

\* The length is cut to 16 bits, the string is not.
WriteStringData(s) == WriteUint16BE(Len(s)) \o s

EncodeNumber(b) == <<NumberMarker>> \o Reverse(b)

EncodeBoolean(b) == <<BooleanMarker, IF b THEN 1 ELSE 0>>

EncodeString(s) == <<StringMarker>> \o WriteStringData(s)

EncodeNull == <<NullMarker>>

EncodeObjectStart == <<ObjectMarker>>

EncodeObjectEnd == WriteUint16BE(0) \o <<ObjectEndMarker>>

\* EncodeNamedString, EncodeNamedNumber and EncodeNamedBoolean: the key has no
\* marker, the encoded value follows.
EncodeNamed(key, value) == WriteStringData(key) \o value

EncodeECMAArrayStart(count) == <<ECMAArrayMarker>> \o WriteUint32BE(count)

-----------------------------------------------------------------------------
(* AMF0Decoder *)

VARIABLES
    data,     \* m_data
    pos,      \* m_pos
    control,  \* "idle", "decode": Decode is called, "object": at the head of
              \* DecodeObject's loop, "return": a value has been decoded
    stack,    \* the objects being read, innermost last
    ret       \* the value Decode returned

decoderVars == <<data, pos, control, stack, ret>>

HasMore == pos < Len(data)

ByteAt(p) == data[p + 1]

\* The read functions: the value read at p and where m_pos is afterwards.
Read(v, p) == [val |-> v, pos |-> p]

ReadUint8(p) == IF p >= Len(data) THEN Read(0, p) ELSE Read(ByteAt(p), p + 1)

\* Too few bytes: zero, and the bytes that are there are not consumed.
ReadUint16BE(p) ==
    IF p + 2 > Len(data) THEN Read(0, p)
    ELSE Read(256 * ByteAt(p) + ByteAt(p + 1), p + 2)

\* Mutant: the count is skipped without looking whether it is all there.
SkipUint32BE_NoCheck(p) == p + 4

\* readUint32BE, whose value its only caller ignores.
SkipUint32BE(p) == IF p + 4 > Len(data) THEN p ELSE p + 4

ReadDouble(p) ==
    IF p + NumberLen > Len(data) THEN Read([i \in 1 .. NumberLen |-> 0], p)
    ELSE Read(Reverse(SubSeq(data, p + 1, p + NumberLen)), p + NumberLen)

\* Mutant: a string that is cut short is returned as far as it goes.
ReadStringData_Partial(p, len) ==
    IF p + len > Len(data) THEN Read(SubSeq(data, p + 1, Len(data)), Len(data))
    ELSE Read(SubSeq(data, p + 1, p + len), p + len)

ReadStringData(p, len) ==
    IF p + len > Len(data) THEN Read(<<>>, Len(data))
    ELSE Read(SubSeq(data, p + 1, p + len), p + len)

\* readObjectKey; DecodeString reads the same.
ReadObjectKey(p) == LET n == ReadUint16BE(p) IN ReadStringData(n.pos, n.val)

DecodeNumber(p)  == LET r == ReadDouble(p) IN Read(Number(r.val), r.pos)
DecodeBoolean(p) == LET r == ReadUint8(p) IN Read(Boolean(r.val # 0), r.pos)
DecodeString(p)  == LET r == ReadObjectKey(p) IN Read(String(r.val), r.pos)

\* Decode of the types that hold no other value, p being past the marker.  Null,
\* Undefined and markers the decoder does not know are all null.
DecodeScalarAt(marker, p) ==
    CASE marker = NumberMarker  -> DecodeNumber(p)
      [] marker = BooleanMarker -> DecodeBoolean(p)
      [] marker = StringMarker  -> DecodeString(p)
      [] marker = SkipAllMarker -> Read(Null, Len(data))
      [] OTHER                  -> Read(Null, p)

Return(v) == ret' = v /\ control' = "return"

\* Decode with nothing left to read.
DecodeNothing ==
    /\ control = "decode" /\ ~HasMore
    /\ Return(Null)
    /\ UNCHANGED <<data, pos, stack>>

\* Mutant: a marker that is not known is left in the data.
DecodeScalar_KeepsUnknown ==
    /\ control = "decode" /\ HasMore
    /\ ByteAt(pos) \notin {ObjectMarker, ECMAArrayMarker}
    /\ LET r == DecodeScalarAt(ByteAt(pos), pos + 1) IN
        /\ pos' = IF ByteAt(pos) > ObjectEndMarker /\ ByteAt(pos) # SkipAllMarker
                  THEN pos ELSE r.pos
        /\ Return(r.val)
    /\ UNCHANGED <<data, stack>>

DecodeScalar ==
    /\ control = "decode" /\ HasMore
    /\ ByteAt(pos) \notin {ObjectMarker, ECMAArrayMarker}
    /\ LET r == DecodeScalarAt(ByteAt(pos), pos + 1) IN
        /\ pos' = r.pos
        /\ Return(r.val)
    /\ UNCHANGED <<data, stack>>

\* Mutant: the marker of an object is looked at and not consumed.
EnterObject_KeepsMarker ==
    /\ control = "decode" /\ HasMore
    /\ ByteAt(pos) \in {ObjectMarker, ECMAArrayMarker}
    /\ pos' = IF ByteAt(pos) = ECMAArrayMarker THEN SkipUint32BE(pos) ELSE pos
    /\ stack' = Append(stack, [key |-> <<>>, properties |-> <<>>])
    /\ control' = "object"
    /\ UNCHANGED <<data, ret>>

\* Decode calls DecodeObject, or DecodeECAArray, which skips the count first.
EnterObject ==
    /\ control = "decode" /\ HasMore
    /\ ByteAt(pos) \in {ObjectMarker, ECMAArrayMarker}
    /\ pos' = IF ByteAt(pos) = ECMAArrayMarker THEN SkipUint32BE(pos + 1) ELSE pos + 1
    /\ stack' = Append(stack, [key |-> <<>>, properties |-> <<>>])
    /\ control' = "object"
    /\ UNCHANGED <<data, ret>>

Top == Len(stack)

\* DecodeObject returns the object it has collected.
LeaveObject ==
    /\ Return(Object(stack[Top].properties))
    /\ stack' = SubSeq(stack, 1, Top - 1)

\* A key read at pos that the end marker follows closes the object.
EndAfter(k) == k.val = <<>> /\ k.pos < Len(data) /\ ByteAt(k.pos) = ObjectEndMarker

\* One round of DecodeObject's loop up to its call of Decode.
ReadKey ==
    /\ control = "object" /\ HasMore
    /\ LET k == ReadObjectKey(pos) IN
        /\ ~EndAfter(k)
        /\ pos' = k.pos
        /\ stack' = [stack EXCEPT ![Top].key = k.val]
    /\ control' = "decode"
    /\ UNCHANGED <<data, ret>>

\* The loop ends at the end marker,
ReadObjectEnd ==
    /\ control = "object" /\ HasMore
    /\ LET k == ReadObjectKey(pos) IN EndAfter(k) /\ pos' = k.pos + 1
    /\ LeaveObject
    /\ UNCHANGED data

\* or with the data.
ReachDataEnd ==
    /\ control = "object" /\ ~HasMore
    /\ LeaveObject
    /\ UNCHANGED <<data, pos>>

\* The rest of the round: the property is stored.
StoreProperty ==
    /\ control = "return" /\ stack # <<>>
    /\ stack' = [stack EXCEPT ![Top].properties = Append(@, <<stack[Top].key, ret>>)]
    /\ control' = "object"
    /\ UNCHANGED <<data, pos, ret>>

DecoderStep ==
    \/ DecodeNothing \/ DecodeScalar \/ EnterObject
    \/ ReadKey \/ ReadObjectEnd \/ ReachDataEnd \/ StoreProperty

-----------------------------------------------------------------------------
(* What bounds the decoder's work *)

\* Where control is within a round of the loop.  With data left the round runs
\* return, object, decode, and the decode consumes a byte; at the end of the data
\* it runs decode, return, object, and the object is left.
Rank ==
    IF HasMore THEN CASE control = "return" -> 3 [] control = "object" -> 2 [] OTHER -> 1
               ELSE CASE control = "decode" -> 3 [] control = "return" -> 2 [] OTHER -> 1

\* A step leaves fewer bytes, or fewer open objects, or is later in the round.
Lowers ==
    \/ pos' > pos
    \/ pos' = pos /\ Len(stack') < Len(stack)
    \/ pos' = pos /\ Len(stack') = Len(stack) /\ Rank' < Rank
===============================================================================
