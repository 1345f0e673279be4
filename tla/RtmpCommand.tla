----------------------------- MODULE RtmpCommand -----------------------------
(***************************************************************************)
(* The AMF0 messages of a session, from bytes to what they make the        *)
(* receiver do: handleAMF0Command and handleAMF0Data of RtmpContext, which *)
(* call Decode for one value after another, and the client (external) that *)
(* reads the server's replies the same way.                                *)
(*                                                                         *)
(* The sender of a message is external.  It writes a list of values in the *)
(* encoder's format; the payload that arrives may end early, and bytes     *)
(* that mean nothing may follow.                                           *)
(***************************************************************************)
EXTENDS AMF0

CONSTANTS
    Messages,   \* what senders write: a kind and a sequence of items
    Tails       \* what may follow the part of a payload that is sound

\* An item: the bytes the encoder makes of a value, and the value.
Item(b, v) == [bytes |-> b, value |-> v]

NumberItem(b)  == Item(EncodeNumber(b), Number(b))
BooleanItem(b) == Item(EncodeBoolean(b), Boolean(b))
StringItem(s)  == Item(EncodeString(s), String(s))
NullItem       == Item(EncodeNull, Null)

Payload(items) == FlattenSeq([i \in DOMAIN items |-> items[i].bytes])

\* A property, and the objects made of them.
Named(key, item) == Item(EncodeNamed(key, item.bytes), <<key, item.value>>)

PropertyBytes(ps) == Payload(ps) \o EncodeObjectEnd
PropertyValues(ps) == Object([i \in DOMAIN ps |-> ps[i].value])

ObjectItem(ps) == Item(EncodeObjectStart \o PropertyBytes(ps), PropertyValues(ps))
ArrayItem(count, ps) ==
    Item(EncodeECMAArrayStart(count) \o PropertyBytes(ps), PropertyValues(ps))

\* A type that AMF0 has and this decoder does not know, 0x0C: a long string.
Unsupported == <<"unsupported", <<>>>>
LongStringItem(s) == Item(<<12>> \o WriteUint32BE(Len(s)) \o s, Unsupported)

Message(kind, items) == [kind |-> kind, items |-> items]

\* The strings that the handlers compare with.
Slash == 47
connect      == <<99, 111>>
createStream == <<99, 114>>
publish      == <<112, 117>>
play         == <<112, 108>>
app          == <<97>>
tcUrl        == <<116>>
live         == <<108>>
setDataFrame == <<64, 115>>
AtOnMetaData == <<64, 111>>     \* "@onMetaData"

ASSUME RtmpCommandAssumption ==
    /\ \A m \in Messages : Payload(m.items) \in Seq(Nat)
    /\ Tails \subseteq Seq(Nat)

-----------------------------------------------------------------------------

VARIABLES
    msg,     \* the message being handled: its kind; ghosts: the values written, how
             \* many arrived whole, and whether stray bytes came after them
    args,    \* the values decoded from it so far
    names,   \* RtmpContext::m_app and m_tc_url
    call     \* the handler that the last message made RtmpContext call

vars == <<decoderVars, msg, args, names, call>>

NoMessage == [kind |-> "reply", values |-> <<>>, whole |-> 0, clean |-> TRUE]
NoCall == <<"none", <<>>, <<>>>>

Init ==
    /\ data = <<>> /\ pos = 0 /\ control = "idle" /\ stack = <<>> /\ ret = Null
    /\ msg = NoMessage
    /\ args = <<>>
    /\ names = [app |-> <<>>, tcUrl |-> <<>>]
    /\ call = NoCall

\* The items that lie in the first `kept' bytes and whose types, like those before
\* them, the decoder knows.
WholeItems(items, kept) ==
    LET Arrived(i) ==
            /\ Len(Payload(SubSeq(items, 1, i))) <= kept
            /\ \A j \in 1 .. i : items[j].value # Unsupported
    IN  CHOOSE n \in 0 .. Len(items) :
            Arrived(n) /\ (n = Len(items) \/ ~Arrived(n + 1))

\* handleMessage with the next AMF0 message: a decoder is made for its payload and
\* Decode is called.  The loop thread is idle.
Receive(m, kept, tail) ==
    /\ data' = SubSeq(Payload(m.items), 1, kept) \o tail
    /\ control' = "decode"
    /\ msg' = [kind |-> m.kind, values |-> [i \in DOMAIN m.items |-> m.items[i].value],
               whole |-> WholeItems(m.items, kept), clean |-> tail = <<>>]
    /\ UNCHANGED <<pos, stack, ret, args, names, call>>

\* The values handleAMF0Command decodes, by the command's name.
CommandArity(name) ==
    CASE name = connect -> 3 [] name = publish -> 5 [] name = play -> 4 [] OTHER -> 2

\* handleAMF0Data skips a value after "@onMetaData" and takes the next.
DataArity(name) ==
    CASE name = setDataFrame -> 2 [] name = AtOnMetaData -> 3 [] OTHER -> 1

\* Whether another value is decoded after those in a.  A command needs a name and
\* a transaction id; the client reads a reply to its end.
Wants(a) ==
    IF msg.kind = "reply" THEN HasMore
    ELSE /\ IsString(a[1])
         /\ IF msg.kind = "data" THEN Len(a) < DataArity(a[1][2])
            ELSE Len(a) = 1 \/ (IsNumber(a[2]) /\ Len(a) < CommandArity(a[1][2]))

\* Decode returns to the handler.
TakeValue ==
    /\ control = "return" /\ stack = <<>>
    /\ args' = Append(args, ret)
    /\ control' = IF Wants(args') THEN "decode" ELSE "handle"
    /\ UNCHANGED <<data, pos, stack, ret, msg, names, call>>

StringOr(v, default) == IF IsString(v) THEN v[2] ELSE default

\* What follows the last slash; m_app stays empty if there is none.
AfterLastSlash(s) ==
    LET i == SelectLastInSeq(s, LAMBDA b : b = Slash)
    IN  IF i = 0 THEN <<>> ELSE SubSeq(s, i + 1, Len(s))

\* Mutant: a connect whose object names no app keeps the one before.
Connect_KeepsApp(obj) ==
    LET a == GetString(obj[2], app)
        u == GetString(obj[2], tcUrl)
    IN  IF ~IsObject(obj) THEN names
        ELSE [app |-> IF a # <<>> THEN a
                      ELSE IF names.app # <<>> THEN names.app ELSE AfterLastSlash(u),
              tcUrl |-> u]

\* m_app and m_tc_url after a connect with this command object.
Connect(obj) ==
    LET given == IF IsObject(obj)
                 THEN [app |-> GetString(obj[2], app), tcUrl |-> GetString(obj[2], tcUrl)]
                 ELSE names
    IN  IF given.app = <<>> THEN [given EXCEPT !.app = AfterLastSlash(given.tcUrl)] ELSE given

\* Mutant: publish forgets the null before the stream's name.
CallFor_NoNull(a, n) ==
    IF Len(a) < 2 \/ ~IsString(a[1]) \/ ~IsNumber(a[2]) THEN NoCall
    ELSE CASE a[1][2] = connect      -> <<"handleConnect", a[2][2], <<n.app>>>>
           [] a[1][2] = createStream -> <<"handleCreateStream", a[2][2], <<>>>>
           [] a[1][2] = publish      ->
                 <<"handlePublish", a[2][2], <<StringOr(a[3], <<>>), StringOr(a[4], live)>>>>
           [] a[1][2] = play         -> <<"handlePlay", a[2][2], <<StringOr(a[4], <<>>)>>>>
           [] OTHER                  -> NoCall

\* The call that a command's values lead to: the handler, the transaction id and
\* the strings it is given.
CallFor(a, n) ==
    IF Len(a) < 2 \/ ~IsString(a[1]) \/ ~IsNumber(a[2]) THEN NoCall
    ELSE CASE a[1][2] = connect      -> <<"handleConnect", a[2][2], <<n.app>>>>
           [] a[1][2] = createStream -> <<"handleCreateStream", a[2][2], <<>>>>
           [] a[1][2] = publish      ->
                 <<"handlePublish", a[2][2], <<StringOr(a[4], <<>>), StringOr(a[5], live)>>>>
           [] a[1][2] = play         -> <<"handlePlay", a[2][2], <<StringOr(a[4], <<>>)>>>>
           [] OTHER                  -> NoCall

\* The rest of handleAMF0Command.
HandleCommand ==
    /\ control = "handle" /\ msg.kind = "command"
    /\ names' = IF Len(args) = 3 /\ args[1] = String(connect) THEN Connect(args[3]) ELSE names
    /\ call' = CallFor(args, names')
    /\ control' = "handled"
    /\ UNCHANGED <<data, pos, stack, ret, msg, args>>

\* The rest of handleAMF0Data: an object is taken for the metadata and logged.
HandleData ==
    /\ control = "handle" /\ msg.kind = "data"
    /\ call' = IF Len(args) > 1 /\ IsObject(args[Len(args)])
               THEN <<"onMetaData", <<>>, args[Len(args)]>> ELSE NoCall
    /\ control' = "handled"
    /\ UNCHANGED <<data, pos, stack, ret, msg, args, names>>

\* The client has read a reply.
HandleReply ==
    /\ control = "handle" /\ msg.kind = "reply"
    /\ control' = "handled"
    /\ UNCHANGED <<data, pos, stack, ret, msg, args, names, call>>

\* The handler returns: the decoder and the message are gone.
MessageDone ==
    /\ control = "handled"
    /\ control' = "idle"
    /\ data' = <<>> /\ pos' = 0 /\ ret' = Null
    /\ msg' = NoMessage /\ args' = <<>> /\ call' = NoCall
    /\ UNCHANGED <<stack, names>>

Handler == TakeValue \/ HandleCommand \/ HandleData \/ HandleReply \/ MessageDone

Decoder == DecoderStep /\ UNCHANGED <<msg, args, names, call>>

Next ==
    \/ control = "idle" /\ \E m \in Messages, tail \in Tails :
        \E kept \in 0 .. Len(Payload(m.items)) : Receive(m, kept, tail)
    \/ Decoder
    \/ Handler

Spec == Init /\ [][Next]_vars

-----------------------------------------------------------------------------
(* Properties *)

ValueTypes == {"number", "boolean", "string", "object", "null"}
IsSequence(s) == s \in Seq({s[i] : i \in DOMAIN s})

\* m_pos never passes the end of the data (the read functions' own checks, on
\* which the reads of m_data rest), and every value has one of the variant's types.
TypeOK ==
    /\ data \in Seq(Nat)
    /\ pos \in 0 .. Len(data)
    /\ control \in {"idle", "decode", "object", "return", "handle", "handled"}
    /\ IsSequence(stack)
    /\ ret[1] \in ValueTypes

\* All the message's values arrived and nothing followed them.
Sound == msg.whole = Len(msg.values) /\ msg.clean

\* Encoder and decoder agree: a value that arrived in full is decoded as what was
\* written, whatever comes after it in the payload (a cut, stray bytes), and a
\* reply's reader gets all of its values.  Decode, DecodeObject and the encoder
\* must agree on lengths, counts, byte order, nesting and end markers.  A payload
\* that ends inside a string yields no part of that string, and nothing that looks
\* like a name after it: no stream is published under the beginning of its name.
DecodedAsWritten ==
    LET cut == msg.whole + 1
    IN  /\ \A i \in DOMAIN args \cap 1 .. msg.whole : args[i] = msg.values[i]
        /\ control = "handled" /\ msg.kind = "reply" /\ Sound =>
               Len(args) = Len(msg.values)
        /\ msg.clean /\ cut \in DOMAIN msg.values /\ IsString(msg.values[cut]) =>
               \A j \in cut .. Len(args) : IsString(args[j]) => args[j][2] = <<>>

\* The value written as a command's i-th, null where the command has fewer.
Written(i) == IF i <= Len(msg.values) THEN msg.values[i] ELSE Null

\* A command that arrives as the comments at RtmpContext.cpp:161-164 and 214-219
\* describe it calls its handler with the transaction id and the strings that
\* were written at their places; without a name or an id nothing is called.
CommandsUnderstood ==
    control = "handled" /\ msg.kind = "command" /\ Sound =>
        IF ~(IsString(Written(1)) /\ IsNumber(Written(2))) THEN call = NoCall
        ELSE CASE Written(1) = String(connect) ->
                    call[1] = "handleConnect" /\ call[2] = Written(2)[2]
               [] Written(1) = String(createStream) ->
                    call = <<"handleCreateStream", Written(2)[2], <<>>>>
               [] Written(1) = String(publish) /\ IsString(Written(4)) ->
                    /\ call[1] = "handlePublish" /\ call[2] = Written(2)[2]
                    /\ call[3][1] = Written(4)[2]
                    /\ call[3][2] = IF IsString(Written(5)) THEN Written(5)[2] ELSE live
               [] Written(1) = String(play) /\ IsString(Written(4)) ->
                    call = <<"handlePlay", Written(2)[2], <<Written(4)[2]>>>>
               [] OTHER -> TRUE

\* The string an object has under a key it has once, empty without one.
Under(obj, key) ==
    LET found == {p \in Range(obj[2]) : p[1] = key /\ IsString(p[2])}
    IN  IF found = {} THEN <<>> ELSE (CHOOSE p \in found : TRUE)[2][2]

NoKeyTwice(obj) == \A i, j \in DOMAIN obj[2] : obj[2][i][1] = obj[2][j][1] => i = j

\* A connect with a command object sets the session's app from that object alone:
\* its app, else the end of its tcUrl, else nothing.  No app of an earlier connect
\* of the session survives (m_app is what publish and play file their stream under).
AppIsWhatConnectNames ==
    control = "handled" /\ msg.kind = "command" /\ Sound
    /\ Written(1) = String(connect) /\ IsNumber(Written(2))
    /\ IsObject(Written(3)) /\ NoKeyTwice(Written(3)) =>
        LET a == Under(Written(3), app)
            u == Under(Written(3), tcUrl)
        IN  CASE a # <<>>           -> names.app = a
              [] a = <<>> /\ Slash \in Range(u) ->
                    Slash \notin Range(names.app) /\ IsSuffix(<<Slash>> \o names.app, u)
              [] OTHER              -> names.app = <<>>

\* The depth of Decode's recursion never exceeds the bytes it has consumed: Decode
\* and DecodeObject enter no level without reading a byte for it.  (How deep the
\* native stack can get is another matter: a payload has up to 16 MB.)
NestingBounded == Len(stack) <= pos

\* The inductive invariant: an object is open while DecodeObject reads it and none
\* when the handler has control; a new message is read from its first byte.
ControlInv ==
    /\ control = "object" => stack # <<>>
    /\ control \in {"idle", "handle", "handled"} => stack = <<>>
    /\ control = "idle" => pos = 0

IInv == TypeOK /\ ControlInv /\ NestingBounded

\* Every step of the decoder brings its end nearer, on any bytes: a short read
\* consumes nothing (readUint16BE), and still no round of DecodeObject's loop
\* leaves it where it was.
DecoderLowers == [][Decoder => Lowers]_vars

-----------------------------------------------------------------------------
(* A sender that writes with the encoder *)

\* A string whose length fits the 16 bits the encoder writes it in.
IsShort(s) == s \in Seq(Nat) /\ Len(s) < 65536

IsScalarItem(e) ==
    \/ /\ IsNumber(e.value) /\ e = NumberItem(e.value[2])
       /\ e.value[2] \in Seq(Nat) /\ Len(e.value[2]) = NumberLen
    \/ e.value[1] = "boolean" /\ e = BooleanItem(e.value[2]) /\ e.value[2] \in BOOLEAN
    \/ IsString(e.value) /\ e = StringItem(e.value[2]) /\ IsShort(e.value[2])
    \/ e = NullItem

\* An object, or an array with any count.
IsObjectItem(e, ps) ==
    \/ e = ObjectItem(ps)
    \/ /\ e = Item(SubSeq(e.bytes, 1, 5) \o PropertyBytes(ps), PropertyValues(ps))
       /\ e.bytes[1] = ECMAArrayMarker

\* The items are the encoder's, the properties of their objects among `lists', and
\* what these name again among the items: objects nest to any depth.
EncodedBy(items, lists) ==
    /\ \A e \in items : e.bytes \in Seq(Nat)
    /\ \A e \in items : IsScalarItem(e) \/ \E ps \in lists : IsObjectItem(e, ps)
    /\ \A ps \in lists : IsSequence(ps)
    /\ \A ps \in lists : \A i \in DOMAIN ps :
        /\ IsShort(ps[i].value[1])
        /\ \E e \in items : ps[i] = Named(ps[i].value[1], e)

\* Every message has a value, and its values are among the items, or of a type the
\* decoder does not know.
WritesOnly(items) ==
    \A m \in Messages :
        /\ IsSequence(m.items) /\ m.items # <<>>
        /\ \A i \in DOMAIN m.items :
            \/ m.items[i] \in items
            \/ m.items[i].value = Unsupported /\ m.items[i].bytes \in Seq(Nat)
===============================================================================
