---- MODULE MCRtmpCommand ----
(* Instances of RtmpCommand for TLC. *)
EXTENDS RtmpCommand

txn == NumberItem(<<1, 2>>)
zero == NumberItem(<<0, 0>>)
x == StringItem(<<120>>)
y == StringItem(<<121, 122>>)
empty == StringItem(<<>>)
url(s) == StringItem(s)

\* Command objects: with and without app and tcUrl, with an app that is empty, not
\* a string, given twice, in an array, in a nested object, after an empty key.
Inner == <<Named(app, y), Named(<<98>>, ObjectItem(<<>>))>>
ConnectLists ==
    {<<>>,
     <<Named(app, x)>>,
     <<Named(tcUrl, url(<<114, Slash, 121>>))>>,
     <<Named(tcUrl, url(<<114>>))>>,
     <<Named(app, empty), Named(tcUrl, url(<<Slash, 114, Slash, 121>>))>>,
     <<Named(app, zero), Named(app, x)>>,
     <<Named(app, x), Named(app, y)>>,
     <<Named(<<>>, BooleanItem(TRUE)), Named(app, y)>>,
     <<Named(<<111>>, ObjectItem(Inner)), Named(app, x)>>}
ArrayList == <<Named(app, x), Named(tcUrl, empty)>>
CommandObjects ==
    {ObjectItem(ps) : ps \in ConnectLists}
    \cup {ArrayItem(0, ArrayList), NullItem,
          Item(EncodeObjectStart \o EncodeNamed(<<111>>, LongStringItem(<<65>>).bytes)
                   \o EncodeObjectEnd, Unsupported)}

Commands ==
    {<<StringItem(connect), txn, obj>> : obj \in CommandObjects}
    \cup {<<StringItem(createStream), txn, NullItem>>,
          <<StringItem(publish), txn, NullItem, x, y>>,
          <<StringItem(publish), txn, NullItem, x>>,
          <<StringItem(publish), txn, ObjectItem(<<>>), y, zero>>,
          <<StringItem(publish), txn, NullItem, LongStringItem(<<65, 65>>), y>>,
          <<StringItem(publish), txn, NullItem, NullItem, NullItem>>,
          <<StringItem(play), txn, NullItem, y, zero>>,
          <<StringItem(play), txn>>,
          <<StringItem(<<100>>), txn, NullItem, zero>>,
          <<StringItem(publish), NullItem, x, y>>,
          <<NullItem, txn>>}

Size == <<Named(<<119>>, NumberItem(<<7, 8>>)), Named(<<104>>, zero)>>
Width == <<Named(<<119>>, zero)>>
MetaData == ObjectItem(Size)

DataMessages ==
    {<<StringItem(setDataFrame), StringItem(<<111>>), MetaData>>,
     <<StringItem(setDataFrame), StringItem(<<111>>), ArrayItem(2, Width)>>,
     <<StringItem(AtOnMetaData), NullItem, MetaData>>,
     <<StringItem(<<111>>), MetaData>>}

\* What handleConnect, handleCreateStream and sendOnStatus encode.
Result == StringItem(<<95>>)
Version == <<Named(<<102>>, x), Named(<<99>>, NumberItem(<<3, 1>>))>>
Success == <<Named(<<108>>, x), Named(<<99>>, y), Named(<<100>>, y), Named(<<111>>, zero)>>
Status == <<Named(<<108>>, x), Named(<<99>>, y)>>
ServerReplies ==
    {<<Result, txn, ObjectItem(Version), ObjectItem(Success)>>,
     <<Result, txn, NullItem, NumberItem(<<0, 1>>)>>,
     <<StringItem(<<115>>), zero, NullItem, ObjectItem(Status)>>}

MCMessages ==
    {Message("command", c) : c \in Commands}
    \cup {Message("data", d) : d \in DataMessages}
    \cup {Message("reply", r) : r \in ServerReplies}

\* Nothing; a stray byte; objects in objects that do not end; an array and a string
\* cut short; markers the decoder does not know and the one that skips the rest.
MCTails ==
    {<<>>, <<0>>, <<3, 0, 0, 3, 0, 0, 3>>, <<8, 0, 0, 0>>, <<2, 0, 1>>, <<12, 0, 63, 2>>}

\* All of it is what a sender with the encoder writes, or of an unknown type: the
\* hypothesis of the theorems about what is decoded.
MCLists == ConnectLists \cup {Inner, ArrayList, Size, Width, Version, Success, Status}
MCItems ==
    {e \in UNION {Range(m.items) : m \in MCMessages} : e.value # Unsupported}
    \cup {ObjectItem(Inner), BooleanItem(TRUE), empty, NumberItem(<<7, 8>>), NumberItem(<<3, 1>>)}
    \cup {url(<<114, Slash, 121>>), url(<<114>>), url(<<Slash, 114, Slash, 121>>)}
ASSUME SendersEncode == EncodedBy(MCItems, MCLists) /\ WritesOnly(MCItems)
====
