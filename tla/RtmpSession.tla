----------------------------- MODULE RtmpSession -----------------------------
(***************************************************************************)
(* One RTMP session on the server: RtmpContext and RtmpHandShake driving a *)
(* TcpConnection, with the client at the other end.                        *)
(*                                                                         *)
(* The server side is the code.  Its event loop runs one handler at a time *)
(* and takes completed operations from a FIFO (`ready').  A read handler   *)
(* is split at the points where onMessage branches; only the loop thread   *)
(* touches the connection, and the kernel's steps between the parts change *)
(* nothing that a handler looks at.                                        *)
(*                                                                         *)
(* The client is external.  It sends the byte stream C0C1, C2, messages;   *)
(* when it sends C2 and its first message is a parameter, because clients  *)
(* differ in it.  The unit of that stream is one byte of the handshake,    *)
(* whose packets are scaled from 1536 bytes to K, or one whole message     *)
(* (cutting messages into chunks is RtmpChunkParse's business).            *)
(***************************************************************************)
EXTENDS TcpConnectionOps, Integers, FiniteSets

CONSTANTS
    K,              \* kRtmpHandShakePacketSize, scaled
    Names,          \* app and stream names, NoName among them
    MaxMessages,    \* bound on the messages the client sends
    Clients,        \* the kinds of client: an "eager" one sends C2 when it has S1,
                    \* a "patient" one when it has S2
    WaitsForGreeting \* the client sends its first message only when it has the
                     \* server's three protocol messages

\* The empty string: no name was given.
NoName == ""

ASSUME RtmpSessionAssumption ==
    /\ K \in Nat \ {0}
    /\ NoName \in Names
    /\ MaxMessages \in Nat
    /\ Clients \subseteq {"eager", "patient"}
    /\ WaitsForGreeting \in BOOLEAN

-----------------------------------------------------------------------------
(* What the client sends *)

Unit(k, a) == [kind |-> k, arg |-> a]

\* The argument of a connect whose command object is missing.
NoObject == "none"

GoodVersion == Unit("version3", NoName)
BadVersion  == Unit("otherVersion", NoName)
HandShakeByte == Unit("handshakeByte", NoName)

\* AMF0 commands, and one message for all that RtmpContext answers with nothing:
\* acknowledgements, user control, data, audio, video, unknown commands.
ClientMessages ==
    {Unit("connect", a) : a \in Names \cup {NoObject}}
    \cup {Unit("publish", s) : s \in Names}
    \cup {Unit("play", s) : s \in Names}
    \cup {Unit("createStream", NoName), Unit("unanswered", NoName)}

Units == ClientMessages \cup {GoodVersion, BadVersion, HandShakeByte}

HandShakeBytes(n) == [i \in 1 .. n |-> HandShakeByte]

(* What the server sends: a message type, the length of its payload, and the
   stream id or chunk size it carries.                                       *)

Reply(t, n, v) == [type |-> t, len |-> n, val |-> v]

S0S1 == Reply("S0S1", 0, 0)
S2   == Reply("S2", 0, 0)
WindowAckSize == Reply("WindowAckSize", 4, 2500000)
PeerBandwidth == Reply("PeerBandwidth", 5, 2500000)
SetChunkSize(n) == Reply("SetChunkSize", 4, n)
ConnectResult == Reply("connect._result", 190, 0)
CreateStreamResult(id) == Reply("createStream._result", 29, id)
StreamBegin(id) == Reply("StreamBegin", 6, id)
PublishStart(id) == Reply("NetStream.Publish.Start", 105, id)
PlayStart(id) == Reply("Netstream.Play.Start", 99, id)

DefaultChunkSize == 128
OutChunkSize == 4096

Replies ==
    {S0S1, S2, WindowAckSize, PeerBandwidth, SetChunkSize(OutChunkSize), ConnectResult}
    \cup UNION {{CreateStreamResult(id), StreamBegin(id), PublishStart(id), PlayStart(id)}
                : id \in 0 .. MaxMessages}

-----------------------------------------------------------------------------

VARIABLES
    conn,      \* the connection, as in TcpConnectionOps
    ready,     \* completed operations whose handlers wait, oldest first
    loop,      \* what the loop thread is doing
    hs,        \* RtmpHandShake::m_state
    buf,       \* the readable part of m_recv_buf
    ctx,       \* RtmpContext: m_app, m_stream_name, m_role, stream ids
    removed,   \* the keys MediaSourceMgr::Remove has been called with
    c2s,       \* sent by the client, not yet read
    wire,      \* what the server's socket has taken; the client sees all of it
    sent,      \* ghost: everything the client sent
    handled,   \* ghost: the messages handleMessage was given
    client,    \* the client's kind
    gone       \* the client closed its end

clientVars == <<client, gone>>
vars == <<conn, ready, loop, hs, buf, ctx, removed, c2s, wire, sent, handled, client, gone>>

LoopStates == {"idle", "handshake", "parse", "return"}
HandShakeStates == {"WaitC0C1", "PostS0S1", "PostS2", "WaitC2", "Done"}
Roles == {"Unknown", "Publish", "Player"}

Init ==
    /\ conn = Start(NewConnection)
    /\ ready = <<>>
    /\ loop = "idle"
    /\ hs = "WaitC0C1"
    /\ buf = <<>>
    /\ ctx = [app |-> NoName, stream |-> NoName, role |-> "Unknown", streamId |-> 0,
              nextStreamId |-> 1]
    /\ removed = {}
    /\ c2s = <<>> /\ wire = <<>> /\ sent = <<>> /\ handled = <<>>
    /\ client \in Clients
    /\ gone = FALSE

Drop(s, n) == SubSeq(s, n + 1, Len(s))

\* The handlers that become runnable when the connection goes from c to d.
Completed(c, d) ==
    (IF d.wr \in {"ok", "err"} /\ c.wr \notin {"ok", "err"} THEN <<"write">> ELSE <<>>)
    \o (IF d.rd \in {"ready", "err"} /\ c.rd \notin {"ready", "err"} THEN <<"read">> ELSE <<>>)

\* onClose runs once, inside the Close that closes: a publisher's source is
\* removed from the registry.
OnClose ==
    removed' = IF ~conn.closed /\ conn'.closed /\ ctx.role = "Publish"
                  /\ ctx.app # NoName /\ ctx.stream # NoName
               THEN removed \cup {<<ctx.app, ctx.stream>>}
               ELSE removed

-----------------------------------------------------------------------------
(* The read handler *)

\* The read handler with bytes appends them and enters onMessage.
ReadHandler(n) ==
    /\ loop = "idle"
    /\ ready # <<>> /\ Head(ready) = "read"
    /\ conn.rd = "ready"
    /\ n \in 1 .. Len(c2s)
    /\ buf' = buf \o SubSeq(c2s, 1, n)
    /\ c2s' = Drop(c2s, n)
    /\ conn' = [conn EXCEPT !.rd = "none"]
    /\ ready' = Tail(ready)
    /\ loop' = IF hs = "Done" THEN "parse" ELSE "handshake"
    /\ UNCHANGED <<hs, ctx, removed, wire, sent, handled, clientVars>>

\* The read handler with an error; a read that was ready when the socket was
\* closed may end either way.
ReadErrorHandler ==
    /\ loop = "idle"
    /\ ready # <<>> /\ Head(ready) = "read"
    /\ conn.rd = "err" \/ conn.closed
    /\ conn' = ReadFailed(conn)
    /\ ready' = Tail(ready) \o Completed(conn, conn')
    /\ OnClose
    /\ UNCHANGED <<loop, hs, buf, ctx, c2s, wire, sent, handled, clientVars>>

\* HandShake returns 1 with the buffer untouched: too few bytes, or a state that
\* waits for a write to complete.
HandShakeWaits ==
    /\ loop = "handshake"
    /\ \/ hs = "WaitC0C1" /\ Len(buf) < K + 1
       \/ hs = "WaitC2" /\ Len(buf) < K
       \/ hs \in {"PostS0S1", "PostS2"}
    /\ loop' = "return"
    /\ UNCHANGED <<conn, ready, hs, buf, ctx, removed, c2s, wire, sent, handled, clientVars>>

\* Mutant: C0 is forgotten when C0C1 is retrieved.
RecvC0C1_KeepByte ==
    /\ loop = "handshake"
    /\ hs = "WaitC0C1" /\ Len(buf) >= K + 1
    /\ buf[1] = GoodVersion
    /\ buf' = Drop(buf, K)
    /\ hs' = "PostS0S1"
    /\ conn' = SendInLoop(conn, S0S1)
    /\ loop' = "return"
    /\ UNCHANGED <<ready, ctx, removed, c2s, wire, sent, handled, clientVars>>

\* Mutant: the version byte is not checked.
RecvC0C1_AnyVersion ==
    /\ loop = "handshake"
    /\ hs = "WaitC0C1" /\ Len(buf) >= K + 1
    /\ buf' = Drop(buf, K + 1)
    /\ hs' = "PostS0S1"
    /\ conn' = SendInLoop(conn, S0S1)
    /\ loop' = "return"
    /\ UNCHANGED <<ready, ctx, removed, c2s, wire, sent, handled, clientVars>>

\* HandShake in kHandShakeWaitC0C1 with a whole C0C1 that CheckC1S1 accepts; the
\* choice between the simple and the complex form only changes S1's and S2's bytes.
RecvC0C1 ==
    /\ loop = "handshake"
    /\ hs = "WaitC0C1" /\ Len(buf) >= K + 1
    /\ buf[1] = GoodVersion
    /\ buf' = Drop(buf, K + 1)
    /\ hs' = "PostS0S1"
    /\ conn' = SendInLoop(conn, S0S1)
    /\ loop' = "return"
    /\ UNCHANGED <<ready, ctx, removed, c2s, wire, sent, handled, clientVars>>

\* CheckC1S1 fails: onMessage closes the connection.
RejectC0C1 ==
    /\ loop = "handshake"
    /\ hs = "WaitC0C1" /\ Len(buf) >= K + 1
    /\ buf[1] # GoodVersion
    /\ conn' = Close(conn)
    /\ ready' = ready \o Completed(conn, conn')
    /\ OnClose
    /\ loop' = "return"
    /\ UNCHANGED <<hs, buf, ctx, c2s, wire, sent, handled, clientVars>>

\* Mutant: the chunk size is raised without telling the peer.
Greeting_NoSetChunkSize(c) == SendInLoop(SendInLoop(c, WindowAckSize), PeerBandwidth)

\* onHandShakeDone's three messages.
Greeting(c) ==
    SendInLoop(SendInLoop(SendInLoop(c, WindowAckSize), PeerBandwidth),
               SetChunkSize(OutChunkSize))

\* Mutant: one byte of C2 stays in the buffer.
RecvC2_KeepByte ==
    /\ loop = "handshake"
    /\ hs = "WaitC2" /\ Len(buf) >= K
    /\ buf' = Drop(buf, K - 1)
    /\ hs' = "Done"
    /\ conn' = Greeting(conn)
    /\ loop' = IF buf' = <<>> THEN "return" ELSE "parse"
    /\ UNCHANGED <<ready, ctx, removed, c2s, wire, sent, handled, clientVars>>

\* Mutant: messages that came with C2 wait for the next read.
RecvC2_NoParse ==
    /\ loop = "handshake"
    /\ hs = "WaitC2" /\ Len(buf) >= K
    /\ buf' = Drop(buf, K)
    /\ hs' = "Done"
    /\ conn' = Greeting(conn)
    /\ loop' = "return"
    /\ UNCHANGED <<ready, ctx, removed, c2s, wire, sent, handled, clientVars>>

\* HandShake in kHandShakeWaitC2 with a whole C2, then onHandShakeDone; what is
\* left in the buffer is parsed at once.
RecvC2 ==
    /\ loop = "handshake"
    /\ hs = "WaitC2" /\ Len(buf) >= K
    /\ buf' = Drop(buf, K)
    /\ hs' = "Done"
    /\ conn' = Greeting(conn)
    /\ loop' = IF buf' = <<>> THEN "return" ELSE "parse"
    /\ UNCHANGED <<ready, ctx, removed, c2s, wire, sent, handled, clientVars>>

\* handlePublish and handlePlay differ in the role and in the status they send.
BeginStream(m, role, status) ==
    /\ ctx' = [ctx EXCEPT !.stream = m.arg, !.role = role]
    /\ conn' = SendInLoop(SendInLoop(conn, StreamBegin(ctx.streamId)), status)

\* The messages handleMessage does more than log.
Answered == {"connect", "createStream", "publish", "play"}

\* Mutant: createStream answers with the id of the stream before.
HandleMessage_OldId(m) ==
    \/ /\ m.kind = "connect"
       /\ ctx' = [ctx EXCEPT !.app = IF m.arg = NoObject THEN @ ELSE m.arg]
       /\ conn' = SendInLoop(conn, ConnectResult)
    \/ /\ m.kind = "createStream"
       /\ ctx' = [ctx EXCEPT !.streamId = ctx.nextStreamId, !.nextStreamId = @ + 1]
       /\ conn' = SendInLoop(conn, CreateStreamResult(ctx.streamId))
    \/ m.kind = "publish" /\ BeginStream(m, "Publish", PublishStart(ctx.streamId))
    \/ m.kind = "play" /\ BeginStream(m, "Player", PlayStart(ctx.streamId))
    \/ m.kind \notin Answered /\ UNCHANGED <<ctx, conn>>

\* handleMessage and the command handlers below it.
HandleMessage(m) ==
    \/ /\ m.kind = "connect"
       /\ ctx' = [ctx EXCEPT !.app = IF m.arg = NoObject THEN @ ELSE m.arg]
       /\ conn' = SendInLoop(conn, ConnectResult)
    \/ /\ m.kind = "createStream"
       /\ ctx' = [ctx EXCEPT !.streamId = ctx.nextStreamId, !.nextStreamId = @ + 1]
       /\ conn' = SendInLoop(conn, CreateStreamResult(ctx.nextStreamId))
    \/ m.kind = "publish" /\ BeginStream(m, "Publish", PublishStart(ctx.streamId))
    \/ m.kind = "play" /\ BeginStream(m, "Player", PlayStart(ctx.streamId))
    \/ m.kind \notin Answered /\ UNCHANGED <<ctx, conn>>

\* One round of Parse's loop: the next message is taken and handled.
ParseMessage ==
    /\ loop = "parse"
    /\ buf # <<>>
    /\ HandleMessage(Head(buf))
    /\ buf' = Tail(buf)
    /\ handled' = Append(handled, Head(buf))
    /\ UNCHANGED <<ready, loop, hs, removed, c2s, wire, sent, clientVars>>

\* onMessage returns and the read handler starts the next read.
MessageCbReturn ==
    /\ loop = "return" \/ (loop = "parse" /\ buf = <<>>)
    /\ conn' = DoRead(conn)
    /\ ready' = ready \o Completed(conn, conn')
    /\ loop' = "idle"
    /\ UNCHANGED <<hs, buf, ctx, removed, c2s, wire, sent, handled, clientVars>>

-----------------------------------------------------------------------------
(* The write handler *)

\* RtmpHandShake::WriteComplete on the connection whose queue has drained: what
\* it sends, and below the state it goes to.
WriteComplete(c) == IF hs = "PostS0S1" THEN SendInLoop(c, S2) ELSE c

AfterWriteComplete ==
    CASE hs = "PostS0S1" -> "PostS2"
      [] hs = "PostS2"   -> "WaitC2"
      [] OTHER           -> hs

\* The write handler, with onWriteComplete when the queue has drained.
WriteHandler ==
    /\ loop = "idle"
    /\ ready # <<>> /\ Head(ready) = "write"
    /\ conn.wr = "ok"
    /\ LET c == WriteDone(conn)
       IN  IF c.queue = <<>> /\ hs # "Done"
           THEN conn' = WriteComplete(c) /\ hs' = AfterWriteComplete
           ELSE conn' = c /\ hs' = hs
    /\ ready' = Tail(ready)
    /\ UNCHANGED <<loop, buf, ctx, removed, c2s, wire, sent, handled, clientVars>>

\* The write handler with an error.
WriteErrorHandler ==
    /\ loop = "idle"
    /\ ready # <<>> /\ Head(ready) = "write"
    /\ conn.wr = "err"
    /\ conn' = WriteFailed(conn)
    /\ ready' = Tail(ready) \o Completed(conn, conn')
    /\ OnClose
    /\ UNCHANGED <<loop, hs, buf, ctx, c2s, wire, sent, handled, clientVars>>

-----------------------------------------------------------------------------
(* The kernel, as asio uses it *)

\* An operation completes with the result r and its handler is queued.
KernelReads ==
    /\ conn.rd = "armed" /\ c2s # <<>>
    /\ conn' = [conn EXCEPT !.rd = "ready"]
    /\ ready' = Append(ready, "read")
    /\ UNCHANGED <<loop, hs, buf, ctx, removed, c2s, wire, sent, handled, clientVars>>

\* The stream of a client that closed ends after its last byte.
KernelReadsEof ==
    /\ conn.rd = "armed" /\ c2s = <<>> /\ gone
    /\ conn' = [conn EXCEPT !.rd = "err"]
    /\ ready' = Append(ready, "read")
    /\ UNCHANGED <<loop, hs, buf, ctx, removed, c2s, wire, sent, handled, clientVars>>

KernelWrites ==
    /\ conn.wr = "pending"
    /\ conn' = [conn EXCEPT !.wr = "ok"]
    /\ ready' = Append(ready, "write")
    /\ wire' = Append(wire, conn.wbuf)
    /\ UNCHANGED <<loop, hs, buf, ctx, removed, c2s, sent, handled, clientVars>>

KernelWriteFails ==
    /\ conn.wr = "pending" /\ gone
    /\ conn' = [conn EXCEPT !.wr = "err"]
    /\ ready' = Append(ready, "write")
    /\ UNCHANGED <<loop, hs, buf, ctx, removed, c2s, wire, sent, handled, clientVars>>

-----------------------------------------------------------------------------
(* The client *)

ClientSends(units) ==
    /\ ~gone
    /\ c2s' = c2s \o units
    /\ sent' = sent \o units
    /\ UNCHANGED <<conn, ready, loop, hs, buf, ctx, removed, wire, handled, clientVars>>

Received(t) == \E i \in DOMAIN wire : wire[i].type = t

ClientSendsC0C1(v) ==
    /\ sent = <<>>
    /\ ClientSends(<<v>> \o HandShakeBytes(K))

ClientSendsC2 ==
    /\ Len(sent) = K + 1
    /\ Received(IF client = "patient" THEN "S2" ELSE "S0S1")
    /\ ClientSends(HandShakeBytes(K))

ClientSendsMessage(m) ==
    /\ Len(sent) \in 2 * K + 1 .. 2 * K + MaxMessages
    /\ Received("S2")
    /\ WaitsForGreeting => Received("SetChunkSize")
    /\ ClientSends(<<m>>)

ClientLeaves ==
    /\ ~gone
    /\ gone' = TRUE
    /\ UNCHANGED <<conn, ready, loop, hs, buf, ctx, removed, c2s, wire, sent, handled, client>>

-----------------------------------------------------------------------------

LoopStep ==
    \/ \E n \in 1 .. 2 * K + 1 + MaxMessages : ReadHandler(n)
    \/ ReadErrorHandler
    \/ HandShakeWaits \/ RecvC0C1 \/ RejectC0C1 \/ RecvC2
    \/ ParseMessage \/ MessageCbReturn
    \/ WriteHandler \/ WriteErrorHandler

Next ==
    \/ LoopStep
    \/ KernelReads \/ KernelReadsEof \/ KernelWrites \/ KernelWriteFails
    \/ \E v \in {GoodVersion, BadVersion} : ClientSendsC0C1(v)
    \/ ClientSendsC2
    \/ \E m \in ClientMessages : ClientSendsMessage(m)
    \/ ClientLeaves

Spec == Init /\ [][Next]_vars

\* The loop runs; the kernel completes what it can; a client that has received
\* what it waits for sends C2.  The client need not send a message or leave.
Fairness ==
    /\ WF_vars(LoopStep)
    /\ WF_vars(KernelReads \/ KernelReadsEof)
    /\ WF_vars(KernelWrites \/ KernelWriteFails)
    /\ WF_vars(ClientSendsC2)

FairSpec == Spec /\ Fairness

-----------------------------------------------------------------------------

TypeOK ==
    /\ conn \in Connection(Replies)
    /\ ready \in Seq({"read", "write"})
    /\ loop \in LoopStates
    /\ hs \in HandShakeStates
    /\ buf \in Seq(Units) /\ c2s \in Seq(Units) /\ sent \in Seq(Units)
    /\ handled \in Seq(ClientMessages)
    /\ ctx \in [app : Names, stream : Names, role : Roles,
                streamId : 0 .. MaxMessages, nextStreamId : 1 .. MaxMessages + 1]
    /\ removed \subseteq Names \X Names
    /\ wire \in Seq(Replies)
    /\ client \in Clients /\ gone \in BOOLEAN

\* How many bytes of the client's stream each handshake state has retrieved.
HandShakeConsumed ==
    CASE hs = "WaitC0C1" -> 0
      [] hs \in {"PostS0S1", "PostS2", "WaitC2"} -> K + 1
      [] hs = "Done" -> 2 * K + 1

\* However the stream is cut into reads, and whatever arrives before the server is
\* ready for it, no handshake byte is parsed as a message and no message is lost
\* or taken for C2: what was handled, buffered and not yet read is exactly what
\* the client sent after the part of the handshake consumed so far.
FramingIntact == handled \o buf \o c2s = Drop(sent, HandShakeConsumed)

\* What the comments in RtmpContext say the server answers to a message.
Documented(m, idBefore, idAfter) ==
    CASE m.kind = "connect" -> <<ConnectResult>>
      [] m.kind = "createStream" -> <<CreateStreamResult(idAfter)>>
      [] m.kind = "publish" -> <<StreamBegin(idBefore), PublishStart(idBefore)>>
      [] m.kind = "play" -> <<StreamBegin(idBefore), PlayStart(idBefore)>>
      [] OTHER -> <<>>

\* The streams created by the first n messages.
Created(n) == Cardinality({i \in 1 .. n : handled[i].kind = "createStream"})

\* How many replies the first n messages are answered with.
Given(n) ==
    Cardinality({i \in 1 .. n : handled[i].kind \in Answered})
    + Cardinality({i \in 1 .. n : handled[i].kind \in {"publish", "play"}})

\* What the server sends before the first answer: S0S1, S2 only after S0S1 was
\* written, the greeting only after C2.
Opening ==
    CASE hs = "WaitC0C1" -> <<>>
      [] hs = "PostS0S1" -> <<S0S1>>
      [] hs \in {"PostS2", "WaitC2"} -> <<S0S1, S2>>
      [] hs = "Done" -> <<S0S1, S2, WindowAckSize, PeerBandwidth, SetChunkSize(OutChunkSize)>>

\* Everything the server has sent or queued.
Out == wire \o Backlog(conn)

\* The server's side of the conversation: the opening, then the documented answer to
\* every message, in the order the messages came, each naming the stream the latest
\* createStream made, and nothing else.
AnswersInOrder ==
    /\ Len(Out) = Len(Opening) + Given(Len(handled))
    /\ \A i \in DOMAIN Opening : Out[i] = Opening[i]
    /\ \A n \in DOMAIN handled :
        LET answer == Documented(handled[n], Created(n - 1), Created(n))
            at == Len(Opening) + Given(n - 1)
        IN  \A k \in DOMAIN answer : at + k \in DOMAIN Out /\ Out[at + k] = answer[k]

\* The chunk size the client knows when it reads the i-th message of out.
Known(out, i) ==
    IF \E j \in 1 .. i - 1 : out[j].type = "SetChunkSize" THEN OutChunkSize ELSE DefaultChunkSize

\* sendChunk never splits a message, so every message must fit the chunk size the
\* client has been told by then: 128 bytes until SetChunkSize arrives.
ChunksFit == \A i \in DOMAIN Out : Out[i].len <= Known(Out, i)

\* A client with another protocol version is refused whole: it is sent nothing at
\* all, and its C0C1 closes the connection.
BadVersionRefused ==
    sent # <<>> /\ sent[1] = BadVersion ~> [](conn.closed /\ wire = <<>>)

\* After the handshake the server sends WindowAckSize, PeerBandwidth and
\* SetChunkSize on its own: a client that has sent C2 gets them.
GreetingArrives ==
    Len(sent) >= 2 * K + 1 ~> (Received("SetChunkSize") \/ conn.closed)

\* A client that waits for S2 before it sends C2 is served, unless the connection
\* closes: it gets the greeting, since the read of C2 finds the handshake waiting
\* for it (HandShake, WriteComplete), and every message it sends is handled.
PatientClientServed ==
    \A n \in 0 .. MaxMessages :
        client = "patient" /\ Len(sent) >= 2 * K + 1 + n
            ~> (conn.closed \/ (Received("SetChunkSize") /\ Len(handled) >= n))

\* A client that leaves makes the server close the connection and give up every
\* operation on it.
LeavingQuiesces ==
    gone ~> [](conn.closed /\ conn.rd = "none" /\ conn.wr = "none")

=============================================================================
