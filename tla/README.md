# A verification of the TMS media server

TLA+ models of the server under `src/src`, the TLC runs that check them on small
instances, and proofs that TLAPS checks for every instance. Paths below are
relative to `src/src`; vendored libraries are under `src/deps`.

The server accepts RTMP connections, runs the handshake and the chunk protocol on
each, answers the RTMP commands, and is meant to distribute a published stream to
its viewers through a per-stream cache. At this commit the last step is not yet
joined up: nothing creates a `MediaSource`, `RtmpContext::m_media_source` is always
null, and `RtmpConsumer::sendMessage` is a stub. `MediaSource` is modelled as its
headers show its use.

## 1. Inventory

| Component | State | Operations | Talks to |
|---|---|---|---|
| `network/base/MsgBuffer.h` | `buf_`, `head_`, `tail_` | Append, Retrieve, EnsureWritableBytes, HasWritten | owned by a connection; an outstanding `async_read_some` writes into it |
| `network/net/TcpConnection` | socket, receive buffer, write queue, `m_writing`, `m_closed`, three callbacks | Start, Send, Close, doRead, doWrite and their handlers | its `Eventloop`; the callbacks of `RtmpContext` |
| `network/net/Eventloop` | `io_context`, work guard, `m_thread_id` | Loop, Quit, RunInLoop, RunAfter, RunEvery | runs every handler of its connections, one at a time |
| `EventLoopThread`, `EventLoopThreadPool` | thread, `m_loop`, mutex and condition; loops and round-robin counter | start, stop, GetNextLoop | give each accepted connection a worker loop |
| `network/TcpServer`, `main/main.cpp` | acceptor, pool | Start, Stop, doAccept, the signal handler | the pool; `RtmpServer::onNewConnection` |
| `media/rtmp/RtmpHandShake` | `m_state`, C1S1, C2S2 | Start, HandShake (on a read), WriteComplete (on a write) | `TcpConnection::Send` |
| `media/rtmp/RtmpContext` | app, stream, role, stream ids, chunk sizes | onMessage, onWriteComplete, onClose, one handler per message type | handshake, parser, registry, connection |
| `media/rtmp/RtmpChunkParse` | previous header and message in progress per chunk stream, chunk size | Parse, parseOneChunk | reads `MsgBuffer`, calls `RtmpContext::handleMessage` |
| `media/rtmp/AMF/AMF0` | cursor or output string | encode and decode | `RtmpContext` |
| `media/base/MediaSource` | three headers, GOP cache, consumer list under a mutex | SetX, OnAudio, OnVideo, AddConsumer, RemoveConsumer | publisher's and viewers' threads |
| `media/base/MediaSourceMgr` | map from `app/stream` to sources, under a mutex | Find, FindOrCreate, Remove | contexts of all threads |
| `media/rtmp/RtmpConsumer` | chunk size | OnPacket (stub) | a viewer's connection |

### What is hard here

* **Asynchronous operations that own memory.** A pending read holds a pointer into
  `MsgBuffer`, a pending write one into the front of the write queue. Nothing but
  the order of calls keeps the buffer in place until the handler has run.
* **Two kinds of send.** `Send` on the loop's thread takes effect at once, on any
  other thread when a posted task runs.
* **A handshake driven from both sides.** Its state advances on completed reads and
  on completed writes, and the two are ordered by the kernel and the peer.
* **Cut and merged input.** TCP may deliver any prefix: half a handshake packet, or
  C2 with three messages behind it; the chunk parser restarts a partly received
  chunk from the beginning after it has already changed the message in progress.
* **Context in the stream.** Chunk headers inherit fields from earlier ones, chunk
  streams interleave, and the chunk size may change in the middle of a message.
* **A cache filled on one thread and read on another**, with a lock that covers the
  consumer list only; `main` starts four worker loops and hands them out in turn,
  so publisher and viewer are usually on different ones.
* **A decoder that trusts nothing.** AMF0 payloads come from the network: cut short,
  nested as deep as the peer likes, with lengths that pass the end. The decoder has
  no error path; a short read returns zero and consumes nothing, and its loops must
  still end. What it returns is found by position by the command handlers.
* **Life cycle.** The pool keeps pointers to `Eventloop` objects that live on other
  threads' stacks. Start relies on a condition variable, serving on the work guards,
  and `Stop` and the destructor quit loops that may be on their way out already.

`PROJECT.json` lists each of these at its line.

### What makes each component correct

* `MsgBuffer`: what can be peeked at is the received stream without what was
  retrieved; the target of a pending read stays valid; the buffer does not grow
  without need.
* `TcpConnection`: one write at a time from a pinned buffer, no message left in the
  queue for ever, each thread's messages in order, nothing after Close, and rest
  after Close.
* Handshake and session: no byte is taken for something else; every complete
  handshake leads to the greeting; answers come in order, name the right stream and
  fit the chunk size the client knows; a wrong version gets nothing but a close.
* Parser: messages are delivered whole, unmixed and without waiting for bytes that
  do not come; both ends agree on the chunk size.
* `AMF0` and the command handlers: what was written is what is decoded, a cut string
  yields nothing of it, a command reaches its handler with its own arguments, an
  application name does not survive another connect that has a command object (one
  that has null in its place changes nothing), and decoding ends.
* Server: it comes up, every connection goes to a loop that runs, a signal ends it
  and leaves no thread.
* `MediaSource`: the cache is the current group of pictures; a viewer starts at a
  keyframe with the headers it needs and gets every later packet once, in order,
  and none after it left.

## 2. Modules

| Module | Models | Used by |
|---|---|---|
| `MsgBuffer` | the receive buffer with the read cycle of `doRead` over it | `MCMsgBuffer`, `MsgBufferProofs` |
| `MsgChannel` | abstract: a channel that delivers whole messages in order until it is shut | refined by `TcpConnection` |
| `TcpConnectionOps` | the methods of `TcpConnection` as functions from a connection to a connection | `TcpConnection`, `RtmpSession`, `TcpConnectionOpsProofs` |
| `TcpConnection` | a connection, its loop, other sending threads and the kernel | `MCTcpConnection`, `TcpConnectionProofs` |
| `RtmpSession` | `RtmpContext` and `RtmpHandShake` over a connection, with a client | `MCRtmpSession`, `RtmpSessionProofs` |
| `RtmpChunkParse` | the parser, with a peer that encodes messages into chunks | `MCRtmpChunkParse`, `RtmpChunkParseProofs` |
| `AMF0` | the encoder's functions, and the decoder as a machine with a stack | `RtmpCommand` |
| `RtmpCommand` | the messages in AMF0: their senders, `handleAMF0Command`, `handleAMF0Data`, a reply's reader | `MCRtmpCommand`, `RtmpCommandProofs` |
| `MediaSource` | a source, its publisher and its viewers | `MCMediaSource`, `MediaSourceProofs` |
| `EventLoopThread` | the worker threads and the loops on their stacks | `TcpServer` |
| `TcpServer` | main, the pool, accepting and the shutdown, with the workers | `MCTcpServer.cfg`, `TcpServerProofs` |

### How state and actions correspond to the code

**MsgBuffer.** `cap`, `mem`, `head`, `tail` are `buf_.size()`, the contents of
`buf_`, `head_`, `tail_`. A byte is its position in the peer's stream, so a lost,
repeated or misplaced byte is visible. `rdAt` and `rdLen` are the offset and the
room that `doRead` gave to `async_read_some`. The code touches the buffer only
between a completed read and the next `doRead`; that is the guard `InCallback`.
`ReadComplete` writes where the read was told to, not where `tail_` is now.

**TcpConnectionOps, TcpConnection.** The record `conn` holds `m_write_queue`,
`m_writing`, `m_closed` and the state of the read and of the write that asio has in
progress. `DoWrite`, `DoRead`, `SendInLoop`, `Close`, `WriteDone`, `WriteFailed`
and `ReadFailed` are the bodies of the methods and handlers, with everything they
call. `Close` aborts operations that have not completed; one that has completed
keeps its result, as asio's does. `TcpConnection` adds who calls them: posted tasks
(`posted` is asio's FIFO), the loop's own thread, the read handler split at
`m_message_cb` (which may send and close), and the kernel. `wire` holds the
messages the socket has taken to the last byte; a message cut off by a close is
not on it. A message is `<<sender, n>>`.

**RtmpSession.** `conn` is the same record; `ready` is the loop's FIFO of completed
operations; `loop` says how far `onMessage` has got; `hs`, `buf`, `ctx` are
`m_state`, the readable bytes and the fields of the context. Each `case` of
`HandShake` is an action, `HandleMessage` is `handleMessage` with the command
handlers below it, `WriteHandler` is the write handler with `onWriteComplete`. A
handshake packet of 1536 bytes is `K` units. A message is one unit: cutting
messages is the business of `RtmpChunkParse`, and the bytes of a message are left
out except for the argument of connect, publish and play (the application after
the `tcUrl` fallback, the stream name, possibly empty). The lengths of the answers
are those of the strings in the code, because `sendChunk` never splits a message
and `ChunksFit` is about that. The digests of the complex handshake change only
the contents of S1 and S2 and are left out. The client is external: it sends C0C1,
C2 and messages; clients differ in when they send C2, at once (`eager`) or after S2
(`patient`): `Clients` is the set of those a run has, and the variable `client` the
one that connected. `WaitsForGreeting` says whether it waits with its first message.

**RtmpChunkParse.** Units of the wire are the parts of a chunk that the parser
tests for separately: basic header (one to three units), timestamp field, the rest
of the message header, extended timestamp, payload bytes. `prev`, `prog`,
`inChunk` are `m_prev_headers`, `m_in_progress`, `m_in_chunk_size`. A read appends
any part of what was sent; `ParseChunk`, `WaitForHeader` and `WaitForData` are the
three ways `parseOneChunk` returns, the last with its change to the message in
progress. When the parser takes a unit for something it is not, what follows is
arbitrary; `derailed` records it and the model stops. The message stream id is
left out because a chunk stream keeps one. `TsMax` and `TsMod` scale 0xFFFFFF and
2^32. The peer follows the format of `RtmpHeader.h`; Abort and malformed headers
are not sent, and a fmt 3 header begins a message only where the delta is 0, so the
repetition of another delta by fmt 3 is not exercised.

**AMF0, RtmpCommand.** Bytes are numbers. `data`, `pos` are `m_data`, `m_pos`;
`stack` has a key and the properties read so far for every `DecodeObject` that is
open, and `control` says where `Decode` and `DecodeObject` are. The read functions
are operators that return the value and the new position, short reads included. A
double is `NumberLen` bytes in memory order: no handler does more with one than hand
it on or print it, so its value never matters and its byte order does. `args` are
the values a handler has taken from the decoder; `CallFor` and `Connect` are the rest
of `handleAMF0Command`: which handler is called, with which id and strings, and what
`m_app` and `m_tc_url` become. A sender is external: it writes values with the
encoder's functions, of which `kept` bytes arrive, with a `tail` that means nothing.
What it wrote and how much of it arrived whole are ghosts (`msg`). Names are one or
two bytes long, different where the strings in the code are. `RtmpSession` starts
where this module ends, with the handler and its argument.

**EventLoopThread, TcpServer.** `thread` is where `threadFunc` is, `mLoop` whether
`m_loop` is set, `loop` whether the object on the stack exists, `guard`, `stopped`
and `work` are its work guard, the stop of its `io_context` and the reads pending
for its connections. `run` returns when stopped, or without guard and work.
`m_mutex` is held only to set `m_loop` and to notify, so those are single steps,
and main's wait is `WaitForLoop` (the predicate is false, main sleeps) and
`LoopStarted`. The main thread is one program counter, `main`, with the worker it is
at: the pool's start, `doAccept` and its handler, the signal handler with
`pool.stop` (`Quit` in its two calls), `~EventLoopThread` (its unlocked read of
`m_loop`, `Quit`, the join), the closing of the acceptor, and the end. A call on a
destroyed loop sets `misused`; from then on the process may crash at any moment, or
not. That such a call cannot hang is an assumption, so `SignalEndsServer` shows that
the control flow ends, not that undefined behaviour does. `next` is `m_next` with its limit scaled to `NextLimit`.

**MediaSource.** `gop`, `header`, `consumers` are the cache, the three stored
headers and `m_consumers`; a packet is its position in the published stream.
`OnAudio` and `OnVideo` are split between the cache and `dispatch`, and
`AddConsumer` between the headers, each cached packet, the end of `SendGopCache`
and the lock: the places where another thread may come in. Calls by viewers on the
publisher's loop (`local`) run to their end without interruption. Changing the
cache while it is walked, or a header while headers are read, is a data race:
`raced` records it and the model stops, since nothing can be said after it. What is
shown of viewers on other loops therefore holds up to the first data race; that the
race can happen is not prevented by any property.

## 3. Runs

| Run | Configuration | Shows |
|---|---|---|
| `msg_buffer` | default size and read-ahead 3, stream of 9 bytes | the buffer's four invariants |
| `tcp_connection` | two other threads and the loop's, two sends each | write discipline, sender order, refinement of `MsgChannel`; under fairness, delivery or close, and rest after close |
| `rtmp_session` | `K` = 2, two names, two messages, eager and patient client | framing, the transcript of the server, chunk sizes, wrong versions; a patient client is served, a leaving one noticed |
| `rtmp_session_stall` | a client that sends C2 after S1 and waits for the greeting | **violated**: the session can stop for ever |
| `chunk_parse` | chunk streams 3, 64 and 321, all formats, chunk size 1 to 2, extended and wrapping timestamps, empty messages, three messages | delivery in order, nothing held back |
| `chunk_parse_ext_delta` | a peer that uses extended deltas | **violated** |
| `chunk_parse_ext_sticky` | an extended timestamp, then a message without one in several chunks | **violated** |
| `rtmp_command` | 30 messages, cut at every byte, followed by one of six tails | decoding, the calls it leads to, the decoder's bounds |
| `media_source` | two viewers, three packets, a cache of two, two versions of the video header | what holds of cache and viewers on one or several loops |
| `media_source_join` | a viewer on another loop | **violated** |
| `media_source_header` | a keyframe, and the header replaced after it | **violated**: a joining viewer gets a keyframe with another header than its own |
| `tcp_server` | three workers, six accepts, a round robin that starts over after four | the pool's loops run, start and shutdown complete, no thread is left |

A definition whose comment begins with "Mutant:" is a plausible mistake in the code
next to the definition it changes; for every property of a passing run there is one
that makes TLC find the property violated (`mutants` in `PROJECT.json`). No
specification uses them.

### Why the bounds are enough

* `msg_buffer`: three fills are needed to reach a compaction that makes room, one
  that does not, and a second growth; nine bytes give them with every split.
* `tcp_connection`: a message can wait behind a write in progress, behind a posted
  task and behind another of its own sender, from three threads.
* `rtmp_session`: `K` = 2 lets both packets be split and merged with what follows
  (a packet of one unit could not be split); two messages allow createStream
  before and after publish or play.
* `chunk_parse`: three messages on three chunk streams allow two to interleave while
  a third changes the chunk size, and every format to inherit from every other.
  Chunks of one byte make messages of two chunks. Every message of stream 321 has
  an extended timestamp and none of stream 3, since mixing both on one stream is a
  case the code gets wrong (the two violated runs).
* `rtmp_command`: `NumberLen` = 2 tells the byte orders apart. The objects cover each
  way a key can be absent, repeated, empty, in a nested object or of another type;
  the commands each arity, one more and one fewer; the tails leave an object, an
  array or a string open and use markers the decoder does not know. Every message is
  cut at every byte, and the next one is handled after it.
* `media_source`: a group of three packets fills a cache of two; with two viewers
  one may join or leave while the other is in the list or in the cache; the header
  may be set before, between and after the packets, and replaced once, before and
  after a viewer joins.
* `tcp_server`: with three workers one can be before, one at and one behind the one
  main is at, in the start as in the shutdown; six accepts pass the limit of four.
* `media_source_header`: one viewer and one packet are enough for the trace.
* Counters (`MaxSends`, `MaxMessages`, `MaxMsgs`, `MaxPackets`, `MaxHeaders`,
  `MaxBytes`, `MaxAccepts`) only bound the run. Deadlock is checked in
  `rtmp_command`, whose handler always becomes idle again; it is not in the others,
  because they end when their bound is reached and the connection is at rest, or
  when the program has exited.

### Fairness

The loop thread runs as long as the server does, and asio hands it completed
operations and posted tasks in FIFO order, so none that is ready is passed over:
weak fairness of the loop where its queue is a variable (`RtmpSession`), strong
fairness of each kind of handler where it is not (`TcpConnection`). Callbacks are
straight-line code and return. The kernel completes a write of a connected socket
or fails it, and a read when there are bytes or the stream has ended; neither a
peer that stops reading for ever nor a silent network failure is covered: the
server has no timers for them, and then nothing is promised. No other thread has to
send and no client has to send a message or leave; the only fairness of a client is
that it sends C2 once it has what it waits for. In `TcpServer` the threads run (weak
fairness of main and of each worker), and the base loop, being FIFO, does not pass
over an accept or a signal handler that is ready; no connection has to come or end,
no wait has to wake without a notification, and no undefined behaviour has to crash.

### What the violated runs say

* **Stall** (`RtmpHandShake.cpp` 262-273). S2's write completion moves the state
  from `kHandShakePostS2` to `kHandShakeWaitC2`, but only a read calls `HandShake`.
  C2 that was read earlier stays in the buffer. A client that now waits for the
  server's three messages, as the comment at `RtmpContext.cpp` 86-91 says ffmpeg
  and OBS do, waits for ever. Running `HandShake` on the buffer after that change
  of state would close the gap. With a client that sends C2 only after S2 a whole
  C2 can still not be read too early in this model, because S2 is seen by the
  client only when its write has completed and completions are handled in order.
* **Extended delta** (`RtmpChunkParse.cpp` 164): `>` where the format needs `>=`.
* **Sticky extended timestamp** (`RtmpChunkParse.cpp` 96): `has_ext_ts` is copied
  from the previous header and never cleared.
* **Join** (`MediaSource.cpp` 88-92): the cache is sent before the lock is taken.
* **Header** (`MediaSource.cpp` 29-30): `SetVideoHeader` replaces the header and keeps
  the cache. Until the next keyframe a viewer that joins is given the new header and
  then the group that was encoded with the old one, although lines 131-134 promise
  that it can decode at once. Clearing the cache with the header, or keeping the
  header with the group, would mend it. `StoredHeaderKeyframesDecodable` says what
  remains true: a cached keyframe whose header has not been replaced has exactly that
  header before it.

More was seen and has no run:

* The value after `@setDataFrame` is taken for the metadata (`RtmpContext.cpp` 423), but
  the format given at 400-411 has the string `onMetaData` there and the object after
  it. It is skipped only after `@onMetaData`, which no encoder sends. Today only a log
  line reads the result, and the message itself is forwarded as it is.
* `handleSetChunkSize` ignores sizes above 65535, which the comment at
  `RtmpContext.cpp` 586 calls valid, so a peer that uses one is misparsed (set
  `ChunkSizes` above `MaxChunk` to see it).
* A codec header that is set while a viewer is there is stored and not forwarded
  (`MediaSource.cpp` 24-39), so the keyframes that follow need a header that this
  viewer never gets. Nothing in the repository promises it one, and the properties
  speak of the keyframes published before the viewer came.
* When the cache is full it keeps the head of the group, so a viewer that joins
  then has a gap before the first live packet; `LocalViewerUnbroken` therefore
  assumes that the cache held the whole group.
* `Quit` resets the guard before it stops the loop. A worker without connections may
  leave `run`, clear `m_loop` and destroy its loop between the two calls, and the
  second is then made on an object that is gone. The unlocked read in
  `~EventLoopThread` can go stale in the same way. TLC reaches both (`misused`); the
  properties are stated so that they hold or the process has crashed. `NoThreadLeft`
  also says that the destructor's `Quit` is never needed.
* A long string (0x0C) in an AMF0 message is taken for a null, and its bytes for the
  values that follow (`DecodedAsWritten` stops at it); a publish whose name is cut
  off or not a string is accepted with an empty name.

## 4. Proofs

Each theorem holds for every value of the constants that satisfies the module's
named assumption.

**`MsgBufferProofs`**: `TypeOK`, `StreamIntact`, `ReadTargetValid`,
`GrowthBounded`. The four together are inductive once one fact is added: the
ghost `peak` dominates the current backlog. The lemmas `CompactedType` and
`GrownBounds` say what compaction and growth do to the bytes and the size;
one lemma per action shows that it keeps the invariant. The stream's length and
the sizes are arbitrary, so the result is about the real 4096 bytes.

**`TcpConnectionOpsProofs`** is about the record alone: `ConnInv` is what every method
of `TcpConnection` preserves, whoever calls it. `Send` tests `m_writing` while what
matters is whether a write is in progress; `WritingFlag` ties the two (they may differ
only on a closed connection whose write failed), `Pinned` says that the buffer in
progress is the front of the queue, `Awake` that a message in the queue has a write
in progress, `Aborted` what `Close` leaves. There is one lemma per method. The two
modules that own such a record, `TcpConnection` and `RtmpSession`, both use them.

**`TcpConnectionProofs`**: `TypeOK`, `WriteBufferPinned`, `NoLostWakeup`,
`NeverDeaf`, `SenderOrder`, and `ChannelSpec`, the refinement of `MsgChannel`, for any
set of threads and any number of messages. `Inv` is `TypeOK`, `ConnInv` and
`NeverDeaf`; `StepInv` applies the lemmas of the methods to the actions. The
refinement maps the backlog to what the socket has not taken: `KernelWrites` is
`Deliver`, the sends are `Accept`, the steps that close are `Shut`, every other step
stutters. `SenderOrder` is proved of `Log`: the wire, the backlog and the posted
messages, in this order. `LogStep` says all that a step can do to it: another thread
appends to the end, a posted message moves from the posted ones to the end of the
backlog, which leaves `Log` as it is, or the loop's thread puts a message of its own
between the two, where it overtakes only messages of others (`InsertKeepsOrder`).

**`RtmpSessionProofs`**: `TypeOK`, `FramingIntact`, `AnswersInOrder` and `ChunksFit`,
for any size of a handshake packet, any names and any number of messages. `IInv` adds
to `ConnInv` what each part of the session knows of the others. `StreamInv`: what was
handled, the readable bytes and what the socket still has are the client's stream
without what `hs` says the handshake has consumed, wherever the reads were cut; nothing
is handled before the handshake is done. `SentInv` is the form of that stream.
`AnswersInv`: until the handshake is done the server has sent S0S1 and S2 exactly as far
as `hs` says (`Opening`), although half of the states advance on a write; after that,
the greeting and the answers to the messages handled. `ContextInv`: the stream ids in
the context count the `createStream` messages handled, which is what makes the ids in
the answers right. `ChunksFit` is inductive with these. Most of the lemmas are on
sequences (dropping, cutting, concatenating) and serve `StreamInv`, or on the transcript
(`TalkForm`, `TalkGrows`) and serve `AnswersInv`. `OthersUnanswered` is the safety half of
`BadVersionRefused`: `StreamInv` makes the first byte in the buffer the first byte the
client sent, so the handshake leaves its first state only for the right version
(`Accepted`), and until it does nothing was sent.

**`RtmpChunkParseProofs`**: `TypeOK`, `DeliveredIntact` and `NothingHeldBack`, for any
messages, chunk sizes, chunk streams, and every way to cut the stream and to interleave
the chunk streams. The argument is a history that the proof adds: `IsHistory` relates
the chunks `Q[1]`, `Q[2]`, ... sent so far and the parsers `P[0]`, `P[1]`, ..., where
an ideal parser goes from `P[i - 1]` to `P[i]` by reading exactly `Q[i]`. The peer's own
state is determined by the last of them; the invariant `IInv` says that the real parser
is at some `P[r]`, that what it has in the buffer and what the network still carries are
the chunks after the `r`-th (`UnreadIs`), that it has delivered what the first `r`
complete, and that at most it has begun the message of the next chunk already
(`ProgIs`): a chunk of which only the header was there is parsed again from its
start, and `BegunTwice` says that this does no harm. When `Parse` has returned, no
whole chunk is in the buffer (`Returned`). `ChunkRead` is the center: on the bytes of a
chunk, however many others follow, the three outcomes of `parseOneChunk` are the right
ones.

These three theorems have a hypothesis, `Regular`, because without it they are false:
the peer uses no extended deltas (`chunk_parse_ext_delta` violates the property
otherwise), a chunk stream whose messages need more than one chunk does not mix headers
with and without an extended timestamp (`chunk_parse_ext_sticky`), and it announces no
chunk size that `handleSetChunkSize` ignores. Each clause is a defect of the parser, not a limit
of the method. `MCRtmpChunkParse` checks in each run whether its peer is `Regular`: that
of `chunk_parse` is and those of the two violated runs are not.

**`MediaSourceProofs`**: `TypeOK`, `GopFromLatestKeyframe`, `LocalViewerUnbroken`,
`ViewerStartsAtKeyframe`, `ViewerInOrder`, `StoredHeaderKeyframesDecodable` and the
action property `NoDeliveryAfterRemove`, for any set of viewers, any size of the cache and any
number of packets and headers. `IInv` has a part for the cache (`CacheInv`), for the
publisher between the cache and `dispatch` (`PublisherInv`), for the list (`ListInv`),
for the calls that occupy the publisher's loop (`LoopInv`), and for each viewer
(`ViewerInv`): it has been given headers and then packets, in order (`GivenInv`); within
the walk over the cache, the packets walked so far, unless the model has stopped
(`WalkInv`); a keyframe first, and one if the cache is not empty (`StartInv`); one video
header at most, no newer than the stored one and, for every packet published before it
came, no older than that packet's (`HeaderInv`), so that the two are equal while the
packet's header is the stored one; and on the publisher's own
loop, if the cache held the whole group, every packet up to the current one
(`LocalInv`).

**`RtmpCommandProofs`**, on any payload: `TypeOK`, `NestingBounded` and the action
property `DecoderLowers`. `NestingBounded` says that the recursion enters no level
without reading a byte; it does not keep a payload of up to 16 MB of nested objects from
exhausting the native stack, which the models do not have. A measure of the bytes left, the objects open and the place in
the round falls with every step of the decoder. `IInv` adds only which of the decoder's
states have an object open.

On what a sender writes with the encoder: `DecodedAsWritten`, `CommandsUnderstood` and
`AppIsWhatConnectNames`, for any number of values in a message, objects nested to any
depth, strings up to the 65535 bytes that their length can say, any place of the cut and
any bytes behind it. The hypothesis is `EncodedBy(items, lists) /\ WritesOnly(items)`:
every value is a scalar as the encoder writes it, or an object or array whose properties
are values of the same kind; values of a type the decoder does not know may stand
anywhere among those of a message. `MCRtmpCommand` evaluates the hypothesis for its messages
(`SendersEncode`), so the run is an instance of the theorems.

The argument has no induction over the values themselves. It follows the bytes. `At` says
that a sequence of bytes lies at a place in the data, and what lies where is by induction
over the items of a sequence (`StartNext`, `AtItem`), for which `Induction` is derived
from the well-foundedness of the numbers, without an operator as parameter. One lemma
per type says what the decoder reads where a value lies (`ItemIsRead`). For nested
objects the invariant is `Reading`: every object that is open has a frame that names its
list of properties, the place where they begin and how many have been read; those read
are the ones written, the others lie behind `pos`, and the object in the frame below waits
for exactly this one (`Goal`). Each step of the decoder keeps it (`DecoderReading`), so
`Decode` returns what lay at its start and stops where that ends. `MsgInv` carries this
through the values of a message: `Takes` for those that arrived whole, `NothingLeft` for a
handler that asks for more than there are, and `CutShort` for a string cut short: it is
read as empty, and no more than the first byte of a length remains behind it, of which no
string but an empty one can be read. `CommandInv` says that a handler takes as many
values as its command needs; what it then calls follows.

**`TcpServerProofs`**: `TypeOK`, `PooledLoopsRun` and `NoThreadLeft`, for any number of
workers and connections and any limit of the round robin. `IInv` ties what a worker's
thread is doing to `m_loop` and to the loop on its stack (`WorkerInv`), the place where
main is to what has been spawned and put into the pool (`SpawnedInTurn`, `PooledInTurn`),
and the shutdown to the loops it has stopped and the threads it has joined
(`StoppingInv`). `NoneLeft` is the center: while the server serves, every worker's guard
is set, so none can leave `run`.

Only model-checked, of the properties of the passing runs:

* Every liveness property: `SentIsWritten`, `ClosedQuiesces`, `PatientClientServed`,
  `LeavingQuiesces`, `StartCompletes`, `SignalEndsServer`, and `BadVersionRefused`,
  which says that a client of another version is closed in the end (that it is sent
  nothing is proved). Fairness and ENABLED are out of the prover's reach.

Every invariant and every action property that a passing run checks is a theorem.

## 5. Not modelled

* `MediaSourceMgr`: a map behind a mutex. At this commit nothing calls `Find` or
  `FindOrCreate`, so the map is always empty and the `Remove` in `onClose` does
  nothing; `RtmpSession` records what it is called with. A module would have to
  invent the callers.
* The client role of `RtmpHandShake`: nothing instantiates it. Reading it shows that
  it would enter `kHandShakePostC2` without having sent C2 when S2 is late, a state
  that no write leaves.
* The digests of the complex handshake: they change the contents of S1 and S2, which
  nothing in the server looks at again, and never the course of the handshake.
* `RtmpConsumer`: `sendMessage` is a stub that sends nothing.
* The timers of `Eventloop`: nothing calls them. (`RunEvery` would be wrong: its
  handler refers to a local that is gone when it runs.)
* `Eventloop::m_thread_id`, written by the worker after its loop was published: only
  the loop's own handlers reach the functions that read it.
* Logging, time, byte order, `Singleton`, asio and spdlog.

## 6. Plan

Done: the modules of section 2 with their runs, and the proofs of section 4. What is
left, in this order:

1. An abstract specification of a session, a message channel to the server and one
   back, refined by `RtmpSession` as `MsgChannel` is by `TcpConnection`. `StreamInv` and
   `AnswersInv` are the two halves of its refinement mapping.
2. `MediaSourceMgr` and the client role of the handshake, once code uses them.
