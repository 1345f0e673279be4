--------------------------- MODULE RtmpChunkParse ---------------------------
(***************************************************************************)
(* The chunk parser (media/rtmp/RtmpChunkParse.cpp) fed by a peer that     *)
(* cuts messages into chunks as RtmpHeader.h describes the format.         *)
(*                                                                         *)
(* The wire is a sequence of units: a basic header, the timestamp field,   *)
(* the rest of a message header, an extended timestamp, a payload byte.    *)
(* TCP may deliver it in any pieces.  If the parser takes a unit for       *)
(* something it is not, it has lost the chunk boundaries: what follows is  *)
(* read as arbitrary headers.  `derailed' records it and the model stops.  *)
(*                                                                         *)
(* Scaled: TsMax is kMaxTimestampInHeader (0xFFFFFF), timestamps are       *)
(* modulo TsMod (2^32), chunk sizes are a few bytes, and a SetChunkSize    *)
(* message has a payload of one byte.  The message stream id is left out:  *)
(* a chunk stream never changes it.                                        *)
(***************************************************************************)
EXTENDS Integers, Sequences, SequencesExt

CONSTANTS
    Csids,           \* chunk stream ids in use
    DefaultChunk,    \* kDefaultChunkSize
    MaxChunk,        \* kMaxChunkSize
    TsMax, TsMod,
    Timestamps,      \* per chunk stream: timestamps the peer stamps messages with,
    Lengths,         \* lengths of its media messages,
    ChunkSizes,      \* values of its SetChunkSize messages,
    Fmts,            \* header formats it starts messages with
    ExtendedDeltas,  \* it uses fmt 1 and 2 for deltas of TsMax and more
    MaxMsgs          \* bound on the messages it sends

ASSUME RtmpChunkParseAssumption ==
    /\ Csids \subseteq Nat \ {0, 1}
    /\ MaxChunk \in Nat /\ DefaultChunk \in 1 .. MaxChunk
    /\ TsMax \in Nat \ {0} /\ TsMod \in Nat /\ TsMax < TsMod
    /\ Timestamps \in [Csids -> SUBSET (0 .. TsMod - 1)]
    /\ \A c \in Csids : Lengths[c] \subseteq Nat /\ ChunkSizes[c] \subseteq Nat
    /\ Fmts \in [Csids -> SUBSET (0 .. 3)]
    /\ ExtendedDeltas \in BOOLEAN
    /\ MaxMsgs \in Nat

VARIABLES
    enc,        \* peer: the last header it sent on each chunk stream
    cur,        \* peer: the message it is in the middle of, per chunk stream
    outChunk,   \* peer: its chunk size
    completed,  \* peer: the messages it has sent to the last byte, in order
    started,    \* peer: how many messages it has started
    net,        \* units sent and not yet read
    buf,        \* the readable part of the receive buffer
    parsing,    \* Parse's loop is running
    prev,       \* m_prev_headers
    prog,       \* m_in_progress
    inChunk,    \* m_in_chunk_size
    delivered,  \* the messages m_msg_cb was called with, in order
    derailed    \* the parser has lost the chunk boundaries

peerVars == <<enc, cur, outChunk, completed, started>>
parserVars == <<prev, prog, inChunk, delivered, derailed>>
vars == <<enc, cur, outChunk, completed, started, net, buf, parsing, prev, prog,
          inChunk, delivered, derailed>>

MinOf(a, b) == IF a < b THEN a ELSE b

\* RtmpMsgHeader and RtmpMessage as default-constructed.
NoHeader == [ts |-> 0, len |-> 0, type |-> "none", ext |-> FALSE]
NoMessage == [ts |-> 0, len |-> 0, type |-> "none", payload |-> <<>>]

NotSent == [ts |-> 0, len |-> 0, type |-> "none", ext |-> FALSE, used |-> FALSE]
Idle == [ts |-> 0, len |-> 0, type |-> "none", id |-> 0, val |-> 0, done |-> 0]

Init ==
    /\ enc = [c \in Csids |-> NotSent]
    /\ cur = [c \in Csids |-> Idle]
    /\ outChunk = DefaultChunk
    /\ completed = <<>> /\ started = 0
    /\ net = <<>> /\ buf = <<>>
    /\ parsing = FALSE
    /\ prev = [c \in Csids |-> NoHeader]
    /\ prog = [c \in Csids |-> NoMessage]
    /\ inChunk = DefaultChunk
    /\ delivered = <<>>
    /\ derailed = FALSE

-----------------------------------------------------------------------------
(* The peer *)

\* Chunk stream ids from 64 on need a second unit for the basic header, those from
\* 320 on a third, low byte first.
CsidUnits(c) ==
    CASE c < 64 -> <<>>
      [] c \in 64 .. 319 -> <<[k |-> "csid", val |-> c - 64]>>
      [] c > 319 -> <<[k |-> "csid", val |-> (c - 64) % 256],
                      [k |-> "csid", val |-> (c - 64) \div 256]>>

BasicUnits(fmt, c) ==
    <<[k |-> "basic", fmt |-> fmt, csid |-> IF c < 64 THEN c ELSE Len(CsidUnits(c)) - 1,
       val |-> 0]>> \o CsidUnits(c)

\* The i-th payload byte of message id; a SetChunkSize carries its value.
Byte(m, i) == [k |-> "data", id |-> m.id, i |-> i, val |-> m.val]
Bytes(m, from, n) == [i \in 1 .. n |-> Byte(m, from + i)]

MessageUnits(fmt, field, m) ==
    (IF fmt = 3 THEN <<>> ELSE <<[k |-> "ts", val |-> MinOf(field, TsMax)]>>)
    \o (IF fmt \in {0, 1} THEN <<[k |-> "rest", len |-> m.len, type |-> m.type, val |-> 0]>> ELSE <<>>)

ExtUnits(has, v) == IF has THEN <<[k |-> "ext", val |-> v]>> ELSE <<>>

\* The message as it must be delivered.
Whole(m) == [ts |-> m.ts, len |-> m.len, type |-> m.type, payload |-> Bytes(m, 0, m.len)]

\* n more bytes of m have been sent on c: a message that is complete is recorded,
\* and the peer uses a new chunk size from then on.
Advance(c, m, n) ==
    /\ cur' = [cur EXCEPT ![c] = IF m.done + n = m.len THEN Idle ELSE [m EXCEPT !.done = @ + n]]
    /\ completed' = IF m.done + n = m.len THEN Append(completed, Whole(m)) ELSE completed
    /\ outChunk' = IF m.done + n = m.len /\ m.type = "SetChunkSize" /\ m.val > 0
                   THEN m.val ELSE outChunk

NewMessages(c) ==
    {[ts |-> t, len |-> l, type |-> "media", id |-> started + 1, val |-> 0, done |-> 0]
        : t \in Timestamps[c], l \in Lengths[c]}
    \cup {[ts |-> t, len |-> 1, type |-> "SetChunkSize", id |-> started + 1, val |-> v, done |-> 0]
        : t \in Timestamps[c], v \in ChunkSizes[c]}

\* The peer may start m on c with fmt: a format that leaves a field out needs the
\* field to be as in the last header of the chunk stream.
MayUse(fmt, c, m) ==
    LET delta == (m.ts - enc[c].ts) % TsMod
    IN  \/ fmt = 0
        \/ /\ enc[c].used
           /\ fmt \in {1, 2} => delta < TsMax \/ ExtendedDeltas
           /\ fmt \in {2, 3} => m.len = enc[c].len /\ m.type = enc[c].type
           /\ fmt = 3 => delta = 0

StartMessage(c, fmt, m) ==
    LET delta == (m.ts - enc[c].ts) % TsMod
        field == IF fmt = 0 THEN m.ts ELSE delta
        ext   == IF fmt = 3 THEN enc[c].ext ELSE field >= TsMax
        n     == MinOf(m.len, outChunk)
    IN  /\ started < MaxMsgs
        /\ cur[c] = Idle
        /\ MayUse(fmt, c, m)
        /\ started' = started + 1
        /\ enc' = [enc EXCEPT ![c] = [ts |-> m.ts, len |-> m.len, type |-> m.type,
                                      ext |-> ext, used |-> TRUE]]
        /\ net' = net \o BasicUnits(fmt, c) \o MessageUnits(fmt, field, m)
                      \o ExtUnits(ext, IF fmt = 3 THEN m.ts ELSE field) \o Bytes(m, 0, n)
        /\ Advance(c, m, n)
        /\ UNCHANGED <<buf, parsing, parserVars>>

\* The next chunk of the message on c; its header is left out, an extended
\* timestamp is repeated.
ContinueMessage(c) ==
    LET m == cur[c]
        n == MinOf(m.len - m.done, outChunk)
    IN  /\ m # Idle
        /\ net' = net \o BasicUnits(3, c) \o ExtUnits(enc[c].ext, m.ts) \o Bytes(m, m.done, n)
        /\ Advance(c, m, n)
        /\ UNCHANGED <<enc, started, buf, parsing, parserVars>>

-----------------------------------------------------------------------------
(* The parser *)

AtBoundary(b) == b = <<>> \/ Head(b).k = "basic"

\* The read handler appends what arrived and calls Parse.
Read(n) ==
    /\ ~parsing
    /\ n \in 1 .. Len(net)
    /\ buf' = buf \o SubSeq(net, 1, n)
    /\ net' = SubSeq(net, n + 1, Len(net))
    /\ parsing' = TRUE
    /\ derailed' = ~AtBoundary(buf')
    /\ UNCHANGED <<peerVars, prev, prog, inChunk, delivered>>

\* kMsgHeaderSize, in units.
HeaderSize == [fmt \in 0 .. 3 |-> CASE fmt \in {0, 1} -> 2 [] fmt = 2 -> 1 [] fmt = 3 -> 0]

\* parseBasicHeader: its length, the format, and the chunk stream.
BasicLen == IF buf[1].csid = 0 THEN 2 ELSE IF buf[1].csid = 1 THEN 3 ELSE 1
Fmt == buf[1].fmt
Csid ==
    CASE buf[1].csid = 0 -> buf[2].val + 64
      [] buf[1].csid = 1 -> buf[3].val * 256 + buf[2].val + 64
      [] buf[1].csid > 1 -> buf[1].csid

BasicAndMessageLen == BasicLen + HeaderSize[Fmt]

\* The 3-byte timestamp or delta field.
Field == buf[BasicLen + 1].val
Rest  == buf[BasicLen + 2]

\* Step 4: the header, with what the format leaves out copied from p.
ReadHeader(p) ==
    CASE Fmt = 0 -> [p EXCEPT !.ts = Field, !.len = Rest.len, !.type = Rest.type]
      [] Fmt = 1 -> [p EXCEPT !.ts = (@ + Field) % TsMod, !.len = Rest.len, !.type = Rest.type]
      [] Fmt = 2 -> [p EXCEPT !.ts = (@ + Field) % TsMod]
      [] Fmt = 3 -> p

\* Mutant: fmt 0 tests for a field greater than the mark, as fmt 1 and 2 do.
HasExt_Greater(p) ==
    CASE Fmt \in {0, 1, 2} -> Field > TsMax
      [] Fmt = 3 -> p.ext

\* Step 5: whether an extended timestamp follows.  fmt 1 and 2 test for a delta
\* greater than the field can hold.
HasExt(p) ==
    CASE Fmt = 0 -> Field >= TsMax
      [] Fmt \in {1, 2} -> Field > TsMax
      [] Fmt = 3 -> p.ext

TotalHeaderLen(p) == BasicAndMessageLen + IF HasExt(p) THEN 1 ELSE 0

\* The header with its extended timestamp; has_ext_ts is set here and, being copied
\* from the previous header, never cleared.
FullHeader(p) ==
    LET h == ReadHeader(p)
    IN  IF HasExt(p) THEN [h EXCEPT !.ts = buf[TotalHeaderLen(p)].val, !.ext = TRUE] ELSE h

IsComplete(m) == Len(m.payload) >= m.len

\* Step 6: the message the chunk belongs to, before its data is added.
InProgress(m, h) ==
    IF Fmt = 0 \/ IsComplete(m)
    THEN [ts |-> h.ts, len |-> h.len, type |-> h.type, payload |-> <<>>]
    ELSE [m EXCEPT !.ts = h.ts,
                   !.len = IF Fmt = 1 THEN h.len ELSE @,
                   !.type = IF Fmt = 1 THEN h.type ELSE @]

DataSize(m) == MinOf(m.len - Len(m.payload), inChunk)

\* parseOneChunk finds all the headers it expects; it asks again after each part.
HeaderComplete ==
    /\ Len(buf) >= BasicLen
    /\ Len(buf) >= BasicAndMessageLen
    /\ Len(buf) >= TotalHeaderLen(prev[Csid])

\* Parse returns: the buffer is empty or the header is not all there.
WaitForHeader ==
    /\ parsing
    /\ buf # <<>> => ~HeaderComplete
    /\ parsing' = FALSE
    /\ UNCHANGED <<peerVars, net, buf, parserVars>>

\* The chunk at the front of the buffer, its header being there.
Chunk ==
    LET p == prev[Csid]
        h == FullHeader(p)
        m == InProgress(prog[Csid], h)
    IN  [csid |-> Csid, header |-> h, msg |-> m,
         headerLen |-> TotalHeaderLen(p), dataLen |-> DataSize(m)]

HeaderThere == parsing /\ buf # <<>> /\ HeaderComplete

\* Parse returns before the data of the chunk is all there; the message in
\* progress has taken the header already.
WaitForData ==
    /\ HeaderThere
    /\ LET ch == Chunk
       IN  /\ Len(buf) < ch.headerLen + ch.dataLen
           /\ prog' = [prog EXCEPT ![ch.csid] = ch.msg]
    /\ parsing' = FALSE
    /\ UNCHANGED <<peerVars, net, buf, prev, inChunk, delivered, derailed>>

\* The units the parser takes for an extended timestamp and for data are that.
Recognised(ch) ==
    /\ ch.headerLen > BasicAndMessageLen => buf[ch.headerLen].k = "ext"
    /\ \A i \in 1 .. ch.dataLen : buf[ch.headerLen + i].k = "data"

\* Mutant: a chunk size of 0 is accepted.
SetInChunkSize_Zero(v) == inChunk' = IF v > MaxChunk THEN inChunk ELSE v

\* handleSetChunkSize ignores 0 and what is above kMaxChunkSize.
SetInChunkSize(v) == inChunk' = IF v = 0 \/ v > MaxChunk THEN inChunk ELSE v

\* Mutant: Parse handles one chunk per call.
KeepParsing_Once == parsing' = FALSE

\* Parse's loop goes on after a chunk.
KeepParsing == parsing' = TRUE

\* Steps 7 to 9: the data is added and the chunk retrieved; a complete message is
\* delivered, and a SetChunkSize takes effect within the callback.
ParseChunk ==
    /\ HeaderThere
    /\ LET ch == Chunk
           m  == [ch.msg EXCEPT !.payload =
                     @ \o SubSeq(buf, ch.headerLen + 1, ch.headerLen + ch.dataLen)]
       IN  /\ Len(buf) >= ch.headerLen + ch.dataLen
           /\ buf' = SubSeq(buf, ch.headerLen + ch.dataLen + 1, Len(buf))
           /\ derailed' = ~(Recognised(ch) /\ AtBoundary(buf'))
           /\ prev' = [prev EXCEPT ![ch.csid] = ch.header]
           /\ IF IsComplete(m)
              THEN /\ delivered' = Append(delivered, m)
                   /\ prog' = [prog EXCEPT ![ch.csid] = NoMessage]
                   /\ IF m.type = "SetChunkSize"
                      THEN SetInChunkSize(m.payload[1].val)
                      ELSE inChunk' = inChunk
              ELSE /\ prog' = [prog EXCEPT ![ch.csid] = m]
                   /\ UNCHANGED <<delivered, inChunk>>
    /\ KeepParsing
    /\ UNCHANGED <<peerVars, net>>

-----------------------------------------------------------------------------

PeerStep ==
    \E c \in Csids :
        \/ \E fmt \in Fmts[c], m \in NewMessages(c) : StartMessage(c, fmt, m)
        \/ ContinueMessage(c)

ParserStep ==
    /\ ~derailed
    /\ \/ \E n \in 1 .. Len(net) : Read(n)
       \/ WaitForHeader \/ WaitForData \/ ParseChunk

Next == PeerStep \/ ParserStep

Spec == Init /\ [][Next]_vars

-----------------------------------------------------------------------------

Types == {"none", "media", "SetChunkSize"}

TypeOK ==
    /\ outChunk \in Nat /\ started \in 0 .. MaxMsgs
    /\ parsing \in BOOLEAN /\ derailed \in BOOLEAN
    /\ inChunk \in 1 .. MaxChunk
    /\ \A c \in Csids :
        /\ prev[c].ts \in 0 .. TsMod - 1 /\ prev[c].len \in Nat
        /\ prev[c].type \in Types /\ prev[c].ext \in BOOLEAN
        /\ prog[c].type \in Types /\ Len(prog[c].payload) <= prog[c].len

\* The parser never mistakes one part of the stream for another, and delivers the
\* peer's messages whole, unmixed, with their timestamp, type and length, in the
\* order they were finished, however chunks interleave and bytes arrive.
DeliveredIntact ==
    /\ ~derailed
    /\ IsPrefix(delivered, completed)

\* The parser never waits for bytes that are not coming: when everything sent has
\* been read and Parse has returned, every finished message has been delivered and
\* the buffer is empty.
NothingHeldBack ==
    net = <<>> /\ ~parsing /\ ~derailed => delivered = completed /\ buf = <<>>

-----------------------------------------------------------------------------
(* A peer that keeps to what the parser handles *)

NeverExtended(c) == \A t \in Timestamps[c] : t < TsMax

AlwaysExtended(c) ==
    /\ \A t \in Timestamps[c] : t >= TsMax
    /\ Fmts[c] \subseteq {0, 3}

\* Every message fits every chunk size in use, and none starts with a short header.
OneChunk(c) ==
    /\ 3 \notin Fmts[c]
    /\ \A l \in Lengths[c] :
        l <= DefaultChunk /\ \A d \in Csids : \A v \in ChunkSizes[d] : v = 0 \/ l <= v

\* No delta that needs an extended timestamp: HasExt tests for the wrong bound.  No
\* chunk stream that has timestamps of both kinds and headers of format 3: has_ext_ts
\* is not cleared.  No chunk size above kMaxChunkSize: handleSetChunkSize ignores it.
Regular ==
    /\ ~ExtendedDeltas
    /\ \A c \in Csids :
        /\ NeverExtended(c) \/ AlwaysExtended(c) \/ OneChunk(c)
        /\ ChunkSizes[c] \subseteq 0 .. MaxChunk

=============================================================================
