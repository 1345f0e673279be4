------------------------- MODULE RtmpChunkParseProofs -------------------------
(***************************************************************************)
(* For any chunk streams, messages, chunk sizes and any cutting of the     *)
(* stream into reads: the parser delivers what the peer sent, whole, in    *)
(* order and without waiting for bytes that do not come, if the peer keeps *)
(* to what the parser handles (Regular, in RtmpChunkParse).                *)
(*                                                                         *)
(* The invariant says that there is a history: the chunks sent so far, and *)
(* for each of them the parser that has read everything before it.  The    *)
(* peer is where the last of these parsers is, the parser is one of them.  *)
(***************************************************************************)
EXTENDS RtmpChunkParse, SequenceTheorems, TLAPS

-----------------------------------------------------------------------------
(* Chunks, and a parser that reads them *)

Header == [ts : 0 .. TsMod - 1, len : Nat, type : Types, ext : BOOLEAN]

DataUnit == [k : {"data"}, id : Nat, i : Nat, val : Nat]

Unit ==
    DataUnit
    \cup [k : {"basic"}, fmt : 0 .. 3, csid : Nat, val : Nat]
    \cup [k : {"csid", "ts", "ext"}, val : Nat]
    \cup [k : {"rest"}, len : Nat, type : Types, val : Nat]

Message ==
    {m \in [ts : 0 .. TsMod - 1, len : Nat, type : Types, payload : Seq(DataUnit)] :
        Len(m.payload) <= m.len}

ChunkSent ==
    [csid : Csids, fmt : 0 .. 3, field : 0 .. TsMod - 1, len : Nat, type : Types,
     ext : BOOLEAN, val : 0 .. TsMod - 1, body : Seq(DataUnit)]

\* The units of a chunk, and how many of them are its header.
Units(q) ==
    BasicUnits(q.fmt, q.csid) \o MessageUnits(q.fmt, q.field, q)
    \o ExtUnits(q.ext, q.val) \o q.body

BasicSize(c) == IF c < 64 THEN 1 ELSE IF c < 320 THEN 2 ELSE 3

FieldSize(fmt) == IF fmt = 3 THEN 0 ELSE 1

RestSize(fmt) == IF fmt \in {0, 1} THEN 1 ELSE 0

HeadSize(q) ==
    BasicSize(q.csid) + FieldSize(q.fmt) + RestSize(q.fmt) + IF q.ext THEN 1 ELSE 0

\* A parser between two chunks.
Parser ==
    [prev : [Csids -> Header], prog : [Csids -> Message],
     chunk : 1 .. MaxChunk, out : Seq(Message)]

\* What reading chunk q does to a parser s: the header, given the previous one, the
\* message before and after the data of the chunk, the parser afterwards.
HeaderOf(p, q) ==
    [ts   |-> IF q.ext THEN q.val
              ELSE IF q.fmt = 0 THEN q.field
              ELSE IF q.fmt = 3 THEN p.ts
              ELSE (p.ts + q.field) % TsMod,
     len  |-> IF q.fmt \in {0, 1} THEN q.len ELSE p.len,
     type |-> IF q.fmt \in {0, 1} THEN q.type ELSE p.type,
     ext  |-> q.ext \/ p.ext]

Begun(s, q) ==
    LET m == s.prog[q.csid]
        h == HeaderOf(s.prev[q.csid], q)
        new == IsComplete(m)
    IN  [ts |-> h.ts,
         len |-> IF new THEN h.len ELSE m.len,
         type |-> IF new THEN h.type ELSE m.type,
         payload |-> IF new THEN <<>> ELSE m.payload]

Taken(s, q) == [Begun(s, q) EXCEPT !.payload = @ \o q.body]

NewChunk(n, v) == IF v = 0 \/ v > MaxChunk THEN n ELSE v

After(s, q) ==
    LET m == Taken(s, q)
        done == IsComplete(m)
    IN  [prev  |-> [s.prev EXCEPT ![q.csid] = HeaderOf(s.prev[q.csid], q)],
         prog  |-> [s.prog EXCEPT ![q.csid] = IF done THEN NoMessage ELSE m],
         chunk |-> IF done /\ m.type = "SetChunkSize"
                   THEN NewChunk(s.chunk, m.payload[1].val) ELSE s.chunk,
         out   |-> IF done THEN Append(s.out, m) ELSE s.out]

\* The header p before q tells whether q has an extended timestamp.
ExtensionKnown(p, q) ==
    /\ q.fmt = 0 => (q.ext <=> q.field >= TsMax)
    /\ q.fmt \in {1, 2} => ~q.ext /\ q.field < TsMax
    /\ q.fmt = 3 => q.ext = p.ext

\* The parser s takes every part of q for what it is.
Readable(s, q) ==
    /\ ExtensionKnown(s.prev[q.csid], q)
    /\ IsComplete(s.prog[q.csid]) \/ q.fmt = 3
    /\ Len(q.body) = MinOf(Begun(s, q).len - Len(Begun(s, q).payload), s.chunk)

-----------------------------------------------------------------------------
(* The inductive invariant *)

\* The history: chunk Q[i] takes the parser P[i - 1] to P[i], and lies in the stream
\* W after at[i - 1].
IsHistory(n, Q, P, at, W) ==
    /\ n \in Nat /\ W \in Seq(Unit) /\ Len(W) = at[n] /\ at[0] = 0
    /\ \A i \in 0 .. n : P[i] \in Parser /\ at[i] \in Nat /\ at[i] <= at[n]
    /\ \A i \in 1 .. n :
        /\ Q[i] \in ChunkSent
        /\ Readable(P[i - 1], Q[i])
        /\ P[i] = After(P[i - 1], Q[i])
        /\ at[i] = at[i - 1] + Len(Units(Q[i]))
        /\ \A j \in 1 .. Len(Units(Q[i])) : W[at[i - 1] + j] = Units(Q[i])[j]

\* The peer's view of a chunk stream, and of the parser that has read everything.
PeerType ==
    /\ enc \in [Csids -> [ts : 0 .. TsMod - 1, len : Nat, type : Types,
                          ext : BOOLEAN, used : BOOLEAN]]
    /\ cur \in [Csids -> [ts : 0 .. TsMod - 1, len : Nat, type : Types, id : Nat,
                          val : Nat, done : Nat]]
    /\ outChunk \in 1 .. MaxChunk /\ started \in 0 .. MaxMsgs
    /\ completed \in Seq(Message)

\* A message in progress has the fields of the last header, and some of it is sent.
SendingInv(c) ==
    cur[c] # Idle =>
        /\ cur[c].done \in 1 .. cur[c].len - 1
        /\ cur[c].ts = enc[c].ts /\ cur[c].len = enc[c].len /\ cur[c].type = enc[c].type
        /\ cur[c].type = "media"

\* Whether a timestamp is extended does not change where format 3 is used.
ExtendedInv(s, c) ==
    \/ NeverExtended(c) /\ ~enc[c].ext /\ ~s.prev[c].ext
    \/ AlwaysExtended(c) /\ enc[c].ext = enc[c].used /\ s.prev[c].ext = enc[c].used
    \/ OneChunk(c) /\ cur[c] = Idle

\* No message of one chunk is longer than the chunk size.
ChunkInv ==
    \A c \in Csids : OneChunk(c) => \A l \in Lengths[c] : l <= outChunk

PeerIs(s) ==
    /\ s.chunk = outChunk /\ s.out = completed
    /\ \A c \in Csids :
        /\ s.prev[c].ts = enc[c].ts /\ s.prev[c].len = enc[c].len
        /\ s.prev[c].type = enc[c].type
        /\ ExtendedInv(s, c)
        /\ s.prog[c] =
            IF cur[c] = Idle THEN NoMessage
            ELSE [ts |-> cur[c].ts, len |-> cur[c].len, type |-> cur[c].type,
                  payload |-> Bytes(cur[c], 0, cur[c].done)]

PeerInv == PeerType /\ ChunkInv /\ \A c \in Csids : SendingInv(c)

\* What has not been parsed is the stream after at[r].
UnreadIs(r, n, at, W) ==
    /\ buf \in Seq(Unit) /\ net \in Seq(Unit)
    /\ Len(buf) + Len(net) = at[n] - at[r]
    /\ \A j \in 1 .. Len(buf) : buf[j] = W[at[r] + j]
    /\ \A j \in 1 .. Len(net) : net[j] = W[at[r] + Len(buf) + j]

\* The parser is s, except that it may have seen the header of a chunk before.
ProgIs(s, r, n, Q) ==
    \/ prog = s.prog
    \/ r < n /\ prog = [s.prog EXCEPT ![Q[r + 1].csid] = Begun(s, Q[r + 1])]

ParserIs(s) == prev = s.prev /\ inChunk = s.chunk /\ delivered = s.out

\* Parse has returned: there is no whole chunk.
Returned(r, n, Q) == ~parsing => r = n \/ Len(buf) < Len(Units(Q[r + 1]))

Explains(r, n, Q, P, at, W) ==
    /\ IsHistory(n, Q, P, at, W) /\ r \in 0 .. n
    /\ \A i \in 0 .. n : IsPrefix(P[i].out, completed)
    /\ PeerIs(P[n])
    /\ UnreadIs(r, n, at, W)
    /\ ParserIs(P[r]) /\ ProgIs(P[r], r, n, Q)
    /\ Returned(r, n, Q)

IInv ==
    /\ PeerInv /\ parsing \in BOOLEAN /\ derailed = FALSE
    /\ \E r, n, Q, P, at, W : Explains(r, n, Q, P, at, W)

-----------------------------------------------------------------------------
(* Arithmetic *)

\* A delta modulo M, added modulo M, gives the timestamp back.
LEMMA ModBack ==
    ASSUME NEW M \in Nat \ {0}, NEW a \in 0 .. M - 1, NEW b \in 0 .. M - 1
    PROVE  /\ (a - b) % M \in 0 .. M - 1
           /\ (b + ((a - b) % M)) % M = a
           /\ (a - b) % M = 0 => a = b
<1>1. CASE a >= b
  <2>1. (a - b) % M = a - b
    BY <1>1
  <2>2. QED
    BY <1>1, <2>1
<1>2. CASE a < b
  <2>1. (a - b) % M = a - b + M
    BY <1>2
  <2>2. QED
    BY <1>2, <2>1
<1>3. QED
  BY <1>1, <1>2

\* The two bytes of a chunk stream id.
LEMMA DivMod ==
    ASSUME NEW n \in Nat
    PROVE  n = 256 * (n \div 256) + (n % 256)
OBVIOUS

\* A number is its low byte and 256 times its high byte.
LEMMA LowAndHigh ==
    ASSUME NEW n \in Nat
    PROVE  n % 256 \in Nat /\ n \div 256 \in Nat /\ (n \div 256) * 256 + (n % 256) = n
<1>1. n % 256 \in Nat
  OBVIOUS
<1>2. n \div 256 \in Nat
  OBVIOUS
<1>3. QED
  BY <1>1, <1>2, DivMod

\* What is assumed of the constants that bound the others.
LEMMA Limits ==
    /\ Csids \subseteq Nat \ {0, 1}
    /\ MaxChunk \in Nat /\ DefaultChunk \in 1 .. MaxChunk
    /\ TsMax \in Nat \ {0} /\ TsMod \in Nat \ {0} /\ TsMax < TsMod
    /\ MaxMsgs \in Nat
BY RtmpChunkParseAssumption

-----------------------------------------------------------------------------
(* Sequences *)

\* Concatenation, kept whole where its definition is in the way.
Cat(s, t) == s \o t

\* An element of a sequence over S is in S.
LEMMA SeqElement ==
    ASSUME NEW S, NEW s \in Seq(S), NEW i \in 1 .. Len(s)
    PROVE  s[i] \in S
BY ElementOfSeq

\* The elements of a concatenation are those of its two parts.
LEMMA CatIs ==
    ASSUME NEW S, NEW s \in Seq(S), NEW t \in Seq(S)
    PROVE  /\ s \o t \in Seq(S) /\ Len(s \o t) = Len(s) + Len(t)
           /\ \A i \in 1 .. Len(s) : (s \o t)[i] = s[i]
           /\ \A i \in 1 .. Len(t) : (s \o t)[Len(s) + i] = t[i]
<1>1. Len(s) \in Nat /\ Len(t) \in Nat
  BY LenProperties
<1>2. /\ s \o t \in Seq(S) /\ Len(s \o t) = Len(s) + Len(t)
      /\ \A i \in 1 .. Len(s) + Len(t) : (s \o t)[i] = IF i <= Len(s) THEN s[i] ELSE t[i - Len(s)]
  BY ConcatProperties
<1> DEFINE u == s \o t
<1>3. \A i \in 1 .. Len(s) + Len(t) : u[i] = IF i <= Len(s) THEN s[i] ELSE t[i - Len(s)]
  BY <1>2
<1> HIDE DEF u
<1>4. \A i \in 1 .. Len(s) : u[i] = s[i]
  BY <1>1, <1>3
<1>5. \A i \in 1 .. Len(t) : u[Len(s) + i] = t[i]
  <2>1. ASSUME NEW i \in 1 .. Len(t) PROVE u[Len(s) + i] = t[i]
    <3>1. Len(s) + i \in 1 .. Len(s) + Len(t) /\ ~(Len(s) + i <= Len(s)) /\ Len(s) + i - Len(s) = i
      BY <1>1
    <3>2. QED
      BY <1>3, <3>1
  <2>2. QED
    BY <2>1
<1>6. QED
  BY <1>2, <1>4, <1>5 DEF u

\* Concatenation is associative.
LEMMA CatAssoc ==
    ASSUME NEW S, NEW a \in Seq(S), NEW b \in Seq(S), NEW c \in Seq(S)
    PROVE  Cat(Cat(a, b), c) = Cat(a, Cat(b, c))
BY ConcatAssociative DEF Cat

\* What follows the first n elements.
LEMMA RestIs ==
    ASSUME NEW S, NEW s \in Seq(S), NEW n \in 0 .. Len(s)
    PROVE  /\ SubSeq(s, n + 1, Len(s)) \in Seq(S)
           /\ Len(SubSeq(s, n + 1, Len(s))) = Len(s) - n
           /\ \A i \in 1 .. Len(s) - n : SubSeq(s, n + 1, Len(s))[i] = s[n + i]
<1>1. Len(s) \in Nat /\ n + 1 \in Int /\ n \in Nat
  BY LenProperties
<1>2. ASSUME NEW i \in n + 1 .. Len(s) PROVE s[i] \in S
  <2>1. i \in 1 .. Len(s)
    BY <1>1
  <2> QED BY <2>1, SeqElement
<1>3. /\ SubSeq(s, n + 1, Len(s)) \in Seq(S)
      /\ Len(SubSeq(s, n + 1, Len(s))) = IF n + 1 <= Len(s) THEN Len(s) - (n + 1) + 1 ELSE 0
      /\ \A i \in 1 .. Len(s) - (n + 1) + 1 :
            SubSeq(s, n + 1, Len(s))[i] = s[n + 1 + i - 1]
  BY <1>1, <1>2, SubSeqProperties
<1> DEFINE d == SubSeq(s, n + 1, Len(s))
<1>4. d \in Seq(S) /\ Len(d) = Len(s) - n
  BY <1>1, <1>3
<1>5. \A i \in 1 .. Len(s) - (n + 1) + 1 : d[i] = s[n + 1 + i - 1]
  BY <1>3
<1> HIDE DEF d
<1>6. ASSUME NEW i \in 1 .. Len(s) - n PROVE d[i] = s[n + i]
  <2>1. i \in 1 .. Len(s) - (n + 1) + 1 /\ n + 1 + i - 1 = n + i
    BY <1>1
  <2> QED BY <1>5, <2>1
<1> QED BY <1>4, <1>6 DEF d

\* The elements from m + 1 to m + n.
LEMMA PartIs ==
    ASSUME NEW S, NEW s \in Seq(S), NEW m \in Nat, NEW n \in Nat, m + n <= Len(s)
    PROVE  /\ SubSeq(s, m + 1, m + n) \in Seq(S)
           /\ Len(SubSeq(s, m + 1, m + n)) = n
           /\ \A i \in 1 .. n : SubSeq(s, m + 1, m + n)[i] = s[m + i]
<1>1. Len(s) \in Nat /\ m + 1 \in Int /\ m + n \in Int
  BY LenProperties
<1>2. ASSUME NEW i \in m + 1 .. m + n PROVE s[i] \in S
  <2>1. i \in 1 .. Len(s)
    BY <1>1
  <2> QED BY <2>1, SeqElement
<1>3. /\ SubSeq(s, m + 1, m + n) \in Seq(S)
      /\ Len(SubSeq(s, m + 1, m + n)) = IF m + 1 <= m + n THEN (m + n) - (m + 1) + 1 ELSE 0
      /\ \A i \in 1 .. (m + n) - (m + 1) + 1 :
            SubSeq(s, m + 1, m + n)[i] = s[m + 1 + i - 1]
  BY <1>1, <1>2, SubSeqProperties
<1> DEFINE d == SubSeq(s, m + 1, m + n)
<1>4. d \in Seq(S) /\ Len(d) = n
  BY <1>1, <1>3
<1>5. \A i \in 1 .. (m + n) - (m + 1) + 1 : d[i] = s[m + 1 + i - 1]
  BY <1>3
<1> HIDE DEF d
<1>6. ASSUME NEW i \in 1 .. n PROVE d[i] = s[m + i]
  <2>1. i \in 1 .. (m + n) - (m + 1) + 1 /\ m + 1 + i - 1 = m + i
    BY <1>1
  <2> QED BY <1>5, <2>1
<1> QED BY <1>4, <1>6 DEF d

\* Prefixes.
LEMMA PrefixSame ==
    ASSUME NEW S, NEW s \in Seq(S)
    PROVE  IsPrefix(s, s)
BY LenProperties DEF IsPrefix

\* A prefix stays one when the sequence grows.
LEMMA PrefixGrows ==
    ASSUME NEW S, NEW s \in Seq(S), NEW t \in Seq(S), NEW x \in S, IsPrefix(s, t)
    PROVE  IsPrefix(s, Append(t, x))
<1>1. Len(s) \in Nat /\ Len(t) \in Nat /\ Len(s) <= Len(t)
  BY LenProperties DEF IsPrefix
<1> QED BY <1>1 DEF IsPrefix

-----------------------------------------------------------------------------
(* The layout of a chunk *)

\* Sequences of one, two and three units.
LEMMA OneIs ==
    ASSUME NEW S, NEW x \in S
    PROVE  <<x>> \in Seq(S) /\ Len(<<x>>) = 1 /\ <<x>>[1] = x
OBVIOUS

LEMMA TwoAre ==
    ASSUME NEW S, NEW x \in S, NEW y \in S, NEW s, s = <<x>> \o <<y>>
    PROVE  s \in Seq(S) /\ Len(s) = 2 /\ s[1] = x /\ s[2] = y
OBVIOUS

LEMMA ThreeAre ==
    ASSUME NEW S, NEW x \in S, NEW y \in S, NEW z \in S, NEW s, s = <<x>> \o <<y, z>>
    PROVE  s \in Seq(S) /\ Len(s) = 3 /\ s[1] = x /\ s[2] = y /\ s[3] = z
OBVIOUS

\* The basic header of format fmt on chunk stream c.
IsBasic(b, fmt, c) ==
    /\ b \in Seq(Unit) /\ Len(b) = BasicSize(c)
    /\ b[1].k = "basic" /\ b[1].fmt = fmt
    /\ b[1].csid = IF c < 64 THEN c ELSE IF c < 320 THEN 0 ELSE 1
    /\ c >= 64 /\ c < 320 => b[2].val = c - 64
    /\ c >= 320 => b[3].val * 256 + b[2].val + 64 = c

\* The basic header says the format and the chunk stream.
LEMMA BasicIs ==
    ASSUME NEW fmt \in 0 .. 3, NEW c \in Nat \ {0, 1}
    PROVE  IsBasic(BasicUnits(fmt, c), fmt, c)
<1>1. PICK b : b = BasicUnits(fmt, c)
  OBVIOUS
<1>2. PICK n : n = IF c < 64 THEN c ELSE IF c < 320 THEN 0 ELSE 1
  OBVIOUS
<1>3. n \in Nat
  BY <1>2
<1>4. PICK f : f = [k |-> "basic", fmt |-> fmt, csid |-> n, val |-> 0]
  OBVIOUS
<1>5. f \in Unit /\ f.k = "basic" /\ f.fmt = fmt /\ f.csid = n
  BY <1>4, <1>3 DEF Unit
<1>6. CASE c < 64
  <2>1. c < 64 /\ c \notin 64 .. 319 /\ ~(c > 319)
    BY <1>6
  <2>2. CsidUnits(c) = <<>>
    BY <2>1 DEF CsidUnits
  <2>3. b = <<f>>
    BY <1>1, <1>4, <1>2, <2>1, <2>2 DEF BasicUnits
  <2>4. b \in Seq(Unit) /\ Len(b) = 1 /\ b[1] = f
    BY <1>5, <2>3, OneIs
  <2>5. IsBasic(b, fmt, c)
    BY <1>2, <1>5, <1>6, <2>4 DEF BasicSize, IsBasic
  <2>6. QED
    BY <1>1, <2>5
<1>7. CASE c >= 64 /\ c < 320
  <2>1. c \in 64 .. 319 /\ ~(c < 64) /\ ~(c > 319) /\ c - 64 \in Nat
    BY <1>7
  <2>2. PICK l : l = [k |-> "csid", val |-> c - 64]
    OBVIOUS
  <2>3. l \in Unit /\ l.val = c - 64
    BY <2>1, <2>2 DEF Unit
  <2>4. CsidUnits(c) = <<l>>
    BY <2>1, <2>2 DEF CsidUnits
  <2>5. b = <<f>> \o <<l>>
    BY <1>1, <1>4, <1>2, <2>1, <2>4 DEF BasicUnits
  <2>6. b \in Seq(Unit) /\ Len(b) = 2 /\ b[1] = f /\ b[2] = l
    BY <1>5, <2>3, <2>5, TwoAre
  <2>7. IsBasic(b, fmt, c)
    BY <1>2, <1>5, <1>7, <2>3, <2>6 DEF BasicSize, IsBasic
  <2>8. QED
    BY <1>1, <2>7
<1>8. CASE c >= 320
  <2>1. c > 319 /\ ~(c < 64) /\ c \notin 64 .. 319 /\ c - 64 \in Nat
    BY <1>8
  <2>2. PICK l : l = [k |-> "csid", val |-> (c - 64) % 256]
    OBVIOUS
  <2>3. PICK g : g = [k |-> "csid", val |-> (c - 64) \div 256]
    OBVIOUS
  <2>4. (c - 64) % 256 \in Nat /\ (c - 64) \div 256 \in Nat
    BY <2>1, LowAndHigh
  <2>5. l \in Unit /\ g \in Unit
    BY <2>2, <2>3, <2>4 DEF Unit
  <2>6. l.val \in Nat /\ g.val \in Nat /\ g.val * 256 + l.val = c - 64
    BY <2>1, <2>2, <2>3, LowAndHigh
  <2>7. CsidUnits(c) = <<l, g>>
    BY <2>1, <2>2, <2>3 DEF CsidUnits
  <2>8. Len(<<l, g>>) - 1 = n
    BY <1>2, <2>1
  <2>9. b = <<f>> \o <<l, g>>
    BY <1>1, <1>4, <1>2, <2>1, <2>7, <2>8 DEF BasicUnits
  <2>10. b \in Seq(Unit) /\ Len(b) = 3 /\ b[1] = f /\ b[2] = l /\ b[3] = g
    BY <1>5, <2>5, <2>9, ThreeAre
  <2>11. b[3].val * 256 + b[2].val + 64 = c
    BY <2>6, <2>10
  <2>12. IsBasic(b, fmt, c)
    BY <1>2, <1>5, <1>8, <2>10, <2>11 DEF BasicSize, IsBasic
  <2>13. QED
    BY <1>1, <2>12
<1>9. QED
  BY <1>1, <1>6, <1>7, <1>8

\* The message header has the fields its format carries.
LEMMA MessageIs ==
    ASSUME NEW q \in ChunkSent, NEW u, u = MessageUnits(q.fmt, q.field, q)
    PROVE  /\ u \in Seq(Unit) /\ Len(u) = FieldSize(q.fmt) + RestSize(q.fmt)
           /\ q.fmt # 3 => u[1].val = MinOf(q.field, TsMax)
           /\ q.fmt \in {0, 1} => u[2].len = q.len /\ u[2].type = q.type
<1>1. q.fmt \in 0 .. 3 /\ q.field \in Nat /\ q.len \in Nat /\ q.type \in Types
  BY DEF ChunkSent
<1>2. PICK t : t = [k |-> "ts", val |-> MinOf(q.field, TsMax)]
  OBVIOUS
<1>3. t \in Unit /\ t.val = MinOf(q.field, TsMax)
  BY <1>1, <1>2, Limits DEF Unit, MinOf
<1>4. PICK r : r = [k |-> "rest", len |-> q.len, type |-> q.type, val |-> 0]
  OBVIOUS
<1>5. r \in Unit /\ r.len = q.len /\ r.type = q.type
  BY <1>1, <1>4 DEF Unit
<1>6. CASE q.fmt = 3
  <2>1. u = <<>>
    BY <1>6 DEF MessageUnits
  <2>2. u \in Seq(Unit) /\ Len(u) = 0
    BY <2>1
  <2>3. FieldSize(q.fmt) = 0 /\ RestSize(q.fmt) = 0
    BY <1>6 DEF FieldSize, RestSize
  <2>4. QED
    BY <1>6, <2>2, <2>3
<1>7. CASE q.fmt = 2
  <2>1. u = <<t>>
    BY <1>2, <1>3, <1>7 DEF MessageUnits
  <2>2. u \in Seq(Unit) /\ Len(u) = 1 /\ u[1] = t
    BY <1>3, <2>1, OneIs
  <2>3. QED
    BY <1>3, <1>7, <2>2 DEF FieldSize, RestSize
<1>8. CASE q.fmt \in {0, 1}
  <2>1. u = <<t>> \o <<r>>
    BY <1>2, <1>4, <1>8 DEF MessageUnits
  <2>2. u \in Seq(Unit) /\ Len(u) = 2 /\ u[1] = t /\ u[2] = r
    BY <1>3, <1>5, <2>1, TwoAre
  <2>3. QED
    BY <1>3, <1>5, <1>8, <2>2 DEF FieldSize, RestSize
<1>9. QED
  BY <1>1, <1>6, <1>7, <1>8

\* Four sequences one after the other.
LEMMA FourParts ==
    ASSUME NEW S, NEW a \in Seq(S), NEW b \in Seq(S), NEW c \in Seq(S), NEW d \in Seq(S),
           NEW z, z = a \o b \o c \o d
    PROVE  /\ z \in Seq(S) /\ Len(z) = Len(a) + Len(b) + Len(c) + Len(d)
           /\ \A i \in 1 .. Len(a) : z[i] = a[i]
           /\ \A i \in 1 .. Len(b) : z[Len(a) + i] = b[i]
           /\ \A i \in 1 .. Len(c) : z[Len(a) + Len(b) + i] = c[i]
           /\ \A i \in 1 .. Len(d) : z[Len(a) + Len(b) + Len(c) + i] = d[i]
<1>1. Len(a) \in Nat /\ Len(b) \in Nat /\ Len(c) \in Nat /\ Len(d) \in Nat
  BY LenProperties
<1>2. PICK x : x = a \o b
  OBVIOUS
<1>3. x \in Seq(S)
  BY <1>2, CatIs
<1>4. /\ x \in Seq(S) /\ Len(x) = Len(a) + Len(b)
      /\ \A i \in 1 .. Len(a) : x[i] = a[i]
      /\ \A i \in 1 .. Len(b) : x[Len(a) + i] = b[i]
  BY <1>2, CatIs
<1>5. PICK y : y = x \o c
  OBVIOUS
<1>6. /\ y \in Seq(S) /\ Len(y) = Len(x) + Len(c)
      /\ \A i \in 1 .. Len(x) : y[i] = x[i]
      /\ \A i \in 1 .. Len(c) : y[Len(x) + i] = c[i]
  BY <1>3, <1>5, CatIs
<1>7. y \in Seq(S)
  BY <1>6
<1>8. z = y \o d
  BY <1>2, <1>5
<1>9. /\ z \in Seq(S) /\ Len(z) = Len(y) + Len(d)
      /\ \A i \in 1 .. Len(y) : z[i] = y[i]
      /\ \A i \in 1 .. Len(d) : z[Len(y) + i] = d[i]
  BY <1>7, <1>8, CatIs
<1>10. \A i \in 1 .. Len(a) : z[i] = a[i]
  <2>1. ASSUME NEW i \in 1 .. Len(a) PROVE z[i] = a[i]
    <3>1. i \in 1 .. Len(x) /\ i \in 1 .. Len(y)
      BY <1>1, <1>4, <1>6
    <3>2. QED
      BY <1>4, <1>6, <1>9, <3>1
  <2>2. QED
    BY <2>1
<1>11. \A i \in 1 .. Len(b) : z[Len(a) + i] = b[i]
  <2>1. ASSUME NEW i \in 1 .. Len(b) PROVE z[Len(a) + i] = b[i]
    <3>1. Len(a) + i \in 1 .. Len(x) /\ Len(a) + i \in 1 .. Len(y)
      BY <1>1, <1>4, <1>6
    <3>2. QED
      BY <1>4, <1>6, <1>9, <3>1
  <2>2. QED
    BY <2>1
<1>12. \A i \in 1 .. Len(c) : z[Len(a) + Len(b) + i] = c[i]
  <2>1. ASSUME NEW i \in 1 .. Len(c) PROVE z[Len(a) + Len(b) + i] = c[i]
    <3>1. Len(x) + i \in 1 .. Len(y) /\ Len(x) + i = Len(a) + Len(b) + i
      BY <1>1, <1>4, <1>6
    <3>2. z[Len(x) + i] = c[i]
      BY <1>6, <1>9, <3>1
    <3>3. QED
      BY <3>1, <3>2
  <2>2. QED
    BY <2>1
<1>13. Len(y) = Len(a) + Len(b) + Len(c)
  BY <1>4, <1>6
<1>14. /\ z \in Seq(S) /\ Len(z) = Len(a) + Len(b) + Len(c) + Len(d)
       /\ \A i \in 1 .. Len(d) : z[Len(a) + Len(b) + Len(c) + i] = d[i]
  BY <1>9, <1>13
<1>15. QED
  BY <1>10, <1>11, <1>12, <1>14

\* Where each part of a chunk is.
LEMMA UnitsAre ==
    ASSUME NEW q \in ChunkSent
    PROVE  LET u == Units(q)
               b == BasicSize(q.csid)
               c == q.csid
           IN  /\ u \in Seq(Unit) /\ Len(u) = HeadSize(q) + Len(q.body)
               /\ u[1].k = "basic" /\ u[1].fmt = q.fmt
               /\ u[1].csid = IF c < 64 THEN c ELSE IF c < 320 THEN 0 ELSE 1
               /\ c >= 64 /\ c < 320 => u[2].val = c - 64
               /\ c >= 320 => u[3].val * 256 + u[2].val + 64 = c
               /\ q.fmt # 3 => u[b + 1].val = MinOf(q.field, TsMax)
               /\ q.fmt \in {0, 1} => u[b + 2].len = q.len /\ u[b + 2].type = q.type
               /\ q.ext => u[HeadSize(q)].val = q.val /\ u[HeadSize(q)].k = "ext"
               /\ \A i \in 1 .. Len(q.body) : u[HeadSize(q) + i] = q.body[i]
<1>1. PICK c : c = q.csid
  OBVIOUS
<1>2. /\ q.fmt \in 0 .. 3 /\ c \in Nat \ {0, 1} /\ q.body \in Seq(DataUnit)
      /\ q.ext \in BOOLEAN /\ q.val \in Nat
  BY <1>1, Limits DEF ChunkSent
<1>3. PICK a : a = BasicUnits(q.fmt, c)
  OBVIOUS
<1>4. PICK m : m = MessageUnits(q.fmt, q.field, q)
  OBVIOUS
<1>5. PICK e : e = ExtUnits(q.ext, q.val)
  OBVIOUS
<1>6. PICK d : d = q.body
  OBVIOUS
<1>7. /\ a \in Seq(Unit) /\ Len(a) = BasicSize(c)
      /\ a[1].k = "basic" /\ a[1].fmt = q.fmt
      /\ a[1].csid = IF c < 64 THEN c ELSE IF c < 320 THEN 0 ELSE 1
      /\ c >= 64 /\ c < 320 => a[2].val = c - 64
      /\ c >= 320 => a[3].val * 256 + a[2].val + 64 = c
  <2>1. PICK f : f = q.fmt
    OBVIOUS
  <2>2. f \in 0 .. 3 /\ c \in Nat \ {0, 1} /\ a = BasicUnits(f, c)
    BY <1>2, <1>3, <2>1
  <2>3. IsBasic(a, f, c)
    BY <2>2, BasicIs
  <2>4. QED
    BY <2>1, <2>3 DEF IsBasic
<1>8. /\ m \in Seq(Unit) /\ Len(m) = FieldSize(q.fmt) + RestSize(q.fmt)
      /\ q.fmt # 3 => m[1].val = MinOf(q.field, TsMax)
      /\ q.fmt \in {0, 1} => m[2].len = q.len /\ m[2].type = q.type
  BY <1>4, MessageIs
<1>9. /\ e \in Seq(Unit) /\ Len(e) = IF q.ext THEN 1 ELSE 0
      /\ q.ext => e[1].val = q.val /\ e[1].k = "ext"
  <2>1. [k |-> "ext", val |-> q.val] \in Unit
    BY <1>2 DEF Unit
  <2>2. CASE q.ext
    BY <1>5, <2>1, <2>2 DEF ExtUnits
  <2>3. CASE ~q.ext
    BY <1>5, <2>3 DEF ExtUnits
  <2>4. QED
    BY <2>2, <2>3
<1>10. d \in Seq(Unit)
  <2>1. DataUnit \subseteq Unit
    BY DEF Unit
  <2>2. QED
    BY <1>2, <1>6, <2>1
<1>11. PICK u : u = a \o m \o e \o d
  OBVIOUS
<1>12. u = Units(q)
  BY <1>1, <1>3, <1>4, <1>5, <1>6, <1>11 DEF Units
<1>13. /\ u \in Seq(Unit) /\ Len(u) = Len(a) + Len(m) + Len(e) + Len(d)
       /\ \A i \in 1 .. Len(a) : u[i] = a[i]
       /\ \A i \in 1 .. Len(m) : u[Len(a) + i] = m[i]
       /\ \A i \in 1 .. Len(e) : u[Len(a) + Len(m) + i] = e[i]
       /\ \A i \in 1 .. Len(d) : u[Len(a) + Len(m) + Len(e) + i] = d[i]
  <2>1. a \in Seq(Unit) /\ m \in Seq(Unit) /\ e \in Seq(Unit)
    BY <1>7, <1>8, <1>9
  <2>2. QED
    BY <1>10, <1>11, <2>1, FourParts
<1>14. /\ Len(a) \in 1 .. 3 /\ Len(a) = BasicSize(q.csid) /\ Len(m) \in 0 .. 2
       /\ Len(e) \in 0 .. 1 /\ Len(d) \in Nat
       /\ HeadSize(q) = Len(a) + Len(m) + Len(e)
  <2>1. Len(a) \in 1 .. 3 /\ Len(a) = BasicSize(q.csid)
    BY <1>1, <1>2, <1>7 DEF BasicSize
  <2>2. Len(m) \in 0 .. 2
    BY <1>2, <1>8 DEF FieldSize, RestSize
  <2>3. Len(d) \in Nat
    BY <1>10, LenProperties
  <2>4. FieldSize(q.fmt) \in Nat /\ RestSize(q.fmt) \in Nat
    BY <1>2 DEF FieldSize, RestSize
  <2>5. QED
    BY <1>8, <1>9, <2>1, <2>2, <2>3, <2>4 DEF HeadSize
<1>15. u[1] = a[1]
  BY <1>13, <1>14
<1>16. c >= 64 => u[2] = a[2]
  <2>1. c >= 64 => 2 \in 1 .. Len(a)
    BY <1>1, <1>2, <1>7 DEF BasicSize
  <2>2. QED
    BY <1>13, <2>1
<1>17. c >= 320 => u[3] = a[3]
  <2>1. c >= 320 => 3 \in 1 .. Len(a)
    BY <1>1, <1>2, <1>7 DEF BasicSize
  <2>2. QED
    BY <1>13, <2>1
<1>18. q.fmt # 3 => u[Len(a) + 1] = m[1]
  <2>1. q.fmt # 3 => 1 \in 1 .. Len(m)
    BY <1>2, <1>8 DEF FieldSize, RestSize
  <2>2. QED
    BY <1>13, <2>1
<1>19. q.fmt \in {0, 1} => u[Len(a) + 2] = m[2]
  <2>1. q.fmt \in {0, 1} => 2 \in 1 .. Len(m)
    BY <1>2, <1>8 DEF FieldSize, RestSize
  <2>2. QED
    BY <1>13, <2>1
<1>20. q.ext => u[HeadSize(q)] = e[1]
  <2>1. q.ext => 1 \in 1 .. Len(e) /\ Len(a) + Len(m) + 1 = HeadSize(q)
    BY <1>9, <1>14
  <2>2. QED
    BY <1>13, <2>1
<1>21. \A i \in 1 .. Len(d) : u[HeadSize(q) + i] = d[i]
  BY <1>13, <1>14
<1>22. Len(u) = HeadSize(q) + Len(d)
  BY <1>13, <1>14
<1>23. c >= 64 /\ c < 320 => u[2].val = c - 64
  BY <1>2, <1>7, <1>16
<1>24. c >= 320 => u[3].val * 256 + u[2].val + 64 = c
  <2>1. c >= 320 => c >= 64
    BY <1>2
  <2>2. QED
    BY <1>7, <1>16, <1>17, <2>1
<1>25. /\ u \in Seq(Unit) /\ Len(u) = HeadSize(q) + Len(q.body)
       /\ u[1].k = "basic" /\ u[1].fmt = q.fmt
       /\ u[1].csid = IF c < 64 THEN c ELSE IF c < 320 THEN 0 ELSE 1
  BY <1>6, <1>7, <1>13, <1>15, <1>22
<1>26. /\ q.fmt # 3 => u[BasicSize(q.csid) + 1].val = MinOf(q.field, TsMax)
       /\ q.fmt \in {0, 1} => /\ u[BasicSize(q.csid) + 2].len = q.len
                              /\ u[BasicSize(q.csid) + 2].type = q.type
  BY <1>8, <1>14, <1>18, <1>19
<1>27. q.ext => u[HeadSize(q)].val = q.val /\ u[HeadSize(q)].k = "ext"
  BY <1>9, <1>20
<1>28. \A i \in 1 .. Len(q.body) : u[HeadSize(q) + i] = q.body[i]
  BY <1>6, <1>21
<1>29. QED
  BY <1>12, <1>23, <1>24, <1>25, <1>1, <1>26, <1>27, <1>28

-----------------------------------------------------------------------------
(* Reading a chunk *)

\* The buffer begins with q, or with the part of q that has arrived.
Begins(q) == \A j \in 1 .. Len(Units(q)) : j <= Len(buf) => buf[j] = Units(q)[j]

\* How long the parts of a chunk are.
LEMMA Sizes ==
    ASSUME NEW q \in ChunkSent
    PROVE  /\ BasicSize(q.csid) \in 1 .. 3
           /\ FieldSize(q.fmt) \in 0 .. 1 /\ RestSize(q.fmt) \in 0 .. 1
           /\ HeadSize(q) \in Nat /\ HeadSize(q) >= BasicSize(q.csid) + FieldSize(q.fmt) + RestSize(q.fmt)
           /\ Len(q.body) \in Nat /\ Len(Units(q)) = HeadSize(q) + Len(q.body)
<1>1. BasicSize(q.csid) \in 1 .. 3
  BY DEF BasicSize
<1>2. FieldSize(q.fmt) \in 0 .. 1 /\ RestSize(q.fmt) \in 0 .. 1
  BY DEF FieldSize, RestSize
<1>3. Len(q.body) \in Nat
  BY LenProperties DEF ChunkSent
<1>4. Len(Units(q)) = HeadSize(q) + Len(q.body)
  BY UnitsAre
<1>5. QED
  BY <1>1, <1>2, <1>3, <1>4 DEF HeadSize

\* The basic header is read as it was written.
LEMMA BasicRead ==
    ASSUME NEW q \in ChunkSent, buf \in Seq(Unit), buf # <<>>, Begins(q)
    PROVE  /\ BasicLen = BasicSize(q.csid) /\ Fmt = q.fmt /\ buf[1].k = "basic"
           /\ BasicAndMessageLen = BasicSize(q.csid) + FieldSize(q.fmt) + RestSize(q.fmt)
           /\ Len(buf) >= BasicSize(q.csid) => Csid = q.csid
<1>1. PICK u : u = Units(q)
  OBVIOUS
<1>2. PICK c : c = q.csid
  OBVIOUS
<1>3. Len(buf) \in Nat /\ Len(buf) >= 1
  BY LenProperties, EmptySeq
<1>4. \A j \in 1 .. Len(u) : j <= Len(buf) => buf[j] = u[j]
  BY <1>1 DEF Begins
<1>5. /\ u[1].k = "basic" /\ u[1].fmt = q.fmt
      /\ u[1].csid = IF c < 64 THEN c ELSE IF c < 320 THEN 0 ELSE 1
      /\ c >= 64 /\ c < 320 => u[2].val = c - 64
      /\ c >= 320 => u[3].val * 256 + u[2].val + 64 = c
  BY <1>1, <1>2, UnitsAre
<1>6. c \in Nat \ {0, 1} /\ q.fmt \in 0 .. 3
  BY <1>2, Limits DEF ChunkSent
<1>7. Len(u) \in Nat /\ Len(u) >= BasicSize(c) /\ BasicSize(c) \in 1 .. 3
  BY <1>1, <1>2, Sizes
<1>8. buf[1] = u[1]
  BY <1>3, <1>4, <1>7
<1>9. buf[1].csid = IF c < 64 THEN c ELSE IF c < 320 THEN 0 ELSE 1
  BY <1>5, <1>8
<1>10. BasicLen = BasicSize(c)
  BY <1>6, <1>9 DEF BasicLen, BasicSize
<1>11. Fmt = q.fmt /\ buf[1].k = "basic"
  BY <1>5, <1>8 DEF Fmt
<1>12. HeaderSize[Fmt] = FieldSize(q.fmt) + RestSize(q.fmt)
  <2>1. PICK f : f = q.fmt
    OBVIOUS
  <2>2. f = 0 \/ f = 1 \/ f = 2 \/ f = 3
    BY <1>6, <2>1
  <2>3. HeaderSize[f] = FieldSize(f) + RestSize(f)
    <3>1. CASE f = 0
      BY <3>1 DEF HeaderSize, FieldSize, RestSize
    <3>2. CASE f = 1
      BY <3>2 DEF HeaderSize, FieldSize, RestSize
    <3>3. CASE f = 2
      BY <3>3 DEF HeaderSize, FieldSize, RestSize
    <3>4. CASE f = 3
      BY <3>4 DEF HeaderSize, FieldSize, RestSize
    <3>5. QED
      BY <2>2, <3>1, <3>2, <3>3, <3>4
  <2>4. QED
    BY <1>11, <2>1, <2>3
<1>13. BasicAndMessageLen = BasicSize(c) + FieldSize(q.fmt) + RestSize(q.fmt)
  <2>1. FieldSize(q.fmt) \in Nat /\ RestSize(q.fmt) \in Nat
    BY Sizes
  <2>2. QED
    BY <1>7, <1>10, <1>12, <2>1 DEF BasicAndMessageLen
<1>14. Len(buf) >= BasicSize(c) => Csid = c
  <2> SUFFICES ASSUME Len(buf) >= BasicSize(c) PROVE Csid = c
    OBVIOUS
  <2>1. CASE c < 64
    <3>1. buf[1].csid = c /\ buf[1].csid > 1 /\ buf[1].csid # 0 /\ buf[1].csid # 1
      BY <1>6, <1>9, <2>1
    <3>2. QED
      BY <3>1 DEF Csid
  <2>2. CASE c >= 64 /\ c < 320
    <3>1. buf[1].csid = 0 /\ ~(buf[1].csid = 1) /\ ~(buf[1].csid > 1)
      BY <1>6, <1>9, <2>2
    <3>2. BasicSize(c) = 2
      BY <1>6, <2>2 DEF BasicSize
    <3>3. buf[2] = u[2]
      BY <1>3, <1>4, <1>7, <3>2
    <3>4. buf[2].val + 64 = c
      BY <1>5, <1>6, <2>2, <3>3
    <3>5. QED
      BY <3>1, <3>4 DEF Csid
  <2>3. CASE c >= 320
    <3>1. buf[1].csid = 1 /\ ~(buf[1].csid = 0) /\ ~(buf[1].csid > 1)
      BY <1>6, <1>9, <2>3
    <3>2. BasicSize(c) = 3
      BY <1>6, <2>3 DEF BasicSize
    <3>3. buf[2] = u[2] /\ buf[3] = u[3]
      BY <1>3, <1>4, <1>7, <3>2
    <3>4. buf[3].val * 256 + buf[2].val + 64 = c
      BY <1>5, <1>6, <2>3, <3>3
    <3>5. QED
      BY <3>1, <3>4 DEF Csid
  <2>4. QED
    BY <1>6, <2>1, <2>2, <2>3
<1>15. QED
  BY <1>2, <1>10, <1>11, <1>13, <1>14

\* So is the message header, the extended timestamp included.
LEMMA HeaderRead ==
    ASSUME NEW q \in ChunkSent, NEW p \in Header, buf \in Seq(Unit), buf # <<>>, Begins(q),
           ExtensionKnown(p, q), Len(buf) >= BasicAndMessageLen
    PROVE  /\ HasExt(p) = q.ext /\ TotalHeaderLen(p) = HeadSize(q)
           /\ Len(buf) >= HeadSize(q) => FullHeader(p) = HeaderOf(p, q)
<1>1. PICK u : u = Units(q)
  OBVIOUS
<1>2. PICK b : b = BasicSize(q.csid)
  OBVIOUS
<1>3. /\ q.fmt \in 0 .. 3 /\ q.field \in 0 .. TsMod - 1 /\ q.ext \in BOOLEAN
      /\ q.len \in Nat /\ q.type \in Types /\ q.val \in 0 .. TsMod - 1
  BY DEF ChunkSent
<1>4. /\ Len(buf) \in Nat /\ b \in 1 .. 3
      /\ FieldSize(q.fmt) \in 0 .. 1 /\ RestSize(q.fmt) \in 0 .. 1
      /\ HeadSize(q) = b + FieldSize(q.fmt) + RestSize(q.fmt) + (IF q.ext THEN 1 ELSE 0)
      /\ Len(u) \in Nat /\ Len(u) >= HeadSize(q)
  BY <1>1, <1>2, Sizes, LenProperties DEF HeadSize
<1>5. BasicLen = b /\ Fmt = q.fmt /\ BasicAndMessageLen = b + FieldSize(q.fmt) + RestSize(q.fmt)
  BY <1>2, BasicRead
<1>6. \A j \in 1 .. Len(u) : j <= Len(buf) => buf[j] = u[j]
  BY <1>1 DEF Begins
<1>7. /\ q.fmt # 3 => u[b + 1].val = MinOf(q.field, TsMax)
      /\ q.fmt \in {0, 1} => u[b + 2].len = q.len /\ u[b + 2].type = q.type
      /\ q.ext => u[HeadSize(q)].val = q.val
  BY <1>1, <1>2, UnitsAre
<1>8. q.fmt # 3 => Field = MinOf(q.field, TsMax)
  <2> SUFFICES ASSUME q.fmt # 3 PROVE Field = MinOf(q.field, TsMax)
    OBVIOUS
  <2>1. FieldSize(q.fmt) = 1
    BY DEF FieldSize
  <2>2. b + 1 \in 1 .. Len(u) /\ b + 1 <= Len(buf)
    BY <1>4, <1>5, <2>1
  <2>3. QED
    BY <1>5, <1>6, <1>7, <2>2 DEF Field
<1>9. q.fmt \in {0, 1} => Rest.len = q.len /\ Rest.type = q.type
  <2> SUFFICES ASSUME q.fmt \in {0, 1} PROVE Rest.len = q.len /\ Rest.type = q.type
    OBVIOUS
  <2>1. FieldSize(q.fmt) = 1 /\ RestSize(q.fmt) = 1
    BY DEF FieldSize, RestSize
  <2>2. b + 2 \in 1 .. Len(u) /\ b + 2 <= Len(buf)
    BY <1>4, <1>5, <2>1
  <2>3. QED
    BY <1>5, <1>6, <1>7, <2>2 DEF Rest
<1>10. TsMax \in Nat /\ TsMod \in Nat /\ TsMax > 0
  BY Limits
<1>11. p.ext \in BOOLEAN
  BY DEF Header
<1>12. HasExt(p) = q.ext
  <2>1. CASE q.fmt = 0
    BY <1>3, <1>5, <1>8, <1>10, <2>1 DEF HasExt, ExtensionKnown, MinOf
  <2>2. CASE q.fmt \in {1, 2}
    BY <1>3, <1>5, <1>8, <1>10, <2>2 DEF HasExt, ExtensionKnown, MinOf
  <2>3. CASE q.fmt = 3
    BY <1>3, <1>5, <1>11, <2>3 DEF HasExt, ExtensionKnown
  <2>4. QED
    BY <1>3, <2>1, <2>2, <2>3
<1>13. TotalHeaderLen(p) = HeadSize(q)
  BY <1>4, <1>5, <1>12 DEF TotalHeaderLen
<1>14. Len(buf) >= HeadSize(q) => FullHeader(p) = HeaderOf(p, q)
  <2> SUFFICES ASSUME Len(buf) >= HeadSize(q) PROVE FullHeader(p) = HeaderOf(p, q)
    OBVIOUS
  <2>1. q.ext => buf[TotalHeaderLen(p)].val = q.val
    <3>1. HeadSize(q) \in 1 .. Len(u)
      BY <1>4
    <3>2. QED
      BY <1>6, <1>7, <1>13, <3>1
  <2>2. q.fmt # 3 /\ ~q.ext => Field = q.field
    BY <1>3, <1>8, <1>10 DEF ExtensionKnown, MinOf
  <2>3. PICK h : h = ReadHeader(p)
    OBVIOUS
  <2>4. p = [ts |-> p.ts, len |-> p.len, type |-> p.type, ext |-> p.ext]
    BY DEF Header
  <2>5. h = [ts |-> h.ts, len |-> h.len, type |-> h.type, ext |-> p.ext]
        /\ h.len = (IF q.fmt \in {0, 1} THEN q.len ELSE p.len)
        /\ h.type = (IF q.fmt \in {0, 1} THEN q.type ELSE p.type)
        /\ h.ts = (IF q.fmt = 0 THEN Field ELSE IF q.fmt = 3 THEN p.ts
                   ELSE (p.ts + Field) % TsMod)
    <3>1. CASE q.fmt = 0
      <4>1. h = [p EXCEPT !.ts = Field, !.len = Rest.len, !.type = Rest.type]
        BY <1>5, <2>3, <3>1 DEF ReadHeader
      <4>2. h = [p EXCEPT !.ts = Field, !.len = q.len, !.type = q.type]
        BY <1>9, <3>1, <4>1
      <4>3. h = [ts |-> Field, len |-> q.len, type |-> q.type, ext |-> p.ext]
        BY <2>4, <4>2
      <4>4. QED
        BY <3>1, <4>3
    <3>2. CASE q.fmt = 1
      <4>1. h = [p EXCEPT !.ts = (p.ts + Field) % TsMod, !.len = Rest.len, !.type = Rest.type]
        BY <1>5, <2>3, <3>2 DEF ReadHeader
      <4>2. h = [p EXCEPT !.ts = (p.ts + Field) % TsMod, !.len = q.len, !.type = q.type]
        BY <1>9, <3>2, <4>1
      <4>3. h = [ts |-> (p.ts + Field) % TsMod, len |-> q.len, type |-> q.type, ext |-> p.ext]
        BY <2>4, <4>2
      <4>4. QED
        BY <3>2, <4>3
    <3>3. CASE q.fmt = 2
      BY <1>5, <1>9, <2>3, <2>4, <3>3 DEF ReadHeader
    <3>4. CASE q.fmt = 3
      BY <1>5, <1>9, <2>3, <2>4, <3>4 DEF ReadHeader
    <3>5. QED
      BY <1>3, <3>1, <3>2, <3>3, <3>4
  <2>6. CASE q.ext
    <3>1. FullHeader(p) = [h EXCEPT !.ts = q.val, !.ext = TRUE]
      BY <1>12, <2>1, <2>3, <2>6 DEF FullHeader
    <3>2. FullHeader(p) = [ts |-> q.val, len |-> h.len, type |-> h.type, ext |-> TRUE]
      BY <2>5, <3>1
    <3>3. QED
      BY <2>5, <2>6, <3>2 DEF HeaderOf
  <2>7. CASE ~q.ext
    <3>1. FullHeader(p) = h
      BY <1>12, <2>3, <2>7 DEF FullHeader
    <3>2. (q.ext \/ p.ext) = p.ext
      BY <1>11, <2>7
    <3>3. HeaderOf(p, q).ts = h.ts
      BY <1>3, <2>2, <2>5, <2>7 DEF HeaderOf
    <3>4. HeaderOf(p, q) = [ts |-> h.ts, len |-> h.len, type |-> h.type, ext |-> p.ext]
      BY <2>5, <3>2, <3>3 DEF HeaderOf
    <3>5. QED
      BY <2>5, <3>1, <3>4
  <2>8. QED
    BY <1>3, <2>6, <2>7
<1>15. QED
  BY <1>12, <1>13, <1>14

\* parseOneChunk finds its header exactly when the header of q is all there.
LEMMA HeaderFound ==
    ASSUME NEW q \in ChunkSent, NEW p \in Header, buf \in Seq(Unit), buf # <<>>, Begins(q),
           ExtensionKnown(p, q), prev[q.csid] = p
    PROVE  /\ HeaderComplete <=> Len(buf) >= HeadSize(q)
           /\ HeaderComplete => Csid = q.csid
<1>1. /\ BasicLen = BasicSize(q.csid)
      /\ BasicAndMessageLen = BasicSize(q.csid) + FieldSize(q.fmt) + RestSize(q.fmt)
      /\ Len(buf) >= BasicSize(q.csid) => Csid = q.csid
  BY BasicRead
<1>2. /\ BasicSize(q.csid) \in 1 .. 3
      /\ FieldSize(q.fmt) \in 0 .. 1 /\ RestSize(q.fmt) \in 0 .. 1
      /\ HeadSize(q) \in Nat /\ HeadSize(q) >= BasicSize(q.csid) + FieldSize(q.fmt) + RestSize(q.fmt)
      /\ Len(buf) \in Nat
  BY Sizes, LenProperties
<1>3. Len(buf) >= BasicAndMessageLen => TotalHeaderLen(p) = HeadSize(q)
  BY HeaderRead
<1>4. Len(buf) >= BasicAndMessageLen => Csid = q.csid
  BY <1>1, <1>2
<1>5. HeaderComplete => Len(buf) >= HeadSize(q) /\ Csid = q.csid
  BY <1>1, <1>3, <1>4 DEF HeaderComplete
<1>6. Len(buf) >= HeadSize(q) => HeaderComplete
  <2>1. Len(buf) >= HeadSize(q) => Len(buf) >= BasicAndMessageLen /\ Len(buf) >= BasicLen
    BY <1>1, <1>2
  <2>2. QED
    BY <1>3, <1>4, <2>1 DEF HeaderComplete
<1>7. QED
  BY <1>5, <1>6

\* A parser that has read a header.
LEMMA HeaderType ==
    ASSUME NEW p \in Header, NEW q \in ChunkSent
    PROVE  HeaderOf(p, q) \in Header
<1>1. TsMod \in Nat \ {0}
  BY Limits
<1>2. p.ts \in Int /\ q.field \in Int /\ (p.ts + q.field) % TsMod \in 0 .. TsMod - 1
  BY <1>1 DEF Header, ChunkSent
<1> DEFINE t == (p.ts + q.field) % TsMod
<1>3. t \in 0 .. TsMod - 1
  BY <1>2
<1> HIDE DEF t
<1>4. HeaderOf(p, q) = [ts   |-> IF q.ext THEN q.val
                                 ELSE IF q.fmt = 0 THEN q.field
                                 ELSE IF q.fmt = 3 THEN p.ts ELSE t,
                        len  |-> IF q.fmt \in {0, 1} THEN q.len ELSE p.len,
                        type |-> IF q.fmt \in {0, 1} THEN q.type ELSE p.type,
                        ext  |-> q.ext \/ p.ext]
  BY DEF HeaderOf, t
<1>5. (q.ext \/ p.ext) \in BOOLEAN
  OBVIOUS
<1>6. QED
  BY <1>3, <1>4, <1>5 DEF Header, ChunkSent

\* Beginning a message gives a message.
LEMMA BegunType ==
    ASSUME NEW s \in Parser, NEW q \in ChunkSent
    PROVE  Begun(s, q) \in Message
<1>1. q.csid \in Csids /\ s.prev[q.csid] \in Header /\ s.prog[q.csid] \in Message
  BY DEF Parser, ChunkSent
<1>2. PICK h : h = HeaderOf(s.prev[q.csid], q)
  OBVIOUS
<1>3. h \in Header
  BY <1>1, <1>2, HeaderType
<1>4. PICK m : m = s.prog[q.csid]
  OBVIOUS
<1>5. m \in Message
  BY <1>1, <1>4
<1>6. Begun(s, q) = [ts |-> h.ts,
                     len |-> IF IsComplete(m) THEN h.len ELSE m.len,
                     type |-> IF IsComplete(m) THEN h.type ELSE m.type,
                     payload |-> IF IsComplete(m) THEN <<>> ELSE m.payload]
  BY <1>2, <1>4 DEF Begun
<1>7. CASE IsComplete(m)
  BY <1>3, <1>6, <1>7 DEF Header, Message
<1>8. CASE ~IsComplete(m)
  BY <1>3, <1>5, <1>6, <1>8 DEF Header, Message
<1>9. QED
  BY <1>7, <1>8

\* A header that was seen before changes the message in progress no further.
LEMMA BegunTwice ==
    ASSUME NEW s \in Parser, NEW q \in ChunkSent, Readable(s, q), Fmt = q.fmt,
           NEW h, h = HeaderOf(s.prev[q.csid], q),
           NEW m, m = s.prog[q.csid] \/ m = Begun(s, q)
    PROVE  InProgress(m, h) = Begun(s, q)
<1>1. PICK o : o = s.prog[q.csid]
  OBVIOUS
<1>2. PICK b : b = Begun(s, q)
  OBVIOUS
<1>3. q.csid \in Csids /\ o \in Message /\ b \in Message
  BY <1>1, <1>2, BegunType DEF Parser, ChunkSent
<1>4. b = [ts |-> h.ts,
           len |-> IF IsComplete(o) THEN h.len ELSE o.len,
           type |-> IF IsComplete(o) THEN h.type ELSE o.type,
           payload |-> IF IsComplete(o) THEN <<>> ELSE o.payload]
  BY <1>1, <1>2 DEF Begun
<1>5. IsComplete(o) \/ q.fmt = 3
  BY <1>1 DEF Readable
<1>6. o = [ts |-> o.ts, len |-> o.len, type |-> o.type, payload |-> o.payload]
  BY <1>3 DEF Message
<1>7. CASE IsComplete(o)
  <2>1. b = [ts |-> h.ts, len |-> h.len, type |-> h.type, payload |-> <<>>]
    BY <1>4, <1>7
  <2>2. CASE m = o
    BY <1>2, <1>7, <2>1, <2>2 DEF InProgress
  <2>3. CASE m = b
    <3>1. CASE Fmt = 0 \/ IsComplete(m)
      BY <1>2, <2>1, <3>1 DEF InProgress
    <3>2. CASE ~(Fmt = 0 \/ IsComplete(m))
      <4>1. InProgress(m, h) = [m EXCEPT !.ts = h.ts,
                                         !.len = IF Fmt = 1 THEN h.len ELSE m.len,
                                         !.type = IF Fmt = 1 THEN h.type ELSE m.type]
        BY <3>2 DEF InProgress
      <4>2. m.ts = h.ts /\ m.len = h.len /\ m.type = h.type
        BY <2>1, <2>3
      <4>3. InProgress(m, h) = [m EXCEPT !.ts = h.ts, !.len = h.len, !.type = h.type]
        BY <4>1, <4>2
      <4>4. InProgress(m, h) = [ts |-> h.ts, len |-> h.len, type |-> h.type, payload |-> <<>>]
        BY <2>1, <2>3, <4>3
      <4>5. QED
        BY <1>2, <2>1, <4>4
    <3>3. QED
      BY <1>2, <3>1, <3>2
  <2>4. QED
    BY <1>1, <1>2, <2>2, <2>3
<1>8. CASE ~IsComplete(o)
  <2>1. b = [ts |-> h.ts, len |-> o.len, type |-> o.type, payload |-> o.payload]
    BY <1>4, <1>8
  <2>2. Fmt = 3
    BY <1>5, <1>8
  <2>3. ~IsComplete(b)
    BY <1>8, <2>1 DEF IsComplete
  <2>4. ~IsComplete(m) /\ m.len = o.len /\ m.type = o.type /\ m.payload = o.payload
        /\ m = [ts |-> m.ts, len |-> m.len, type |-> m.type, payload |-> m.payload]
    BY <1>1, <1>2, <1>6, <1>8, <2>1, <2>3
  <2>5. InProgress(m, h) = [m EXCEPT !.ts = h.ts, !.len = m.len, !.type = m.type]
    BY <2>2, <2>4 DEF InProgress
  <2>6. InProgress(m, h) = [ts |-> h.ts, len |-> m.len, type |-> m.type, payload |-> m.payload]
    BY <2>4, <2>5
  <2>7. QED
    BY <1>2, <2>1, <2>4, <2>6
<1>9. QED
  BY <1>7, <1>8

-----------------------------------------------------------------------------
(* The parser's place in the history *)

\* Chunk r + 1 lies after at[r], whole.
LEMMA NextChunk ==
    ASSUME NEW n, NEW Q, NEW P, NEW at, NEW W, IsHistory(n, Q, P, at, W),
           NEW r \in 0 .. n, r < n
    PROVE  /\ Q[r + 1] \in ChunkSent /\ P[r] \in Parser
           /\ Readable(P[r], Q[r + 1]) /\ P[r + 1] = After(P[r], Q[r + 1])
           /\ r + 1 \in 0 .. n
           /\ at[r] \in Nat /\ at[r + 1] = at[r] + Len(Units(Q[r + 1])) /\ at[r + 1] <= at[n]
           /\ at[n] \in Nat
           /\ \A j \in 1 .. Len(Units(Q[r + 1])) : W[at[r] + j] = Units(Q[r + 1])[j]
<1>1. PICK k : k = r + 1
  OBVIOUS
<1>2. n \in Nat /\ r \in Nat /\ k \in 1 .. n /\ k \in 0 .. n /\ k - 1 = r /\ n \in 0 .. n
  BY <1>1 DEF IsHistory
<1>3. P[r] \in Parser /\ at[r] \in Nat /\ at[k] <= at[n] /\ at[n] \in Nat
  BY <1>2 DEF IsHistory
<1>4. /\ Q[k] \in ChunkSent
      /\ Readable(P[k - 1], Q[k])
      /\ P[k] = After(P[k - 1], Q[k])
      /\ at[k] = at[k - 1] + Len(Units(Q[k]))
      /\ \A j \in 1 .. Len(Units(Q[k])) : W[at[k - 1] + j] = Units(Q[k])[j]
  BY <1>2 DEF IsHistory
<1>5. QED
  BY <1>1, <1>2, <1>3, <1>4

\* What lies after at[r] begins with a basic header, if there is anything.
LEMMA BoundaryAt ==
    ASSUME NEW n, NEW Q, NEW P, NEW at, NEW W, IsHistory(n, Q, P, at, W),
           NEW r \in 0 .. n, NEW b \in Seq(Unit), Len(b) <= at[n] - at[r],
           \A j \in 1 .. Len(b) : b[j] = W[at[r] + j]
    PROVE  AtBoundary(b) /\ (b # <<>> => r < n)
<1>1. CASE b = <<>>
  BY <1>1 DEF AtBoundary
<1>2. CASE b # <<>>
  <2>1. Len(b) \in Nat /\ Len(b) >= 1
    BY <1>2, LenProperties, EmptySeq
  <2>2. n \in Nat /\ r < n
    <3>1. n \in Nat /\ at[n] \in Nat
      BY DEF IsHistory
    <3>2. r # n
      BY <2>1, <3>1
    <3>3. QED
      BY <3>1, <3>2
  <2>3. PICK q : q = Q[r + 1]
    OBVIOUS
  <2>4. q \in ChunkSent /\ \A j \in 1 .. Len(Units(q)) : W[at[r] + j] = Units(q)[j]
    BY <2>2, <2>3, NextChunk
  <2>5. 1 \in 1 .. Len(Units(q)) /\ 1 \in 1 .. Len(b)
    <3>1. /\ BasicSize(q.csid) \in 1 .. 3 /\ FieldSize(q.fmt) \in 0 .. 1 /\ RestSize(q.fmt) \in 0 .. 1
          /\ HeadSize(q) >= BasicSize(q.csid) + FieldSize(q.fmt) + RestSize(q.fmt)
          /\ HeadSize(q) \in Nat
      BY <2>4, Sizes
    <3>2. Len(q.body) \in Nat /\ Len(Units(q)) = HeadSize(q) + Len(q.body)
      BY <2>4, Sizes
    <3>3. QED
      BY <2>1, <3>1, <3>2
  <2>6. b[1] = Units(q)[1]
    BY <2>4, <2>5
  <2>7. b[1].k = "basic"
    BY <2>4, <2>6, UnitsAre
  <2>8. QED
    BY <2>2, <2>7 DEF AtBoundary
<1>3. QED
  BY <1>1, <1>2

\* With anything in the buffer, the parser is before a chunk and reads it for what
\* it is.
LEMMA ChunkRead ==
    ASSUME NEW r, NEW n, NEW Q, NEW P, NEW at, NEW W, Explains(r, n, Q, P, at, W),
           buf # <<>>,
           NEW q, q = Q[r + 1], NEW s, s = P[r]
    PROVE  /\ r < n /\ Begins(q)
           /\ HeaderComplete <=> Len(buf) >= HeadSize(q)
           /\ HeaderComplete =>
                /\ Csid = q.csid
                /\ BasicAndMessageLen = HeadSize(q) - IF q.ext THEN 1 ELSE 0
                /\ Chunk = [csid |-> q.csid, header |-> HeaderOf(s.prev[q.csid], q),
                            msg |-> Begun(s, q), headerLen |-> HeadSize(q),
                            dataLen |-> Len(q.body)]
<1>1. /\ IsHistory(n, Q, P, at, W) /\ r \in 0 .. n
      /\ UnreadIs(r, n, at, W) /\ ParserIs(s) /\ ProgIs(s, r, n, Q)
  BY DEF Explains
<1>2. n \in Nat /\ at[n] \in Nat /\ at[r] \in Nat
  BY <1>1 DEF IsHistory
<1>3. /\ buf \in Seq(Unit) /\ net \in Seq(Unit)
      /\ Len(buf) + Len(net) = at[n] - at[r]
      /\ \A j \in 1 .. Len(buf) : buf[j] = W[at[r] + j]
  BY <1>1 DEF UnreadIs
<1>4. Len(buf) \in Nat /\ Len(net) \in Nat /\ Len(buf) <= at[n] - at[r]
  BY <1>2, <1>3, LenProperties
<1>5. r < n
  BY <1>1, <1>3, <1>4, BoundaryAt
<1>6. /\ q \in ChunkSent /\ s \in Parser /\ Readable(s, q)
      /\ \A j \in 1 .. Len(Units(q)) : W[at[r] + j] = Units(q)[j]
  BY <1>1, <1>5, NextChunk
<1>7. Begins(q)
  <2>1. ASSUME NEW j \in 1 .. Len(Units(q)), j <= Len(buf) PROVE buf[j] = Units(q)[j]
    <3>1. j \in 1 .. Len(buf)
      BY <1>4, <2>1
    <3>2. QED
      BY <1>3, <1>6, <3>1
  <2>2. QED
    BY <2>1 DEF Begins
<1>8. PICK c : c = q.csid
  OBVIOUS
<1>9. PICK p : p = s.prev[c]
  OBVIOUS
<1>10. c \in Csids /\ p \in Header /\ s.prog \in [Csids -> Message]
  BY <1>6, <1>8, <1>9 DEF ChunkSent, Parser
<1>11. prev[c] = p /\ inChunk = s.chunk /\ ExtensionKnown(p, q)
  BY <1>1, <1>6, <1>8, <1>9 DEF ParserIs, Readable
<1>12. /\ HeaderComplete <=> Len(buf) >= HeadSize(q)
       /\ HeaderComplete => Csid = c
  BY <1>3, <1>6, <1>7, <1>8, <1>10, <1>11, HeaderFound
<1>13. ASSUME HeaderComplete
       PROVE  /\ BasicAndMessageLen = HeadSize(q) - IF q.ext THEN 1 ELSE 0
              /\ Chunk = [csid |-> c, header |-> HeaderOf(p, q), msg |-> Begun(s, q),
                          headerLen |-> HeadSize(q), dataLen |-> Len(q.body)]
  <2>1. Len(buf) >= BasicAndMessageLen /\ Len(buf) >= HeadSize(q) /\ Csid = c
    BY <1>12, <1>13 DEF HeaderComplete
  <2>2. TotalHeaderLen(p) = HeadSize(q) /\ FullHeader(p) = HeaderOf(p, q)
    BY <1>3, <1>6, <1>7, <1>10, <1>11, <2>1, HeaderRead
  <2>3. BasicAndMessageLen = BasicSize(q.csid) + FieldSize(q.fmt) + RestSize(q.fmt) /\ Fmt = q.fmt
    BY <1>3, <1>6, <1>7, BasicRead
  <2>4. BasicAndMessageLen = HeadSize(q) - IF q.ext THEN 1 ELSE 0
    <3>1. BasicSize(q.csid) \in Nat /\ FieldSize(q.fmt) \in Nat /\ RestSize(q.fmt) \in Nat
      BY <1>6, Sizes
    <3>2. QED
      BY <2>3, <3>1 DEF HeadSize
  <2>5. PICK h : h = HeaderOf(p, q)
    OBVIOUS
  <2>6. PICK m : m = prog[c]
    OBVIOUS
  <2>7. m = s.prog[c] \/ m = Begun(s, q)
    BY <1>1, <1>8, <1>10, <2>6 DEF ProgIs
  <2>8. InProgress(m, h) = Begun(s, q)
    <3>1. h = HeaderOf(s.prev[q.csid], q) /\ (m = s.prog[q.csid] \/ m = Begun(s, q))
      BY <1>8, <1>9, <2>5, <2>7
    <3>2. s \in Parser /\ q \in ChunkSent /\ Readable(s, q) /\ Fmt = q.fmt
      BY <1>6, <2>3
    <3>3. QED
      BY <3>1, <3>2, BegunTwice
  <2>9. DataSize(Begun(s, q)) = Len(q.body)
    BY <1>6, <1>11 DEF DataSize, Readable
  <2>10. QED
    BY <1>11, <2>1, <2>2, <2>4, <2>5, <2>6, <2>8, <2>9 DEF Chunk
<1>14. QED
  BY <1>5, <1>7, <1>8, <1>9, <1>12, <1>13

-----------------------------------------------------------------------------
(* The parser's steps *)

\* What the parser does leaves the peer alone.
LEMMA PeerSame ==
    ASSUME NEW s, UNCHANGED peerVars
    PROVE  (PeerInv' <=> PeerInv) /\ (PeerIs(s)' <=> PeerIs(s)) /\ completed' = completed
<1>1. enc' = enc /\ cur' = cur /\ outChunk' = outChunk /\ completed' = completed /\ started' = started
  BY DEF peerVars
<1>2. PeerInv' <=> PeerInv
  BY <1>1 DEF PeerInv, PeerType, ChunkInv, SendingInv
<1>3. PeerIs(s)' <=> PeerIs(s)
  BY <1>1 DEF PeerIs, ExtendedInv
<1>4. QED
  BY <1>1, <1>2, <1>3

\* Any number of units arriving keeps the invariant.
LEMMA ReadInv ==
    ASSUME IInv, NEW k \in 1 .. Len(net), Read(k)
    PROVE  IInv'
<1>1. /\ buf' = buf \o SubSeq(net, 1, k) /\ net' = SubSeq(net, k + 1, Len(net))
      /\ parsing' = TRUE /\ derailed' = ~AtBoundary(buf')
      /\ UNCHANGED peerVars /\ prev' = prev /\ prog' = prog
      /\ inChunk' = inChunk /\ delivered' = delivered
  BY DEF Read
<1>2. PICK r, n, Q, P, at, W : Explains(r, n, Q, P, at, W)
  BY DEF IInv
<1>3. /\ IsHistory(n, Q, P, at, W) /\ r \in 0 .. n /\ UnreadIs(r, n, at, W)
      /\ PeerIs(P[n]) /\ ParserIs(P[r]) /\ ProgIs(P[r], r, n, Q)
      /\ \A i \in 0 .. n : IsPrefix(P[i].out, completed)
  BY <1>2 DEF Explains
<1>4. at[n] \in Nat /\ at[r] \in Nat
  BY <1>3 DEF IsHistory
<1>5. /\ buf \in Seq(Unit) /\ net \in Seq(Unit)
      /\ Len(buf) + Len(net) = at[n] - at[r]
      /\ \A j \in 1 .. Len(buf) : buf[j] = W[at[r] + j]
      /\ \A j \in 1 .. Len(net) : net[j] = W[at[r] + Len(buf) + j]
  BY <1>3 DEF UnreadIs
<1>6. Len(buf) \in Nat /\ Len(net) \in Nat /\ k \in Nat /\ k <= Len(net) /\ k > 0
  BY <1>5, LenProperties
<1>7. PICK a : a = SubSeq(net, 1, k)
  OBVIOUS
<1>8. a \in Seq(Unit) /\ Len(a) = k /\ \A i \in 1 .. k : a[i] = net[i]
  <2>1. 0 \in Nat /\ 0 + k <= Len(net) /\ 0 + 1 = 1 /\ 0 + k = k
    BY <1>6
  <2>2. /\ SubSeq(net, 0 + 1, 0 + k) \in Seq(Unit)
        /\ Len(SubSeq(net, 0 + 1, 0 + k)) = k
        /\ \A i \in 1 .. k : SubSeq(net, 0 + 1, 0 + k)[i] = net[0 + i]
    BY <1>5, <1>6, <2>1, PartIs
  <2>3. SubSeq(net, 0 + 1, 0 + k) = a
    BY <1>7, <2>1
  <2>4. \A i \in 1 .. k : 0 + i = i
    BY <1>6
  <2>5. QED
    BY <2>2, <2>3, <2>4
<1>9. /\ buf' \in Seq(Unit) /\ Len(buf') = Len(buf) + k
      /\ \A i \in 1 .. Len(buf) : buf'[i] = buf[i]
      /\ \A i \in 1 .. k : buf'[Len(buf) + i] = a[i]
  <2>1. buf' = buf \o a
    BY <1>1, <1>7
  <2>2. a \in Seq(Unit) /\ buf \in Seq(Unit) /\ Len(a) = k
    BY <1>5, <1>8
  <2>3. PICK b : b = buf
    OBVIOUS
  <2>4. PICK x : x = b \o a
    OBVIOUS
  <2>5. a \in Seq(Unit) /\ b \in Seq(Unit)
    BY <2>2, <2>3
  <2>6. x \in Seq(Unit)
    BY <2>5, <2>4, CatIs
  <2>7. Len(x) = Len(b) + Len(a)
    BY <2>5, <2>4, CatIs
  <2>8. \A i \in 1 .. Len(b) : x[i] = b[i]
    BY <2>5, <2>4, CatIs
  <2>9. \A i \in 1 .. Len(a) : x[Len(b) + i] = a[i]
    BY <2>5, <2>4, CatIs
  <2>10. /\ x \in Seq(Unit) /\ Len(x) = Len(b) + Len(a)
         /\ \A i \in 1 .. Len(b) : x[i] = b[i]
         /\ \A i \in 1 .. Len(a) : x[Len(b) + i] = a[i]
    BY <2>6, <2>7, <2>8, <2>9
  <2>11. QED
    BY <2>1, <2>2, <2>3, <2>4, <2>10
<1>10. /\ net' \in Seq(Unit) /\ Len(net') = Len(net) - k
       /\ \A i \in 1 .. Len(net) - k : net'[i] = net[k + i]
  BY <1>1, <1>5, <1>6, RestIs
<1>11. \A j \in 1 .. Len(buf') : buf'[j] = W[at[r] + j]
  <2>1. ASSUME NEW j \in 1 .. Len(buf') PROVE buf'[j] = W[at[r] + j]
    <3>1. CASE j <= Len(buf)
      BY <1>5, <1>6, <1>9, <3>1
    <3>2. CASE j > Len(buf)
      <4>1. PICK i : i = j - Len(buf)
        OBVIOUS
      <4>2. i \in 1 .. k /\ i \in 1 .. Len(net) /\ j = Len(buf) + i
        BY <1>6, <1>9, <3>2, <4>1
      <4>3. buf'[j] = W[at[r] + Len(buf) + i]
        BY <1>5, <1>8, <1>9, <4>2
      <4>4. at[r] + Len(buf) + i = at[r] + j
        BY <1>4, <1>6, <4>2
      <4>5. QED
        BY <4>3, <4>4
    <3>3. QED
      BY <1>6, <1>9, <3>1, <3>2
  <2>2. QED
    BY <2>1
<1>12. \A j \in 1 .. Len(net') : net'[j] = W[at[r] + Len(buf') + j]
  <2>1. ASSUME NEW j \in 1 .. Len(net') PROVE net'[j] = W[at[r] + Len(buf') + j]
    <3>1. k + j \in 1 .. Len(net) /\ j \in 1 .. Len(net) - k
      BY <1>6, <1>10
    <3>2. net'[j] = W[at[r] + Len(buf) + (k + j)]
      BY <1>5, <1>10, <3>1
    <3>3. at[r] + Len(buf) + (k + j) = at[r] + Len(buf') + j
      BY <1>4, <1>6, <1>9, <3>1
    <3>4. QED
      BY <3>2, <3>3
  <2>2. QED
    BY <2>1
<1>13. UnreadIs(r, n, at, W)'
  BY <1>5, <1>6, <1>9, <1>10, <1>11, <1>12 DEF UnreadIs
<1>14. derailed' = FALSE
  <2>1. PICK b : b = buf'
    OBVIOUS
  <2>2. b \in Seq(Unit) /\ Len(b) <= at[n] - at[r] /\ \A j \in 1 .. Len(b) : b[j] = W[at[r] + j]
    <3>1. Len(buf') <= at[n] - at[r]
      BY <1>4, <1>5, <1>6, <1>9
    <3>2. QED
      BY <1>9, <1>11, <2>1, <3>1
  <2>3. AtBoundary(b)
    BY <1>3, <2>2, BoundaryAt
  <2>4. QED
    BY <1>1, <2>1, <2>3
<1>15. Explains(r, n, Q, P, at, W)'
  <2>1. PeerIs(P[n])' /\ \A i \in 0 .. n : IsPrefix(P[i].out, completed')
    BY <1>1, <1>3, PeerSame
  <2>2. ParserIs(P[r])' /\ ProgIs(P[r], r, n, Q)'
    BY <1>1, <1>3 DEF ParserIs, ProgIs
  <2>3. Returned(r, n, Q)'
    BY <1>1 DEF Returned
  <2>4. QED
    BY <1>3, <1>13, <2>1, <2>2, <2>3 DEF Explains
<1>16. PeerInv'
  BY <1>1, PeerSame DEF IInv
<1>17. QED
  BY <1>1, <1>14, <1>15, <1>16 DEF IInv

\* Nothing but `parsing' changes, and Returned holds because a header is missing.
LEMMA WaitForHeaderInv ==
    ASSUME IInv, WaitForHeader
    PROVE  IInv'
<1>1. /\ buf # <<>> => ~HeaderComplete
      /\ parsing' = FALSE
      /\ UNCHANGED peerVars /\ buf' = buf /\ net' = net
      /\ prev' = prev /\ prog' = prog /\ inChunk' = inChunk /\ delivered' = delivered
      /\ derailed' = derailed
  BY DEF WaitForHeader, parserVars
<1>2. PICK r, n, Q, P, at, W : Explains(r, n, Q, P, at, W)
  BY DEF IInv
<1>3. /\ IsHistory(n, Q, P, at, W) /\ r \in 0 .. n /\ UnreadIs(r, n, at, W)
      /\ PeerIs(P[n]) /\ ParserIs(P[r]) /\ ProgIs(P[r], r, n, Q)
      /\ \A i \in 0 .. n : IsPrefix(P[i].out, completed)
  BY <1>2 DEF Explains
<1>4. r = n \/ Len(buf) < Len(Units(Q[r + 1]))
  <2> SUFFICES ASSUME r # n PROVE Len(buf) < Len(Units(Q[r + 1]))
    OBVIOUS
  <2>1. PICK q : q = Q[r + 1]
    OBVIOUS
  <2>2. q \in ChunkSent
    <3>1. r < n
      BY <1>3 DEF IsHistory
    <3>2. QED
      BY <1>3, <2>1, <3>1, NextChunk
  <2>3. /\ BasicSize(q.csid) \in 1 .. 3 /\ HeadSize(q) >= BasicSize(q.csid) + FieldSize(q.fmt) + RestSize(q.fmt)
        /\ FieldSize(q.fmt) \in 0 .. 1 /\ RestSize(q.fmt) \in 0 .. 1
        /\ HeadSize(q) \in Nat
        /\ Len(q.body) \in Nat /\ Len(Units(q)) = HeadSize(q) + Len(q.body)
    BY <2>2, Sizes
  <2>4. CASE buf = <<>>
    BY <2>1, <2>3, <2>4
  <2>5. CASE buf # <<>>
    <3>1. ~(Len(buf) >= HeadSize(q))
      BY <1>1, <1>2, <2>1, <2>5, ChunkRead
    <3>2. Len(buf) \in Nat
      BY <1>3, LenProperties DEF UnreadIs
    <3>3. QED
      BY <2>1, <2>3, <3>1, <3>2
  <2>6. QED
    BY <2>4, <2>5
<1>5. Explains(r, n, Q, P, at, W)'
  <2>1. PeerIs(P[n])' /\ \A i \in 0 .. n : IsPrefix(P[i].out, completed')
    BY <1>1, <1>3, PeerSame
  <2>2. ParserIs(P[r])' /\ ProgIs(P[r], r, n, Q)'
    BY <1>1, <1>3 DEF ParserIs, ProgIs
  <2>3. Returned(r, n, Q)'
    BY <1>1, <1>4 DEF Returned
  <2>4. UnreadIs(r, n, at, W)'
    BY <1>1, <1>3 DEF UnreadIs
  <2>5. QED
    BY <1>3, <2>1, <2>2, <2>3, <2>4 DEF Explains
<1>6. PeerInv'
  BY <1>1, PeerSame DEF IInv
<1>7. QED
  BY <1>1, <1>5, <1>6 DEF IInv

\* The message in progress takes the header, as it will again when the data is there.
LEMMA WaitForDataInv ==
    ASSUME IInv, WaitForData
    PROVE  IInv'
<1>1. /\ buf # <<>> /\ HeaderComplete
      /\ Len(buf) < Chunk.headerLen + Chunk.dataLen
      /\ prog' = [prog EXCEPT ![Chunk.csid] = Chunk.msg]
      /\ parsing' = FALSE
      /\ UNCHANGED peerVars /\ buf' = buf /\ net' = net
      /\ prev' = prev /\ inChunk' = inChunk /\ delivered' = delivered /\ derailed' = derailed
  BY DEF WaitForData, HeaderThere
<1>2. PICK r, n, Q, P, at, W : Explains(r, n, Q, P, at, W)
  BY DEF IInv
<1>3. /\ IsHistory(n, Q, P, at, W) /\ r \in 0 .. n /\ UnreadIs(r, n, at, W)
      /\ PeerIs(P[n]) /\ ParserIs(P[r]) /\ ProgIs(P[r], r, n, Q)
      /\ \A i \in 0 .. n : IsPrefix(P[i].out, completed)
  BY <1>2 DEF Explains
<1>4. PICK q : q = Q[r + 1]
  OBVIOUS
<1>5. PICK s : s = P[r]
  OBVIOUS
<1>6. /\ r < n
      /\ Chunk = [csid |-> q.csid, header |-> HeaderOf(s.prev[q.csid], q),
                  msg |-> Begun(s, q), headerLen |-> HeadSize(q), dataLen |-> Len(q.body)]
  BY <1>1, <1>2, <1>4, <1>5, ChunkRead
<1>7. q \in ChunkSent /\ s \in Parser
  BY <1>3, <1>4, <1>5, <1>6, NextChunk
<1>8. Len(buf) < Len(Units(q))
  BY <1>1, <1>6, <1>7, Sizes
<1>9. prog' = [s.prog EXCEPT ![q.csid] = Begun(s, q)]
  <2>1. prog' = [prog EXCEPT ![q.csid] = Begun(s, q)]
    BY <1>1, <1>6
  <2>2. q.csid \in Csids /\ s.prog \in [Csids -> Message]
    BY <1>7 DEF ChunkSent, Parser
  <2>3. prog = s.prog \/ prog = [s.prog EXCEPT ![q.csid] = Begun(s, q)]
    BY <1>3, <1>4, <1>5 DEF ProgIs
  <2>4. PICK b : b = Begun(s, q)
    OBVIOUS
  <2>5. QED
    BY <2>1, <2>2, <2>3, <2>4
<1>10. Explains(r, n, Q, P, at, W)'
  <2>1. PeerIs(P[n])' /\ \A i \in 0 .. n : IsPrefix(P[i].out, completed')
    BY <1>1, <1>3, PeerSame
  <2>2. ParserIs(P[r])' /\ ProgIs(P[r], r, n, Q)'
    BY <1>1, <1>3, <1>4, <1>5, <1>6, <1>9 DEF ParserIs, ProgIs
  <2>3. Returned(r, n, Q)'
    BY <1>1, <1>4, <1>8 DEF Returned
  <2>4. UnreadIs(r, n, at, W)'
    BY <1>1, <1>3 DEF UnreadIs
  <2>5. QED
    BY <1>3, <2>1, <2>2, <2>3, <2>4 DEF Explains
<1>11. PeerInv'
  BY <1>1, PeerSame DEF IInv
<1>12. QED
  BY <1>1, <1>10, <1>11 DEF IInv

\* The data of a chunk that is all there.
LEMMA DataRead ==
    ASSUME NEW q \in ChunkSent, buf \in Seq(Unit), Begins(q), Len(buf) >= Len(Units(q))
    PROVE  /\ SubSeq(buf, HeadSize(q) + 1, HeadSize(q) + Len(q.body)) = q.body
           /\ \A i \in 1 .. Len(q.body) : buf[HeadSize(q) + i].k = "data"
           /\ q.ext => buf[HeadSize(q)].k = "ext"
<1>1. PICK u : u = Units(q)
  OBVIOUS
<1>2. PICK h : h = HeadSize(q)
  OBVIOUS
<1>3. PICK d : d = q.body
  OBVIOUS
<1>4. h \in Nat /\ h >= 1 /\ Len(d) \in Nat /\ Len(u) = h + Len(d) /\ Len(buf) \in Nat
  <2>1. /\ BasicSize(q.csid) \in 1 .. 3
        /\ FieldSize(q.fmt) \in 0 .. 1 /\ RestSize(q.fmt) \in 0 .. 1
        /\ h >= BasicSize(q.csid) + FieldSize(q.fmt) + RestSize(q.fmt)
        /\ h \in Nat
    BY <1>2, Sizes
  <2>2. Len(d) \in Nat /\ Len(u) = h + Len(d)
    BY <1>1, <1>2, <1>3, Sizes
  <2>3. QED
    BY <2>1, <2>2, LenProperties
<1>5. \A i \in 1 .. Len(d) : u[h + i] = d[i]
  BY <1>1, <1>2, <1>3, UnitsAre
<1>6. \A j \in 1 .. Len(u) : buf[j] = u[j]
  BY <1>1, <1>4 DEF Begins
<1>7. \A i \in 1 .. Len(d) : buf[h + i] = d[i]
  <2>1. ASSUME NEW i \in 1 .. Len(d) PROVE buf[h + i] = d[i]
    <3>1. h + i \in 1 .. Len(u)
      BY <1>4
    <3>2. QED
      BY <1>5, <1>6, <3>1
  <2>2. QED
    BY <2>1
<1>8. d \in Seq(DataUnit)
  BY <1>3 DEF ChunkSent
<1>9. PICK x : x = SubSeq(buf, h + 1, h + Len(d))
  OBVIOUS
<1>10. x \in Seq(Unit) /\ Len(x) = Len(d) /\ \A i \in 1 .. Len(d) : x[i] = buf[h + i]
  <2>1. h \in Nat /\ Len(d) \in Nat /\ h + Len(d) <= Len(buf)
    BY <1>1, <1>4
  <2>2. QED
    BY <1>9, <2>1, PartIs
<1>11. x = d
  <2>1. d \in Seq(Unit)
    <3>1. DataUnit \subseteq Unit
      BY DEF Unit
    <3>2. QED
      BY <1>8, <3>1
  <2>2. \A i \in 1 .. Len(x) : x[i] = d[i]
    BY <1>7, <1>10
  <2>3. QED
    BY <1>10, <2>1, <2>2, SeqEqual
<1>12. \A i \in 1 .. Len(d) : buf[h + i].k = "data"
  <2>1. ASSUME NEW i \in 1 .. Len(d) PROVE buf[h + i].k = "data"
    <3>1. d[i] \in DataUnit
      BY <1>8, SeqElement
    <3>2. d[i].k = "data"
      BY <3>1 DEF DataUnit
    <3>3. QED
      BY <1>7, <3>2
  <2>2. QED
    BY <2>1
<1>13. q.ext => buf[h].k = "ext"
  <2>1. h \in 1 .. Len(u)
    BY <1>4
  <2>2. q.ext => u[h].k = "ext"
    BY <1>1, <1>2, UnitsAre
  <2>3. QED
    BY <1>6, <2>1, <2>2
<1>14. QED
  BY <1>2, <1>3, <1>9, <1>11, <1>12, <1>13

\* ParseChunk takes the parser from before a chunk to after it.
LEMMA ParseChunkInv ==
    ASSUME IInv, ParseChunk
    PROVE  IInv'
<1>1. PICK r, n, Q, P, at, W : Explains(r, n, Q, P, at, W)
  BY DEF IInv
<1>2. /\ IsHistory(n, Q, P, at, W) /\ r \in 0 .. n /\ UnreadIs(r, n, at, W)
      /\ PeerIs(P[n]) /\ ParserIs(P[r]) /\ ProgIs(P[r], r, n, Q)
      /\ \A i \in 0 .. n : IsPrefix(P[i].out, completed)
  BY <1>1 DEF Explains
<1>3. PICK q : q = Q[r + 1]
  OBVIOUS
<1>4. PICK s : s = P[r]
  OBVIOUS
<1>5. parsing /\ buf # <<>> /\ HeaderComplete
  BY DEF ParseChunk, HeaderThere
<1>6. PICK b : b = Begun(s, q)
  OBVIOUS
<1>7. PICK h : h = HeaderOf(s.prev[q.csid], q)
  OBVIOUS
<1>8. PICK H : H = HeadSize(q)
  OBVIOUS
<1>9. PICK D : D = Len(q.body)
  OBVIOUS
<1>10. PICK c : c = q.csid
  OBVIOUS
<1>11. /\ r < n /\ Begins(q)
       /\ BasicAndMessageLen = HeadSize(q) - IF q.ext THEN 1 ELSE 0
       /\ Chunk = [csid |-> c, header |-> h, msg |-> b, headerLen |-> H, dataLen |-> D]
  BY <1>1, <1>3, <1>4, <1>5, <1>6, <1>7, <1>8, <1>9, <1>10, ChunkRead
<1>12. /\ q \in ChunkSent /\ s \in Parser /\ Readable(s, q) /\ P[r + 1] = After(s, q)
       /\ r + 1 \in 0 .. n
       /\ at[r] \in Nat /\ at[r + 1] = at[r] + Len(Units(q)) /\ at[r + 1] <= at[n] /\ at[n] \in Nat
  BY <1>2, <1>3, <1>4, <1>11, NextChunk
<1>13. H \in Nat /\ D \in Nat /\ Len(Units(q)) = H + D
  BY <1>8, <1>9, <1>12, Sizes
<1>14. PICK m : m = [b EXCEPT !.payload = @ \o SubSeq(buf, H + 1, H + D)]
  OBVIOUS
<1>15. /\ Len(buf) >= H + D
       /\ buf' = SubSeq(buf, H + D + 1, Len(buf))
       /\ derailed' = ~(Recognised(Chunk) /\ AtBoundary(buf'))
       /\ prev' = [prev EXCEPT ![c] = h]
       /\ IF IsComplete(m)
          THEN /\ delivered' = Append(delivered, m)
               /\ prog' = [prog EXCEPT ![c] = NoMessage]
               /\ IF m.type = "SetChunkSize"
                  THEN SetInChunkSize(m.payload[1].val)
                  ELSE inChunk' = inChunk
          ELSE /\ prog' = [prog EXCEPT ![c] = m]
               /\ delivered' = delivered /\ inChunk' = inChunk
  <2>1. PICK ch : ch = Chunk
    OBVIOUS
  <2>2. ch.csid = c /\ ch.header = h /\ ch.msg = b /\ ch.headerLen = H /\ ch.dataLen = D
    BY <1>11, <2>1
  <2>3. m = [ch.msg EXCEPT !.payload =
                @ \o SubSeq(buf, ch.headerLen + 1, ch.headerLen + ch.dataLen)]
    BY <1>14, <2>2
  <2>4. /\ Len(buf) >= ch.headerLen + ch.dataLen
        /\ buf' = SubSeq(buf, ch.headerLen + ch.dataLen + 1, Len(buf))
        /\ derailed' = ~(Recognised(ch) /\ AtBoundary(buf'))
        /\ prev' = [prev EXCEPT ![ch.csid] = ch.header]
        /\ IF IsComplete(m)
           THEN /\ delivered' = Append(delivered, m)
                /\ prog' = [prog EXCEPT ![ch.csid] = NoMessage]
                /\ IF m.type = "SetChunkSize"
                   THEN SetInChunkSize(m.payload[1].val)
                   ELSE inChunk' = inChunk
           ELSE /\ prog' = [prog EXCEPT ![ch.csid] = m]
                /\ delivered' = delivered /\ inChunk' = inChunk
    BY <2>1, <2>3 DEF ParseChunk
  <2>5. QED
    BY <2>1, <2>2, <2>4
<1>16. parsing' = TRUE /\ UNCHANGED peerVars /\ net' = net
  BY DEF ParseChunk, KeepParsing
<1>17. /\ buf \in Seq(Unit) /\ net \in Seq(Unit)
       /\ Len(buf) + Len(net) = at[n] - at[r]
       /\ \A j \in 1 .. Len(buf) : buf[j] = W[at[r] + j]
       /\ \A j \in 1 .. Len(net) : net[j] = W[at[r] + Len(buf) + j]
  BY <1>2 DEF UnreadIs
<1>18. Len(buf) \in Nat /\ Len(net) \in Nat
  BY <1>17, LenProperties
<1>19. /\ SubSeq(buf, H + 1, H + D) = q.body
       /\ \A i \in 1 .. D : buf[H + i].k = "data"
       /\ q.ext => buf[H].k = "ext"
  <2>1. Len(buf) >= Len(Units(q))
    BY <1>13, <1>15
  <2>2. QED
    BY <1>8, <1>9, <1>11, <1>12, <1>17, <2>1, DataRead
<1>20. m = Taken(s, q)
  BY <1>6, <1>14, <1>19 DEF Taken
<1>21. Recognised(Chunk)
  <2>1. H > BasicAndMessageLen => buf[H].k = "ext"
    <3>1. H > BasicAndMessageLen => q.ext
      BY <1>8, <1>11, <1>13
    <3>2. QED
      BY <1>19, <3>1
  <2>2. Chunk.headerLen = H /\ Chunk.dataLen = D
    BY <1>11
  <2>3. QED
    BY <1>19, <2>1, <2>2 DEF Recognised
<1>22. PICK t : t = buf'
  OBVIOUS
<1>23. /\ t \in Seq(Unit) /\ Len(t) = Len(buf) - (H + D)
       /\ \A j \in 1 .. Len(buf) - (H + D) : t[j] = buf[H + D + j]
  <2>1. PICK k : k = H + D
    OBVIOUS
  <2>2. k \in 0 .. Len(buf) /\ t = SubSeq(buf, k + 1, Len(buf))
    BY <1>13, <1>15, <1>18, <1>22, <2>1
  <2>3. t \in Seq(Unit) /\ Len(t) = Len(buf) - k
    BY <1>17, <2>2, RestIs
  <2>4. \A j \in 1 .. Len(buf) - k : t[j] = buf[k + j]
    BY <1>17, <2>2, RestIs
  <2>5. QED
    BY <2>1, <2>3, <2>4
<1>24. Len(t) \in Nat
  BY <1>23, LenProperties
<1>25. at[r + 1] + Len(t) = at[r] + Len(buf) /\ Len(t) + Len(net) = at[n] - at[r + 1]
  <2>1. PICK x : x = at[r]
    OBVIOUS
  <2>2. PICK y : y = at[r + 1]
    OBVIOUS
  <2>3. PICK z : z = at[n]
    OBVIOUS
  <2>4. x \in Nat /\ y = x + (H + D) /\ z \in Nat
    BY <1>12, <1>13, <2>1, <2>2, <2>3
  <2>5. Len(t) = Len(buf) - (H + D) /\ Len(buf) + Len(net) = z - x
    BY <1>17, <1>23, <2>1, <2>3
  <2>6. y + Len(t) = x + Len(buf) /\ Len(t) + Len(net) = z - y
    BY <1>13, <1>18, <2>4, <2>5
  <2>7. QED
    BY <2>1, <2>2, <2>3, <2>6
<1>26. \A j \in 1 .. Len(t) : t[j] = W[at[r + 1] + j]
  <2>1. ASSUME NEW j \in 1 .. Len(t) PROVE t[j] = W[at[r + 1] + j]
    <3>1. j \in 1 .. Len(buf) - (H + D) /\ H + D + j \in 1 .. Len(buf)
      BY <1>13, <1>18, <1>23
    <3>2. t[j] = W[at[r] + (H + D + j)]
      BY <1>17, <1>23, <3>1
    <3>3. at[r] + (H + D + j) = at[r + 1] + j
      BY <1>12, <1>13
    <3>4. QED
      BY <3>2, <3>3
  <2>2. QED
    BY <2>1
<1>27. UnreadIs(r + 1, n, at, W)'
  <2>1. \A j \in 1 .. Len(net) : net[j] = W[at[r + 1] + Len(t) + j]
    BY <1>17, <1>25
  <2>2. QED
    BY <1>16, <1>17, <1>22, <1>23, <1>25, <1>26, <2>1 DEF UnreadIs
<1>28. derailed' = FALSE
  <2>1. Len(t) <= at[n] - at[r + 1]
    BY <1>12, <1>18, <1>24, <1>25
  <2>2. PICK k : k = r + 1
    OBVIOUS
  <2>3. /\ IsHistory(n, Q, P, at, W) /\ k \in 0 .. n /\ t \in Seq(Unit)
        /\ Len(t) <= at[n] - at[k] /\ \A j \in 1 .. Len(t) : t[j] = W[at[k] + j]
    BY <1>2, <1>12, <1>23, <1>26, <2>1, <2>2
  <2>4. AtBoundary(t)
    BY <2>3, BoundaryAt
  <2>5. QED
    BY <1>15, <1>21, <1>22, <2>4
<1>29. c \in Csids /\ s.prog \in [Csids -> Message] /\ s.prev \in [Csids -> Header]
  BY <1>10, <1>12 DEF Parser, ChunkSent
<1>30. prev = s.prev /\ inChunk = s.chunk /\ delivered = s.out
       /\ (prog = s.prog \/ prog = [s.prog EXCEPT ![c] = b])
  BY <1>2, <1>3, <1>4, <1>6, <1>10 DEF ParserIs, ProgIs
<1>31. \A x : [prog EXCEPT ![c] = x] = [s.prog EXCEPT ![c] = x]
  BY <1>29, <1>30
<1>32. ParserIs(After(s, q))' /\ prog' = After(s, q).prog
  <2>1. CASE IsComplete(m)
    <3>1. After(s, q) = [prev |-> [s.prev EXCEPT ![c] = h],
                         prog |-> [s.prog EXCEPT ![c] = NoMessage],
                         chunk |-> IF m.type = "SetChunkSize"
                                   THEN NewChunk(s.chunk, m.payload[1].val) ELSE s.chunk,
                         out |-> Append(s.out, m)]
      BY <1>7, <1>10, <1>20, <2>1 DEF After
    <3>2. inChunk' = IF m.type = "SetChunkSize"
                     THEN NewChunk(s.chunk, m.payload[1].val) ELSE s.chunk
      BY <1>15, <1>30, <2>1 DEF SetInChunkSize, NewChunk
    <3>3. prev' = [s.prev EXCEPT ![c] = h] /\ delivered' = Append(s.out, m)
          /\ prog' = [s.prog EXCEPT ![c] = NoMessage]
      BY <1>15, <1>30, <1>31, <2>1
    <3>4. QED
      BY <3>1, <3>2, <3>3 DEF ParserIs
  <2>2. CASE ~IsComplete(m)
    <3>1. After(s, q) = [prev |-> [s.prev EXCEPT ![c] = h],
                         prog |-> [s.prog EXCEPT ![c] = m],
                         chunk |-> s.chunk, out |-> s.out]
      BY <1>7, <1>10, <1>20, <2>2 DEF After
    <3>2. prev' = [s.prev EXCEPT ![c] = h] /\ delivered' = s.out /\ inChunk' = s.chunk
          /\ prog' = [s.prog EXCEPT ![c] = m]
      BY <1>15, <1>30, <1>31, <2>2
    <3>3. QED
      BY <3>1, <3>2 DEF ParserIs
  <2>3. QED
    BY <2>1, <2>2
<1>33. Explains(r + 1, n, Q, P, at, W)'
  <2>1. PeerIs(P[n])' /\ \A i \in 0 .. n : IsPrefix(P[i].out, completed')
    BY <1>2, <1>16, PeerSame
  <2>2. ParserIs(P[r + 1])' /\ ProgIs(P[r + 1], r + 1, n, Q)'
    BY <1>12, <1>32 DEF ParserIs, ProgIs
  <2>3. Returned(r + 1, n, Q)'
    BY <1>16 DEF Returned
  <2>4. QED
    BY <1>2, <1>12, <1>27, <2>1, <2>2, <2>3 DEF Explains
<1>34. PeerInv'
  BY <1>16, PeerSame DEF IInv
<1>35. \E x, n1, Q1, P1, at1, W1 : Explains(x, n1, Q1, P1, at1, W1)'
  BY <1>33
<1>36. QED
  BY <1>16, <1>28, <1>34, <1>35 DEF IInv

-----------------------------------------------------------------------------
(* The peer's chunks *)

Sending == [ts : 0 .. TsMod - 1, len : Nat, type : Types, id : Nat, val : Nat, done : Nat]

\* x is k bytes of the payload of m, the first a left out.
IsBytes(x, m, a, k) ==
    x \in Seq(DataUnit) /\ Len(x) = k /\ \A i \in 1 .. k : x[i] = Byte(m, a + i)

\* Bytes(m, a, k) is a sequence of k payload bytes.
LEMMA BytesAre ==
    ASSUME NEW m \in Sending, NEW a \in Nat, NEW k \in Nat
    PROVE  IsBytes(Bytes(m, a, k), m, a, k)
<1>1. \A i \in Nat : Byte(m, a + i) \in DataUnit
  BY DEF Byte, DataUnit, Sending
<1>2. \A i \in 1 .. k : Byte(m, a + i) \in DataUnit
  BY <1>1
<1>3. Bytes(m, a, k) \in [1 .. k -> DataUnit]
  BY <1>2 DEF Bytes
<1>4. \A i \in 1 .. k : Bytes(m, a, k)[i] = Byte(m, a + i)
  BY DEF Bytes
<1>5. QED
  BY <1>3, <1>4, SeqDef, LenProperties DEF IsBytes

\* The first a bytes and the next k are the first a + k.
LEMMA BytesCat ==
    ASSUME NEW m \in Sending, NEW a \in Nat, NEW k \in Nat
    PROVE  Bytes(m, 0, a) \o Bytes(m, a, k) = Bytes(m, 0, a + k)
<1>1. PICK x : x = Bytes(m, 0, a)
  OBVIOUS
<1>2. PICK y : y = Bytes(m, a, k)
  OBVIOUS
<1>3. PICK z : z = Bytes(m, 0, a + k)
  OBVIOUS
<1>4. 0 \in Nat /\ a + k \in Nat
  OBVIOUS
<1>5. x \in Seq(DataUnit) /\ Len(x) = a /\ \A i \in 1 .. a : x[i] = Byte(m, 0 + i)
  BY <1>1, <1>4, BytesAre DEF IsBytes
<1>6. y \in Seq(DataUnit) /\ Len(y) = k /\ \A i \in 1 .. k : y[i] = Byte(m, a + i)
  BY <1>2, BytesAre DEF IsBytes
<1>7. z \in Seq(DataUnit) /\ Len(z) = a + k /\ \A i \in 1 .. a + k : z[i] = Byte(m, 0 + i)
  BY <1>3, <1>4, BytesAre DEF IsBytes
<1>8. PICK u : u = x \o y
  OBVIOUS
<1>9. x \in Seq(DataUnit) /\ y \in Seq(DataUnit)
  BY <1>5, <1>6
<1>10. u \in Seq(DataUnit)
  BY <1>9, <1>8, CatIs
<1>11. Len(u) = Len(x) + Len(y)
  BY <1>9, <1>8, CatIs
<1>12. \A i \in 1 .. Len(x) : u[i] = x[i]
  BY <1>9, <1>8, CatIs
<1>13. \A i \in 1 .. Len(y) : u[Len(x) + i] = y[i]
  BY <1>9, <1>8, CatIs
<1>14. \A i \in 1 .. Len(u) : u[i] = z[i]
  <2>1. ASSUME NEW i \in 1 .. Len(u) PROVE u[i] = z[i]
    <3>1. i \in 1 .. a + k /\ 0 + i = i
      BY <1>5, <1>6, <1>11
    <3>2. z[i] = Byte(m, i)
      BY <1>7, <3>1
    <3>3. CASE i <= a
      <4>1. i \in 1 .. a
        BY <3>1, <3>3
      <4>2. QED
        BY <1>5, <1>12, <3>1, <3>2, <4>1
    <3>4. CASE i > a
      <4>1. PICK j : j = i - a
        OBVIOUS
      <4>2. j \in 1 .. k /\ a + j = i
        BY <3>1, <3>4, <4>1
      <4>3. u[i] = Byte(m, a + j)
        BY <1>5, <1>6, <1>13, <4>2
      <4>4. QED
        BY <3>2, <4>2, <4>3
    <3>5. QED
      BY <3>1, <3>3, <3>4
  <2>2. QED
    BY <2>1
<1>15. Len(u) = Len(z)
  BY <1>5, <1>6, <1>7, <1>11
<1>16. u = z
  BY <1>7, <1>10, <1>14, <1>15, SeqEqual
<1>17. QED
  BY <1>1, <1>2, <1>3, <1>8, <1>16

\* The payload depends on the message and not on how much of it has been sent.
LEMMA BytesSame ==
    ASSUME NEW m, NEW x, m.id = x.id, m.val = x.val, NEW k \in Nat
    PROVE  Bytes(m, 0, k) = Bytes(x, 0, k)
BY DEF Bytes, Byte

\* The parser t, which has read q, is where the peer is that has sent k bytes of m on c.
Advanced(s, q, c, m, k, t) ==
    /\ k \in Nat
    /\ t \in Parser
    /\ t.prev = [s.prev EXCEPT ![c] = HeaderOf(s.prev[c], q)]
    /\ t.chunk = outChunk' /\ t.out = completed'
    /\ completed' = completed \/ \E x \in Message : completed' = Append(completed, x)
    /\ cur' \in [Csids -> Sending]
    /\ \A d \in Csids \ {c} : cur'[d] = cur[d] /\ t.prog[d] = s.prog[d]
    /\ outChunk' = outChunk \/ (m.type = "SetChunkSize" /\ m.val > 0 /\ outChunk' = m.val)
    /\ m.len - m.done <= outChunk => cur'[c] = Idle
    /\ cur'[c] = Idle => t.prog[c] = NoMessage
    /\ cur'[c] # Idle =>
         /\ cur'[c].done \in 1 .. m.len - 1 /\ m.type = "media"
         /\ cur'[c].ts = m.ts /\ cur'[c].len = m.len /\ cur'[c].type = m.type
         /\ t.prog[c] = [ts |-> m.ts, len |-> m.len, type |-> m.type,
                         payload |-> Bytes(cur'[c], 0, cur'[c].done)]

\* Sending k bytes of m on c does to the peer what reading q does to the parser.
LEMMA Advances ==
    ASSUME NEW s \in Parser, NEW q \in ChunkSent, NEW c \in Csids, c = q.csid,
           NEW m \in Sending, NEW k, k = MinOf(m.len - m.done, outChunk),
           m.done <= m.len,
           m.type = "SetChunkSize" => m.len = 1 /\ m.done = 0 /\ m.val <= MaxChunk,
           m.type # "SetChunkSize" => m.type = "media",
           NEW b, b = Begun(s, q),
           b = [ts |-> m.ts, len |-> m.len, type |-> m.type, payload |-> Bytes(m, 0, m.done)],
           q.body = Bytes(m, m.done, k),
           outChunk \in 1 .. MaxChunk, s.chunk = outChunk, s.out = completed,
           cur \in [Csids -> Sending],
           Advance(c, m, k),
           NEW t, t = After(s, q)
    PROVE  Advanced(s, q, c, m, k, t)
<1>1. /\ m.ts \in 0 .. TsMod - 1 /\ m.len \in Nat /\ m.type \in Types /\ m.id \in Nat
      /\ m.val \in Nat /\ m.done \in Nat
      /\ m = [ts |-> m.ts, len |-> m.len, type |-> m.type, id |-> m.id, val |-> m.val,
              done |-> m.done]
  BY DEF Sending
<1>2. k \in Nat /\ m.done + k <= m.len /\ (m.done < m.len => k > 0)
      /\ (m.len - m.done <= outChunk => m.done + k = m.len)
  BY <1>1 DEF MinOf
<1>3. PICK e : e = m.done + k
  OBVIOUS
<1>4. e \in Nat /\ e <= m.len
  BY <1>1, <1>2, <1>3
<1>5. Bytes(m, 0, m.done) \o q.body = Bytes(m, 0, e)
  <2>1. PICK a : a = m.done
    OBVIOUS
  <2>2. a \in Nat /\ k \in Nat /\ e = a + k /\ q.body = Bytes(m, a, k)
    BY <1>1, <1>2, <1>3, <2>1
  <2>3. Bytes(m, 0, a) \o Bytes(m, a, k) = Bytes(m, 0, a + k)
    BY <2>2, BytesCat
  <2>4. QED
    BY <2>1, <2>2, <2>3
<1>6. PICK w : w = Taken(s, q)
  OBVIOUS
<1>7. w = [ts |-> m.ts, len |-> m.len, type |-> m.type, payload |-> Bytes(m, 0, e)]
  <2>1. PICK y : y = Bytes(m, 0, e)
    OBVIOUS
  <2>2. b.payload = Bytes(m, 0, m.done)
    OBVIOUS
  <2>3. b.payload \o q.body = y
    BY <1>5, <2>1, <2>2
  <2>4. w = [b EXCEPT !.payload = y]
    BY <1>6, <2>3 DEF Taken
  <2>5. w = [ts |-> m.ts, len |-> m.len, type |-> m.type, payload |-> y]
    BY <2>4
  <2>6. QED
    BY <2>1, <2>5
<1>8. Bytes(m, 0, e) \in Seq(DataUnit) /\ Len(Bytes(m, 0, e)) = e
  BY <1>4, BytesAre DEF IsBytes
<1>9. w \in Message
  BY <1>1, <1>4, <1>7, <1>8 DEF Message
<1>10. IsComplete(w) <=> e = m.len
  BY <1>1, <1>4, <1>7, <1>8 DEF IsComplete
<1>11. PICK h : h = HeaderOf(s.prev[c], q)
  OBVIOUS
<1>12. /\ s.prev \in [Csids -> Header] /\ s.prog \in [Csids -> Message]
       /\ s.chunk \in 1 .. MaxChunk /\ s.out \in Seq(Message) /\ h \in Header
  <2>1. /\ s.prev \in [Csids -> Header] /\ s.prog \in [Csids -> Message]
        /\ s.chunk \in 1 .. MaxChunk /\ s.out \in Seq(Message)
    BY DEF Parser
  <2>2. s.prev[c] \in Header
    BY <2>1
  <2>3. QED
    BY <1>11, <2>1, <2>2, HeaderType
<1>13. NoMessage \in Message
  <2>1. 0 \in 0 .. TsMod - 1
    BY Limits
  <2>2. QED
    BY <2>1 DEF NoMessage, Message, Types
<1>14. CASE e = m.len
  <2>1. w = Whole(m)
    BY <1>7, <1>14 DEF Whole
  <2>2. /\ cur' = [cur EXCEPT ![c] = Idle] /\ completed' = Append(completed, w)
        /\ outChunk' = IF m.type = "SetChunkSize" /\ m.val > 0 THEN m.val ELSE outChunk
    BY <1>3, <1>14, <2>1 DEF Advance
  <2>3. Idle \in Sending
    <3>1. 0 \in 0 .. TsMod - 1
      BY Limits
    <3>2. QED
      BY <3>1 DEF Idle, Sending, Types
  <2>4. cur' \in [Csids -> Sending] /\ cur'[c] = Idle /\ \A d \in Csids \ {c} : cur'[d] = cur[d]
    BY <2>2, <2>3
  <2>5. PICK v : v = IF m.type = "SetChunkSize" THEN NewChunk(s.chunk, w.payload[1].val) ELSE s.chunk
    OBVIOUS
  <2>6. t = [prev |-> [s.prev EXCEPT ![c] = h], prog |-> [s.prog EXCEPT ![c] = NoMessage],
             chunk |-> v, out |-> Append(s.out, w)]
    <3>1. IsComplete(w) /\ w.type = m.type
      BY <1>7, <1>10, <1>14
    <3>2. QED
      BY <1>6, <1>11, <2>5, <3>1 DEF After
  <2>7. v = outChunk' /\ v \in 1 .. MaxChunk
    <3>1. CASE m.type = "SetChunkSize"
      <4>1. e = 1 /\ m.val <= MaxChunk
        BY <1>14, <3>1
      <4>2. w.payload[1] = Byte(m, 0 + 1)
        <5>1. 0 \in Nat /\ 1 \in 1 .. e
          BY <4>1
        <5>2. Bytes(m, 0, e)[1] = Byte(m, 0 + 1)
          BY <1>4, <5>1, BytesAre DEF IsBytes
        <5>3. QED
          BY <1>7, <5>2
      <4>3. w.payload[1].val = m.val
        BY <4>2 DEF Byte
      <4>4. v = IF m.val = 0 \/ m.val > MaxChunk THEN outChunk ELSE m.val
        BY <2>5, <3>1, <4>3 DEF NewChunk
      <4>5. outChunk' = IF m.val > 0 THEN m.val ELSE outChunk
        BY <2>2, <3>1
      <4>6. CASE m.val = 0
        BY <4>4, <4>5, <4>6
      <4>7. CASE m.val > 0
        <5>1. v = m.val
          BY <1>1, <4>1, <4>4, <4>7, Limits
        <5>2. QED
          BY <1>1, <4>1, <4>5, <4>7, <5>1
      <4>8. QED
        BY <1>1, <4>6, <4>7
    <3>2. CASE m.type # "SetChunkSize"
      BY <2>2, <2>5, <3>2
    <3>3. QED
      BY <3>1, <3>2
  <2>8. t \in Parser
    <3>1. [s.prev EXCEPT ![c] = h] \in [Csids -> Header]
      BY <1>12
    <3>2. [s.prog EXCEPT ![c] = NoMessage] \in [Csids -> Message]
      BY <1>12, <1>13
    <3>3. Append(s.out, w) \in Seq(Message)
      BY <1>9, <1>12
    <3>4. QED
      BY <2>6, <2>7, <3>1, <3>2, <3>3 DEF Parser
  <2>9. t.prog[c] = NoMessage /\ \A d \in Csids \ {c} : t.prog[d] = s.prog[d]
    BY <1>12, <2>6
  <2>10. t.chunk = outChunk' /\ t.out = completed'
    BY <2>2, <2>6, <2>7
  <2>11. t.prev = [s.prev EXCEPT ![c] = HeaderOf(s.prev[c], q)]
    BY <1>11, <2>6
  <2>12. outChunk' = outChunk \/ (m.type = "SetChunkSize" /\ m.val > 0 /\ outChunk' = m.val)
    BY <2>2
  <2>13. \E x \in Message : completed' = Append(completed, x)
    BY <1>9, <2>2
  <2>14. QED
    BY <1>2, <2>4, <2>8, <2>9, <2>10, <2>11, <2>12, <2>13 DEF Advanced
<1>15. CASE e # m.len
  <2>1. /\ cur' = [cur EXCEPT ![c] = [m EXCEPT !.done = e]]
        /\ completed' = completed /\ outChunk' = outChunk
    BY <1>3, <1>15 DEF Advance
  <2>2. PICK x : x = [m EXCEPT !.done = e]
    OBVIOUS
  <2>3. x = [ts |-> m.ts, len |-> m.len, type |-> m.type, id |-> m.id, val |-> m.val,
             done |-> e]
    BY <1>1, <2>2
  <2>4. x \in Sending /\ x.id = m.id /\ x.val = m.val /\ x.done = e /\ x.ts = m.ts
        /\ x.len = m.len /\ x.type = m.type
    BY <1>1, <1>4, <2>3 DEF Sending
  <2>5. e \in 1 .. m.len - 1
    BY <1>1, <1>2, <1>3, <1>4, <1>15
  <2>6. cur' \in [Csids -> Sending] /\ cur'[c] = x /\ \A d \in Csids \ {c} : cur'[d] = cur[d]
    BY <2>1, <2>2, <2>4
  <2>7. x # Idle
    BY <2>4, <2>5 DEF Idle
  <2>8. m.type = "media"
    <3>1. m.type # "SetChunkSize"
      BY <1>1, <2>5
    <3>2. QED
      BY <3>1
  <2>9. t = [prev |-> [s.prev EXCEPT ![c] = h], prog |-> [s.prog EXCEPT ![c] = w],
             chunk |-> s.chunk, out |-> s.out]
    BY <1>6, <1>10, <1>11, <1>15 DEF After
  <2>10. t \in Parser
    <3>1. [s.prev EXCEPT ![c] = h] \in [Csids -> Header]
      BY <1>12
    <3>2. [s.prog EXCEPT ![c] = w] \in [Csids -> Message]
      BY <1>9, <1>12
    <3>3. QED
      BY <1>12, <2>9, <3>1, <3>2 DEF Parser
  <2>11. t.prog[c] = w /\ \A d \in Csids \ {c} : t.prog[d] = s.prog[d]
    BY <1>12, <2>9
  <2>12. Bytes(m, 0, e) = Bytes(x, 0, e)
    BY <1>4, <2>4, BytesSame
  <2>13. t.prog[c] = [ts |-> m.ts, len |-> m.len, type |-> m.type,
                      payload |-> Bytes(cur'[c], 0, cur'[c].done)]
    BY <1>7, <2>4, <2>6, <2>11, <2>12
  <2>14. t.chunk = outChunk' /\ t.out = completed'
    BY <2>1, <2>9
  <2>15. t.prev = [s.prev EXCEPT ![c] = HeaderOf(s.prev[c], q)]
    BY <1>11, <2>9
  <2>16. ~(m.len - m.done <= outChunk)
    BY <1>2, <1>3, <1>15
  <2>17. QED
    BY <1>2, <2>1, <2>4, <2>5, <2>6, <2>7, <2>8, <2>10, <2>11, <2>13, <2>14, <2>15, <2>16
    DEF Advanced
<1>16. QED
  BY <1>14, <1>15

\* f with value x at k.
With(f, k, x) == [i \in Nat |-> IF i = k THEN x ELSE f[i]]

\* What With changes and what it keeps.
LEMMA WithIs ==
    ASSUME NEW f, NEW k \in Nat, NEW x
    PROVE  /\ With(f, k, x)[k] = x
           /\ \A i \in Nat : i # k => With(f, k, x)[i] = f[i]
BY DEF With

\* The history with q, at the end of which the parser is t, is what it was before q.
Grown(n, k, q, t, Q, P, at, W, Q2, P2, at2, W2) ==
    /\ IsHistory(k, Q2, P2, at2, W2)
    /\ P2[k] = t /\ at2[k] = at[n] + Len(Units(q)) /\ Q2[k] = q
    /\ \A i \in 0 .. n : P2[i] = P[i] /\ at2[i] = at[i]
    /\ \A i \in 1 .. n : Q2[i] = Q[i]
    /\ \A j \in 1 .. at[n] : W2[j] = W[j]
    /\ \A j \in 1 .. Len(Units(q)) : W2[at[n] + j] = Units(q)[j]

\* A chunk more at the end of the history.
LEMMA HistoryGrows ==
    ASSUME NEW n, NEW Q, NEW P, NEW at, NEW W, IsHistory(n, Q, P, at, W),
           NEW q \in ChunkSent, Readable(P[n], q), NEW t \in Parser, t = After(P[n], q),
           NEW k, k = n + 1,
           NEW Q2, Q2 = With(Q, k, q), NEW P2, P2 = With(P, k, t),
           NEW at2, at2 = With(at, k, at[n] + Len(Units(q))),
           NEW W2, W2 = W \o Units(q)
    PROVE  Grown(n, k, q, t, Q, P, at, W, Q2, P2, at2, W2)
<1>1. n \in Nat /\ W \in Seq(Unit) /\ Len(W) = at[n] /\ at[0] = 0
  BY DEF IsHistory
<1>2. \A i \in 0 .. n : P[i] \in Parser /\ at[i] \in Nat /\ at[i] <= at[n]
  BY DEF IsHistory
<1>3. \A i \in 1 .. n :
        /\ Q[i] \in ChunkSent
        /\ Readable(P[i - 1], Q[i])
        /\ P[i] = After(P[i - 1], Q[i])
        /\ at[i] = at[i - 1] + Len(Units(Q[i]))
        /\ \A j \in 1 .. Len(Units(Q[i])) : W[at[i - 1] + j] = Units(Q[i])[j]
  BY DEF IsHistory
<1>4. k \in Nat /\ k > 0 /\ k - 1 = n /\ \A i \in 0 .. n : i \in Nat /\ i # k
  BY <1>1
<1>5. PICK u : u = Units(q)
  OBVIOUS
<1>6. u \in Seq(Unit) /\ Len(u) \in Nat
  BY <1>5, UnitsAre, LenProperties
<1>7. P2[k] = t /\ at2[k] = at[n] + Len(u) /\ Q2[k] = q
  <2>1. P2[k] = t
    BY <1>4 DEF With
  <2>2. at2[k] = at[n] + Len(u)
    BY <1>4, <1>5 DEF With
  <2>3. Q2[k] = q
    BY <1>4 DEF With
  <2>4. QED
    BY <2>1, <2>2, <2>3
<1>8. \A i \in 0 .. n : P2[i] = P[i] /\ at2[i] = at[i] /\ Q2[i] = Q[i]
  BY <1>4 DEF With
<1>9. W \in Seq(Unit) /\ u \in Seq(Unit) /\ W2 = W \o u
  BY <1>1, <1>5, <1>6
<1>10. W2 \in Seq(Unit)
  BY <1>9, CatIs
<1>11. Len(W2) = Len(W) + Len(u)
  BY <1>9, CatIs
<1>12. \A j \in 1 .. Len(W) : W2[j] = W[j]
  BY <1>9, CatIs
<1>13. \A j \in 1 .. Len(u) : W2[Len(W) + j] = u[j]
  BY <1>9, CatIs
<1>14. \A j \in 1 .. at[n] : W2[j] = W[j]
  BY <1>1, <1>12
<1>15. \A j \in 1 .. Len(u) : W2[at[n] + j] = u[j]
  BY <1>1, <1>13
<1>16. at[n] \in Nat /\ at2[n] = at[n]
  BY <1>1, <1>2, <1>8
<1>17. PICK z : z = at[n]
  OBVIOUS
<1>18. Len(W2) = at2[k] /\ at2[0] = 0
  BY <1>1, <1>7, <1>8, <1>11
<1>19. \A i \in 0 .. k : P2[i] \in Parser /\ at2[i] \in Nat /\ at2[i] <= at2[k]
  <2>1. ASSUME NEW i \in 0 .. k PROVE P2[i] \in Parser /\ at2[i] \in Nat /\ at2[i] <= at2[k]
    <3>1. CASE i = k
      BY <1>6, <1>7, <1>16, <3>1
    <3>2. CASE i # k
      <4>1. i \in 0 .. n
        BY <1>4, <3>2
      <4>2. P2[i] = P[i] /\ at2[i] = at[i] /\ P[i] \in Parser /\ at[i] \in Nat /\ at[i] <= at[n]
        BY <1>2, <1>8, <4>1
      <4>3. QED
        BY <1>6, <1>7, <1>16, <4>2
    <3>3. QED
      BY <3>1, <3>2
  <2>2. QED
    BY <2>1
<1>20. \A i \in 1 .. k :
        /\ Q2[i] \in ChunkSent
        /\ Readable(P2[i - 1], Q2[i])
        /\ P2[i] = After(P2[i - 1], Q2[i])
        /\ at2[i] = at2[i - 1] + Len(Units(Q2[i]))
        /\ \A j \in 1 .. Len(Units(Q2[i])) : W2[at2[i - 1] + j] = Units(Q2[i])[j]
  <2>1. ASSUME NEW i \in 1 .. k
        PROVE  /\ Q2[i] \in ChunkSent
               /\ Readable(P2[i - 1], Q2[i])
               /\ P2[i] = After(P2[i - 1], Q2[i])
               /\ at2[i] = at2[i - 1] + Len(Units(Q2[i]))
               /\ \A j \in 1 .. Len(Units(Q2[i])) : W2[at2[i - 1] + j] = Units(Q2[i])[j]
    <3>1. CASE i = k
      <4>1. i - 1 = n /\ n \in 0 .. n
        BY <1>1, <1>4, <3>1
      <4>2. P2[i - 1] = P[n] /\ at2[i - 1] = at[n] /\ Q2[i] = q /\ P2[i] = t
            /\ at2[i] = at[n] + Len(u)
        BY <1>7, <1>8, <3>1, <4>1
      <4>3. \A j \in 1 .. Len(u) : W2[at2[i - 1] + j] = u[j]
        BY <1>15, <4>2
      <4>4. QED
        BY <1>5, <4>2, <4>3
    <3>2. CASE i # k
      <4>1. i \in 1 .. n /\ i \in 0 .. n /\ i - 1 \in 0 .. n
        BY <1>1, <1>4, <3>2
      <4>2. PICK p : p = i - 1
        OBVIOUS
      <4>3. P2[p] = P[p] /\ at2[p] = at[p] /\ Q2[i] = Q[i] /\ P2[i] = P[i] /\ at2[i] = at[i]
            /\ at[p] \in Nat /\ at[i] <= at[n] /\ at[i] \in Nat
        BY <1>2, <1>8, <4>1, <4>2
      <4>4. /\ Q[i] \in ChunkSent
            /\ Readable(P[p], Q[i])
            /\ P[i] = After(P[p], Q[i])
            /\ at[i] = at[p] + Len(Units(Q[i]))
            /\ \A j \in 1 .. Len(Units(Q[i])) : W[at[p] + j] = Units(Q[i])[j]
        BY <1>3, <4>1, <4>2
      <4>5. ASSUME NEW j \in 1 .. Len(Units(Q[i])) PROVE W2[at[p] + j] = Units(Q[i])[j]
        <5>1. Len(Units(Q[i])) \in Nat
          BY <4>4, UnitsAre, LenProperties
        <5>2. PICK l : l = Len(Units(Q[i]))
          OBVIOUS
        <5>3. PICK x : x = at[p]
          OBVIOUS
        <5>4. x \in Nat /\ z \in Nat /\ l \in Nat /\ x + l <= z /\ j \in 1 .. l
          BY <1>16, <1>17, <4>3, <4>4, <5>1, <5>2, <5>3
        <5>5. PICK y : y = x + j
          OBVIOUS
        <5>6. y \in 1 .. z
          BY <5>4, <5>5
        <5>7. W2[y] = W[y]
          BY <1>14, <1>17, <5>6
        <5>8. W[y] = Units(Q[i])[j]
          BY <4>4, <5>3, <5>5
        <5>9. QED
          BY <5>3, <5>5, <5>7, <5>8
      <4>6. at2[i - 1] = at[p] /\ P2[i - 1] = P[p] /\ Q2[i] = Q[i]
        BY <4>2, <4>3
      <4>7. \A j \in 1 .. Len(Units(Q2[i])) : W2[at2[i - 1] + j] = Units(Q2[i])[j]
        BY <4>5, <4>6
      <4>8. /\ Q2[i] \in ChunkSent
            /\ Readable(P2[i - 1], Q2[i])
            /\ P2[i] = After(P2[i - 1], Q2[i])
            /\ at2[i] = at2[i - 1] + Len(Units(Q2[i]))
        BY <4>3, <4>4, <4>6
      <4>9. QED
        BY <4>7, <4>8
    <3>3. QED
      BY <3>1, <3>2
  <2>2. QED
    BY <2>1
<1>21. IsHistory(k, Q2, P2, at2, W2)
  BY <1>4, <1>10, <1>18, <1>19, <1>20 DEF IsHistory
<1>22. \A i \in 1 .. n : Q2[i] = Q[i]
  BY <1>4, <1>8
<1>23. QED
  BY <1>5, <1>7, <1>8, <1>21, <1>14, <1>15, <1>22 DEF Grown

\* A chunk q that the parser at the end can read, and that takes it to where the peer
\* is then, keeps the invariant.
LEMMA ChunkSends ==
    ASSUME IInv,
           NEW r, NEW n, NEW Q, NEW P, NEW at, NEW W, Explains(r, n, Q, P, at, W),
           NEW q \in ChunkSent, Readable(P[n], q), NEW t \in Parser, t = After(P[n], q),
           PeerInv', PeerIs(t)', completed \in Seq(Message),
           completed' = completed \/ \E x \in Message : completed' = Append(completed, x),
           net' = net \o Units(q), UNCHANGED <<buf, parsing, parserVars>>
    PROVE  IInv'
<1>1. /\ IsHistory(n, Q, P, at, W) /\ r \in 0 .. n /\ UnreadIs(r, n, at, W)
      /\ PeerIs(P[n]) /\ ParserIs(P[r]) /\ ProgIs(P[r], r, n, Q)
      /\ \A i \in 0 .. n : IsPrefix(P[i].out, completed)
      /\ Returned(r, n, Q)
  BY DEF Explains
<1>2. PICK k : k = n + 1
  OBVIOUS
<1>3. PICK Q2 : Q2 = With(Q, k, q)
  OBVIOUS
<1>4. PICK P2 : P2 = With(P, k, t)
  OBVIOUS
<1>5. PICK at2 : at2 = With(at, k, at[n] + Len(Units(q)))
  OBVIOUS
<1>6. PICK W2 : W2 = W \o Units(q)
  OBVIOUS
<1>7. PICK u : u = Units(q)
  OBVIOUS
<1>8. Grown(n, k, q, t, Q, P, at, W, Q2, P2, at2, W2)
  BY <1>1, <1>2, <1>3, <1>4, <1>5, <1>6, HistoryGrows
<1>9. /\ IsHistory(k, Q2, P2, at2, W2)
      /\ P2[k] = t /\ at2[k] = at[n] + Len(u) /\ Q2[k] = q
      /\ \A i \in 0 .. n : P2[i] = P[i] /\ at2[i] = at[i]
      /\ \A i \in 1 .. n : Q2[i] = Q[i]
      /\ \A j \in 1 .. at[n] : W2[j] = W[j]
      /\ \A j \in 1 .. Len(u) : W2[at[n] + j] = u[j]
  BY <1>7, <1>8 DEF Grown
<1>10. /\ n \in Nat /\ r \in Nat /\ r <= n /\ at[n] \in Nat /\ at[r] \in Nat /\ at[r] <= at[n]
       /\ k \in Nat /\ r \in 0 .. k /\ r < k
  BY <1>1, <1>2 DEF IsHistory
<1>11. at2[r] = at[r] /\ P2[r] = P[r]
  BY <1>1, <1>9
<1>12. u \in Seq(Unit) /\ Len(u) \in Nat /\ Len(u) > 0
  <2>1. /\ BasicSize(q.csid) \in 1 .. 3 /\ FieldSize(q.fmt) \in 0 .. 1 /\ RestSize(q.fmt) \in 0 .. 1
        /\ HeadSize(q) >= BasicSize(q.csid) + FieldSize(q.fmt) + RestSize(q.fmt)
        /\ HeadSize(q) \in Nat
    BY Sizes
  <2>2. Len(q.body) \in Nat /\ Len(u) = HeadSize(q) + Len(q.body)
    BY <1>7, Sizes
  <2>3. u \in Seq(Unit)
    BY <1>7, UnitsAre
  <2>4. QED
    BY <2>1, <2>2, <2>3
<1>13. /\ buf \in Seq(Unit) /\ net \in Seq(Unit)
       /\ Len(buf) + Len(net) = at[n] - at[r]
       /\ \A j \in 1 .. Len(buf) : buf[j] = W[at[r] + j]
       /\ \A j \in 1 .. Len(net) : net[j] = W[at[r] + Len(buf) + j]
  BY <1>1 DEF UnreadIs
<1>14. Len(buf) \in Nat /\ Len(net) \in Nat
  BY <1>13, LenProperties
<1>15. PICK v : v = net'
  OBVIOUS
<1>16. net \in Seq(Unit) /\ u \in Seq(Unit) /\ v = net \o u
  BY <1>7, <1>12, <1>13, <1>15
<1>17. v \in Seq(Unit)
  BY <1>16, CatIs
<1>18. Len(v) = Len(net) + Len(u)
  BY <1>16, CatIs
<1>19. \A j \in 1 .. Len(net) : v[j] = net[j]
  BY <1>16, CatIs
<1>20. \A j \in 1 .. Len(u) : v[Len(net) + j] = u[j]
  BY <1>16, CatIs
<1>21. PICK x : x = at[r]
  OBVIOUS
<1>22. PICK z : z = at[n]
  OBVIOUS
<1>23. x \in Nat /\ z \in Nat /\ x <= z /\ Len(buf) + Len(net) = z - x
      /\ x = at[r] /\ z = at[n] /\ x = at2[r]
  BY <1>10, <1>11, <1>13, <1>21, <1>22
<1>24. PICK lb : lb = Len(buf)
  OBVIOUS
<1>25. PICK ln : ln = Len(net)
  OBVIOUS
<1>26. PICK lu : lu = Len(u)
  OBVIOUS
<1>27. lb \in Nat /\ ln \in Nat /\ lu \in Nat /\ x \in Nat /\ z \in Nat /\ lb + ln = z - x
  BY <1>23, <1>12, <1>14, <1>24, <1>25, <1>26
<1>28. \A j \in 1 .. Len(buf) : buf[j] = W2[at2[r] + j]
  <2>1. ASSUME NEW j \in 1 .. Len(buf) PROVE buf[j] = W2[at2[r] + j]
    <3>1. PICK i : i = x + j
      OBVIOUS
    <3>2. i \in 1 .. z
      <4>1. j \in 1 .. lb /\ ln \in Nat
        BY <1>24, <1>27
      <4>2. QED
        BY <1>27, <3>1, <4>1
    <3>3. W2[i] = W[i]
      BY <1>9, <1>23, <3>2
    <3>4. QED
      BY <1>13, <1>23, <3>1, <3>3
  <2>2. QED
    BY <2>1
<1>29. \A j \in 1 .. Len(v) : v[j] = W2[at2[r] + Len(buf) + j]
  <2>1. ASSUME NEW j \in 1 .. Len(v) PROVE v[j] = W2[at2[r] + Len(buf) + j]
    <3>1. CASE j <= Len(net)
      <4>1. PICK i : i = x + Len(buf) + j
        OBVIOUS
      <4>2. j \in 1 .. Len(net) /\ i \in 1 .. z
        <5>1. j \in 1 .. ln + lu /\ j <= ln /\ i = x + lb + j
          BY <1>18, <1>24, <1>25, <1>26, <3>1, <4>1
        <5>2. j \in 1 .. ln /\ i \in 1 .. z
          BY <1>27, <5>1
        <5>3. QED
          BY <1>25, <5>2
      <4>3. W2[i] = W[i]
        BY <1>9, <1>23, <4>2
      <4>4. v[j] = W[i]
        BY <1>13, <1>19, <1>23, <4>1, <4>2
      <4>5. QED
        BY <1>23, <4>1, <4>3, <4>4
    <3>2. CASE j > Len(net)
      <4>1. PICK i : i = j - Len(net)
        OBVIOUS
      <4>2. i \in 1 .. Len(u) /\ j = Len(net) + i
        BY <1>12, <1>14, <1>18, <3>2, <4>1
      <4>3. x + Len(buf) + j = z + i
        <5>1. i \in 1 .. lu /\ j = ln + i
          BY <1>25, <1>26, <4>2
        <5>2. x + lb + j = z + i
          BY <1>27, <5>1
        <5>3. QED
          BY <1>24, <5>2
      <4>4. v[j] = u[i] /\ W2[z + i] = u[i]
        BY <1>9, <1>20, <1>23, <4>2
      <4>5. QED
        BY <1>23, <4>3, <4>4
    <3>3. QED
      BY <1>12, <1>14, <1>18, <3>1, <3>2
  <2>2. QED
    BY <2>1
<1>30. buf' = buf /\ parsing' = parsing /\ prev' = prev /\ prog' = prog /\ inChunk' = inChunk
       /\ delivered' = delivered /\ derailed' = derailed
  BY DEF parserVars
<1>31. UnreadIs(r, k, at2, W2)'
  <2>1. Len(buf) + Len(v) = at2[k] - at2[r]
    <3>1. PICK y : y = at2[k]
      OBVIOUS
    <3>2. y = z + Len(u)
      BY <1>9, <1>23, <3>1
    <3>3. Len(buf) + Len(v) = y - x
      <4>1. y = z + lu
        BY <1>26, <3>2
      <4>2. lb + (ln + lu) = y - x
        BY <1>27, <4>1
      <4>3. QED
        BY <1>18, <1>24, <1>25, <1>26, <4>2
    <3>4. QED
      BY <1>23, <3>1, <3>3
  <2>2. QED
    BY <1>13, <1>15, <1>17, <1>28, <1>29, <1>30, <2>1 DEF UnreadIs
<1>32. \A i \in 0 .. k : IsPrefix(P2[i].out, completed')
  <2>1. t.out = completed' /\ completed' \in Seq(Message)
    BY DEF PeerIs, PeerInv, PeerType
  <2>2. ASSUME NEW i \in 0 .. k PROVE IsPrefix(P2[i].out, completed')
    <3>1. CASE i = k
      BY <1>9, <2>1, <3>1, PrefixSame
    <3>2. CASE i # k
      <4>1. i \in 0 .. n
        BY <1>2, <1>10, <3>2
      <4>2. PICK o : o = P[i].out
        OBVIOUS
      <4>3. o \in Seq(Message) /\ IsPrefix(o, completed) /\ P2[i].out = o
        BY <1>1, <1>9, <4>1, <4>2 DEF IsHistory, Parser
      <4>4. CASE completed' = completed
        BY <4>3, <4>4
      <4>5. CASE completed' # completed
        <5>1. PICK y \in Message : completed' = Append(completed, y)
          BY <4>5
        <5>2. IsPrefix(o, Append(completed, y))
          BY <4>3, PrefixGrows
        <5>3. QED
          BY <4>3, <5>1, <5>2
      <4>6. QED
        BY <4>4, <4>5
    <3>3. QED
      BY <3>1, <3>2
  <2>3. QED
    BY <2>2
<1>33. PeerIs(P2[k])'
  <2>1. PICK s : s = P2[k]
    OBVIOUS
  <2>2. s = t
    BY <1>9, <2>1
  <2>3. QED
    BY <1>9
<1>34. ParserIs(P2[r])'
  BY <1>1, <1>11, <1>30 DEF ParserIs
<1>35. ProgIs(P2[r], r, k, Q2)'
  <2>1. CASE prog = P[r].prog
    BY <1>11, <1>30, <2>1 DEF ProgIs
  <2>2. CASE r < n /\ prog = [P[r].prog EXCEPT ![Q[r + 1].csid] = Begun(P[r], Q[r + 1])]
    <3>1. r + 1 \in 1 .. n
      BY <1>10, <2>2
    <3>2. Q2[r + 1] = Q[r + 1]
      BY <1>9, <3>1
    <3>3. QED
      BY <1>10, <1>11, <1>30, <2>2, <3>2 DEF ProgIs
  <2>3. QED
    BY <1>1, <2>1, <2>2 DEF ProgIs
<1>36. Returned(r, k, Q2)'
  <2>1. CASE r = n
    <3>1. Len(buf) = 0 /\ r + 1 = k
      BY <1>2, <1>10, <1>13, <1>14, <2>1
    <3>2. Len(buf) < Len(Units(Q2[r + 1]))
      BY <1>7, <1>9, <1>12, <3>1
    <3>3. QED
      BY <1>30, <3>2 DEF Returned
  <2>2. CASE r # n
    <3>1. r + 1 \in 1 .. n
      BY <1>10, <2>2
    <3>2. Q2[r + 1] = Q[r + 1]
      BY <1>9, <3>1
    <3>3. QED
      BY <1>1, <1>30, <2>2, <3>2 DEF Returned
  <2>3. QED
    BY <2>1, <2>2
<1>37. Explains(r, k, Q2, P2, at2, W2)'
  BY <1>9, <1>10, <1>31, <1>32, <1>33, <1>34, <1>35, <1>36 DEF Explains
<1>38. parsing' \in BOOLEAN /\ derailed' = FALSE
  BY <1>30 DEF IInv
<1>39. \E r1, n1, Q1, P1, at1, W1 : Explains(r1, n1, Q1, P1, at1, W1)'
  BY <1>37
<1>40. QED
  BY <1>38, <1>39 DEF IInv

-----------------------------------------------------------------------------
(* The peer's steps *)

\* The header e that the peer remembers and the header h that the parser will have are
\* those of message m on c.
HeadersAgree(c, e, h, m) ==
    /\ e \in [ts : 0 .. TsMod - 1, len : Nat, type : Types, ext : BOOLEAN, used : BOOLEAN]
    /\ e.ts = m.ts /\ e.len = m.len /\ e.type = m.type
    /\ h.ts = m.ts /\ h.len = m.len /\ h.type = m.type
    /\ \/ NeverExtended(c) /\ ~e.ext /\ ~h.ext
       \/ AlwaysExtended(c) /\ e.ext = e.used /\ h.ext = e.used
       \/ OneChunk(c) /\ m.len - m.done <= outChunk

\* What is said of a message on c that is being sent.
CanSend(c, m) ==
    /\ m \in Sending /\ m.done <= m.len
    /\ m.type = "SetChunkSize" =>
        m.len = 1 /\ m.done = 0 /\ m.val <= MaxChunk /\ m.val \in ChunkSizes[c]
    /\ m.type # "SetChunkSize" => m.type = "media"

\* q carries the next k bytes of m to the parser s.
Carries(s, q, m, k) ==
    /\ k = MinOf(m.len - m.done, outChunk)
    /\ Begun(s, q) = [ts |-> m.ts, len |-> m.len, type |-> m.type,
                      payload |-> Bytes(m, 0, m.done)]
    /\ q.body = Bytes(m, m.done, k)

Follows(t) ==
    /\ PeerInv' /\ PeerIs(t)' /\ t \in Parser
    /\ completed' = completed \/ \E x \in Message : completed' = Append(completed, x)

\* The peer sends bytes of m, and the parser that reads them is where the peer is.
LEMMA PeerAdvances ==
    ASSUME PeerInv, NEW s \in Parser, PeerIs(s), NEW c \in Csids,
           NEW q \in ChunkSent, c = q.csid, NEW m, CanSend(c, m),
           NEW k, Carries(s, q, m, k), Advance(c, m, k),
           NEW e, enc' = [enc EXCEPT ![c] = e], started' \in 0 .. MaxMsgs,
           NEW h, h = HeaderOf(s.prev[c], q), HeadersAgree(c, e, h, m),
           NEW t, t = After(s, q)
    PROVE  Follows(t)
<1>1. /\ enc \in [Csids -> [ts : 0 .. TsMod - 1, len : Nat, type : Types,
                            ext : BOOLEAN, used : BOOLEAN]]
      /\ cur \in [Csids -> Sending]
      /\ outChunk \in 1 .. MaxChunk /\ completed \in Seq(Message)
      /\ ChunkInv /\ \A d \in Csids : SendingInv(d)
  BY DEF PeerInv, PeerType, Sending
<1>2. /\ s.chunk = outChunk /\ s.out = completed
      /\ \A d \in Csids :
          /\ s.prev[d].ts = enc[d].ts /\ s.prev[d].len = enc[d].len
          /\ s.prev[d].type = enc[d].type
          /\ ExtendedInv(s, d)
          /\ s.prog[d] =
              IF cur[d] = Idle THEN NoMessage
              ELSE [ts |-> cur[d].ts, len |-> cur[d].len, type |-> cur[d].type,
                    payload |-> Bytes(cur[d], 0, cur[d].done)]
  BY DEF PeerIs
<1>3. /\ m \in Sending /\ m.done <= m.len
      /\ m.type = "SetChunkSize" =>
          m.len = 1 /\ m.done = 0 /\ m.val <= MaxChunk /\ m.val \in ChunkSizes[c]
      /\ m.type # "SetChunkSize" => m.type = "media"
  BY DEF CanSend
<1>4. PICK b : b = Begun(s, q)
  OBVIOUS
<1>5. /\ k = MinOf(m.len - m.done, outChunk)
      /\ b = [ts |-> m.ts, len |-> m.len, type |-> m.type, payload |-> Bytes(m, 0, m.done)]
      /\ q.body = Bytes(m, m.done, k)
  BY <1>4 DEF Carries
<1>6. /\ k \in Nat
      /\ t \in Parser
      /\ t.prev = [s.prev EXCEPT ![c] = HeaderOf(s.prev[c], q)]
      /\ t.chunk = outChunk' /\ t.out = completed'
      /\ completed' = completed \/ \E x \in Message : completed' = Append(completed, x)
      /\ cur' \in [Csids -> Sending]
      /\ \A d \in Csids \ {c} : cur'[d] = cur[d] /\ t.prog[d] = s.prog[d]
      /\ outChunk' = outChunk \/ (m.type = "SetChunkSize" /\ m.val > 0 /\ outChunk' = m.val)
      /\ m.len - m.done <= outChunk => cur'[c] = Idle
      /\ cur'[c] = Idle => t.prog[c] = NoMessage
      /\ cur'[c] # Idle =>
           /\ cur'[c].done \in 1 .. m.len - 1 /\ m.type = "media"
           /\ cur'[c].ts = m.ts /\ cur'[c].len = m.len /\ cur'[c].type = m.type
           /\ t.prog[c] = [ts |-> m.ts, len |-> m.len, type |-> m.type,
                           payload |-> Bytes(cur'[c], 0, cur'[c].done)]
  <2>1. Advanced(s, q, c, m, k, t)
    BY <1>1, <1>2, <1>3, <1>4, <1>5, Advances
  <2>2. QED
    BY <2>1 DEF Advanced
<1>7. /\ e \in [ts : 0 .. TsMod - 1, len : Nat, type : Types, ext : BOOLEAN, used : BOOLEAN]
      /\ e.ts = m.ts /\ e.len = m.len /\ e.type = m.type
      /\ h.ts = m.ts /\ h.len = m.len /\ h.type = m.type
      /\ \/ NeverExtended(c) /\ ~e.ext /\ ~h.ext
         \/ AlwaysExtended(c) /\ e.ext = e.used /\ h.ext = e.used
         \/ OneChunk(c) /\ m.len - m.done <= outChunk
  BY DEF HeadersAgree
<1>8. /\ enc' \in [Csids -> [ts : 0 .. TsMod - 1, len : Nat, type : Types,
                             ext : BOOLEAN, used : BOOLEAN]]
      /\ enc'[c] = e /\ \A d \in Csids \ {c} : enc'[d] = enc[d]
  BY <1>1, <1>7
<1>9. t.prev[c] = h /\ \A d \in Csids \ {c} : t.prev[d] = s.prev[d]
  <2>1. s.prev \in [Csids -> Header]
    BY DEF Parser
  <2>2. QED
    BY <1>6, <2>1
<1>10. outChunk' \in 1 .. MaxChunk
  <2>1. CASE outChunk' = outChunk
    BY <1>1, <2>1
  <2>2. CASE m.type = "SetChunkSize" /\ m.val > 0 /\ outChunk' = m.val
    <3>1. m.val \in Nat /\ m.val <= MaxChunk
      BY <1>3, <2>2 DEF Sending
    <3>2. QED
      BY <2>2, <3>1, Limits
  <2>3. QED
    BY <1>6, <2>1, <2>2
<1>11. PeerType'
  <2>1. completed' \in Seq(Message)
    BY <1>6 DEF Parser
  <2>2. QED
    BY <1>6, <1>8, <1>10, <2>1 DEF PeerType, Sending
<1>12. ChunkInv'
  <2>1. ASSUME NEW d \in Csids, OneChunk(d), NEW l \in Lengths[d] PROVE l <= outChunk'
    <3>1. CASE outChunk' = outChunk
      BY <1>1, <2>1, <3>1 DEF ChunkInv
    <3>2. CASE m.type = "SetChunkSize" /\ m.val > 0 /\ outChunk' = m.val
      <4>1. m.val \in ChunkSizes[c]
        BY <1>3, <3>2
      <4>2. m.val = 0 \/ l <= m.val
        BY <2>1, <4>1 DEF OneChunk
      <4>3. m.val # 0
        BY <1>3, <3>2 DEF Sending
      <4>4. QED
        BY <3>2, <4>2, <4>3
    <3>3. QED
      BY <1>6, <3>1, <3>2
  <2>2. QED
    BY <2>1 DEF ChunkInv
<1>13. ASSUME NEW d \in Csids PROVE SendingInv(d)'
  <2>1. CASE d = c
    <3>1. ASSUME cur'[c] # Idle
          PROVE  /\ cur'[c].done \in 1 .. cur'[c].len - 1
                 /\ cur'[c].ts = enc'[c].ts /\ cur'[c].len = enc'[c].len
                 /\ cur'[c].type = enc'[c].type
                 /\ cur'[c].type = "media"
      BY <1>6, <1>7, <1>8, <3>1
    <3>2. QED
      BY <2>1, <3>1 DEF SendingInv
  <2>2. CASE d # c
    <3>1. cur'[d] = cur[d] /\ enc'[d] = enc[d]
      BY <1>6, <1>8, <2>2
    <3>2. SendingInv(d)
      BY <1>1
    <3>3. QED
      BY <3>1, <3>2 DEF SendingInv
  <2>3. QED
    BY <2>1, <2>2
<1>14. ASSUME NEW d \in Csids
       PROVE  /\ t.prev[d].ts = enc'[d].ts /\ t.prev[d].len = enc'[d].len
              /\ t.prev[d].type = enc'[d].type
              /\ ExtendedInv(t, d)'
              /\ t.prog[d] =
                  IF cur'[d] = Idle THEN NoMessage
                  ELSE [ts |-> cur'[d].ts, len |-> cur'[d].len, type |-> cur'[d].type,
                        payload |-> Bytes(cur'[d], 0, cur'[d].done)]
  <2>1. CASE d = c
    <3>1. ExtendedInv(t, d)'
      BY <1>6, <1>7, <1>8, <1>9, <2>1 DEF ExtendedInv
    <3>2. t.prev[d].ts = enc'[d].ts /\ t.prev[d].len = enc'[d].len
          /\ t.prev[d].type = enc'[d].type
      BY <1>7, <1>8, <1>9, <2>1
    <3>3. CASE cur'[c] = Idle
      BY <1>6, <2>1, <3>1, <3>2, <3>3
    <3>4. CASE cur'[c] # Idle
      BY <1>6, <2>1, <3>1, <3>2, <3>4
    <3>5. QED
      BY <3>3, <3>4
  <2>2. CASE d # c
    <3>1. cur'[d] = cur[d] /\ enc'[d] = enc[d] /\ t.prev[d] = s.prev[d] /\ t.prog[d] = s.prog[d]
      BY <1>6, <1>8, <1>9, <2>2
    <3>2. ExtendedInv(s, d)
      BY <1>2
    <3>3. ExtendedInv(t, d)'
      BY <3>1, <3>2 DEF ExtendedInv
    <3>4. QED
      BY <1>2, <3>1, <3>3
  <2>3. QED
    BY <2>1, <2>2
<1>15. PeerIs(t)'
  BY <1>6, <1>14 DEF PeerIs
<1>16. PeerInv'
  BY <1>11, <1>12, <1>13 DEF PeerInv
<1>17. QED
  BY <1>6, <1>15, <1>16 DEF Follows

\* The units of a chunk are sent part by part.
LEMMA FourTogether ==
    ASSUME NEW S, NEW x \in Seq(S), NEW a \in Seq(S), NEW b \in Seq(S), NEW c \in Seq(S),
           NEW d \in Seq(S)
    PROVE  Cat(Cat(Cat(Cat(x, a), b), c), d) = Cat(x, Cat(Cat(Cat(a, b), c), d))
<1>1. PICK y : y = Cat(a, b)
  OBVIOUS
<1>2. y \in Seq(S)
  BY <1>1, CatIs DEF Cat
<1>3. Cat(Cat(x, a), b) = Cat(x, y)
  BY <1>1, CatAssoc
<1>4. PICK z : z = Cat(y, c)
  OBVIOUS
<1>5. z \in Seq(S)
  BY <1>2, <1>4, CatIs DEF Cat
<1>6. Cat(Cat(x, y), c) = Cat(x, z)
  BY <1>2, <1>4, CatAssoc
<1>7. Cat(Cat(x, z), d) = Cat(x, Cat(z, d))
  BY <1>5, CatAssoc
<1>8. QED
  BY <1>1, <1>3, <1>4, <1>6, <1>7

\* What is known of a message the peer may start on c.
LEMMA NewMessageIs ==
    ASSUME PeerInv, Regular, NEW c \in Csids, NEW m \in NewMessages(c)
    PROVE  /\ CanSend(c, m) /\ m.done = 0 /\ m.ts \in Timestamps[c]
           /\ OneChunk(c) => m.len <= outChunk
<1>1. Timestamps[c] \subseteq 0 .. TsMod - 1 /\ Lengths[c] \subseteq Nat
  BY RtmpChunkParseAssumption
<1>2. ChunkSizes[c] \subseteq 0 .. MaxChunk /\ MaxChunk \in Nat
  BY Limits DEF Regular
<1>3. started + 1 \in Nat /\ outChunk \in Nat /\ outChunk >= 1
  BY Limits DEF PeerInv, PeerType
<1>4. OneChunk(c) => \A l \in Lengths[c] : l <= outChunk
  BY DEF PeerInv, ChunkInv
<1>5. CASE \E x \in Timestamps[c], l \in Lengths[c] :
             m = [ts |-> x, len |-> l, type |-> "media", id |-> started + 1, val |-> 0,
                  done |-> 0]
  <2>1. PICK x \in Timestamps[c], l \in Lengths[c] :
             m = [ts |-> x, len |-> l, type |-> "media", id |-> started + 1, val |-> 0,
                  done |-> 0]
    BY <1>5
  <2>2. x \in 0 .. TsMod - 1 /\ l \in Nat
    BY <1>1
  <2>3. m \in Sending
    BY <1>3, <2>1, <2>2 DEF Sending, Types
  <2>4. m.type = "media" /\ m.done = 0 /\ m.len = l /\ m.ts = x
    BY <2>1
  <2>5. QED
    BY <1>4, <2>2, <2>3, <2>4 DEF CanSend
<1>6. CASE \E x \in Timestamps[c], v \in ChunkSizes[c] :
             m = [ts |-> x, len |-> 1, type |-> "SetChunkSize", id |-> started + 1,
                  val |-> v, done |-> 0]
  <2>1. PICK x \in Timestamps[c], v \in ChunkSizes[c] :
             m = [ts |-> x, len |-> 1, type |-> "SetChunkSize", id |-> started + 1,
                  val |-> v, done |-> 0]
    BY <1>6
  <2>2. x \in 0 .. TsMod - 1 /\ v \in Nat /\ v <= MaxChunk
    BY <1>1, <1>2
  <2>3. m \in Sending
    BY <1>3, <2>1, <2>2 DEF Sending, Types
  <2>4. m.type = "SetChunkSize" /\ m.done = 0 /\ m.len = 1 /\ m.ts = x /\ m.val = v
    BY <2>1
  <2>5. QED
    BY <1>3, <2>2, <2>3, <2>4 DEF CanSend
<1>7. QED
  BY <1>5, <1>6 DEF NewMessages

\* The header of a first chunk: the parser makes of it what the peer means, and knows
\* whether an extended timestamp follows.
LEMMA FirstHeader ==
    ASSUME PeerInv, Regular, NEW c \in Csids, NEW fmt \in Fmts[c], NEW m \in NewMessages(c),
           MayUse(fmt, c, m), cur[c] = Idle,
           NEW p \in Header, p.ts = enc[c].ts, p.len = enc[c].len, p.type = enc[c].type,
           \/ NeverExtended(c) /\ ~enc[c].ext /\ ~p.ext
           \/ AlwaysExtended(c) /\ enc[c].ext = enc[c].used /\ p.ext = enc[c].used
           \/ OneChunk(c),
           NEW field, field = IF fmt = 0 THEN m.ts ELSE (m.ts - enc[c].ts) % TsMod,
           NEW ext, ext = IF fmt = 3 THEN enc[c].ext ELSE field >= TsMax,
           NEW e, e = [ts |-> m.ts, len |-> m.len, type |-> m.type, ext |-> ext, used |-> TRUE],
           NEW body \in Seq(DataUnit),
           NEW q, q = [csid |-> c, fmt |-> fmt, field |-> field, len |-> m.len,
                       type |-> m.type, ext |-> ext,
                       val |-> IF fmt = 3 THEN m.ts ELSE field, body |-> body],
           NEW h, h = HeaderOf(p, q)
    PROVE  q \in ChunkSent /\ ExtensionKnown(p, q) /\ HeadersAgree(c, e, h, m)
<1>1. /\ m \in Sending /\ m.done = 0 /\ m.ts \in Timestamps[c]
      /\ OneChunk(c) => m.len <= outChunk
  BY NewMessageIs DEF CanSend
<1>2. /\ m.ts \in 0 .. TsMod - 1 /\ m.len \in Nat /\ m.type \in Types
      /\ fmt \in 0 .. 3 /\ TsMax \in Nat /\ TsMod \in Nat \ {0}
      /\ enc[c].ts \in 0 .. TsMod - 1 /\ enc[c].ext \in BOOLEAN
      /\ p.ts \in 0 .. TsMod - 1 /\ p.len \in Nat /\ p.type \in Types /\ p.ext \in BOOLEAN
  <2>1. fmt \in 0 .. 3
    BY RtmpChunkParseAssumption
  <2>2. enc[c].ts \in 0 .. TsMod - 1 /\ enc[c].ext \in BOOLEAN
    BY DEF PeerInv, PeerType
  <2>3. QED
    BY <1>1, <2>1, <2>2, Limits DEF Sending, Header
<1>3. PICK delta : delta = (m.ts - enc[c].ts) % TsMod
  OBVIOUS
<1>4. delta \in 0 .. TsMod - 1 /\ (enc[c].ts + delta) % TsMod = m.ts
      /\ (delta = 0 => m.ts = enc[c].ts)
  <2>1. PICK a : a = m.ts
    OBVIOUS
  <2>2. PICK b : b = enc[c].ts
    OBVIOUS
  <2>3. a \in 0 .. TsMod - 1 /\ b \in 0 .. TsMod - 1 /\ TsMod \in Nat \ {0}
    BY <1>2, <2>1, <2>2
  <2>4. (a - b) % TsMod \in 0 .. TsMod - 1 /\ (b + ((a - b) % TsMod)) % TsMod = a
        /\ ((a - b) % TsMod = 0 => a = b)
    BY <2>3, ModBack
  <2>5. delta = (a - b) % TsMod
    BY <1>3, <2>1, <2>2
  <2>6. QED
    BY <2>1, <2>2, <2>4, <2>5
<1>5. field = IF fmt = 0 THEN m.ts ELSE delta
  BY <1>3
<1>6. /\ fmt = 0 \/ enc[c].used
      /\ fmt \in {1, 2} => delta < TsMax
      /\ fmt \in {2, 3} => m.len = enc[c].len /\ m.type = enc[c].type
      /\ fmt = 3 => delta = 0
  BY <1>3 DEF MayUse, Regular
<1>7. field \in 0 .. TsMod - 1 /\ ext \in BOOLEAN /\ (fmt = 3 => ext = enc[c].ext)
      /\ (fmt # 3 => (ext <=> field >= TsMax))
  <2>1. field \in 0 .. TsMod - 1
    <3>1. CASE fmt = 0
      BY <1>2, <1>5, <3>1
    <3>2. CASE fmt # 0
      BY <1>4, <1>5, <3>2
    <3>3. QED
      BY <3>1, <3>2
  <2>2. CASE fmt = 3
    BY <1>2, <2>1, <2>2
  <2>3. CASE fmt # 3
    <3>1. ext = (field >= TsMax)
      BY <2>3
    <3>2. CASE field >= TsMax
      <4>1. ext = TRUE
        BY <3>1, <3>2
      <4>2. QED
        BY <2>1, <2>3, <3>2, <4>1
    <3>3. CASE ~(field >= TsMax)
      <4>1. ext = FALSE
        <5>1. (field >= TsMax) = FALSE
          BY <3>3
        <5>2. QED
          BY <3>1, <5>1
      <4>2. QED
        BY <2>1, <2>3, <3>3, <4>1
    <3>4. QED
      BY <3>2, <3>3
  <2>4. QED
    BY <2>2, <2>3
<1>8. /\ q.csid = c /\ q.fmt = fmt /\ q.field = field /\ q.len = m.len /\ q.type = m.type
      /\ q.ext = ext /\ q.val = (IF fmt = 3 THEN m.ts ELSE field) /\ q.body = body
  OBVIOUS
<1>9. q \in ChunkSent
  BY <1>2, <1>7 DEF ChunkSent
<1>10. fmt = 0 \/ fmt \in {1, 2} \/ fmt = 3
  BY <1>2
<1>11. fmt \in {1, 2} => ~ext
  <2>1. ASSUME fmt \in {1, 2} PROVE ~ext
    <3>1. field < TsMax /\ fmt # 3
      BY <1>5, <1>6, <2>1
    <3>2. ~(field >= TsMax)
      BY <1>2, <1>7, <3>1
    <3>3. QED
      BY <1>7, <3>1, <3>2
  <2>2. QED
    BY <2>1
<1>12. ext => (IF fmt = 3 THEN m.ts ELSE field) = m.ts
  BY <1>5, <1>10, <1>11
<1>13. h.ts = m.ts
  <2>1. h.ts = IF ext THEN IF fmt = 3 THEN m.ts ELSE field
               ELSE IF fmt = 0 THEN field
               ELSE IF fmt = 3 THEN p.ts
               ELSE (p.ts + field) % TsMod
    BY <1>8 DEF HeaderOf
  <2>2. CASE ext
    BY <1>12, <2>1, <2>2
  <2>3. CASE ~ext /\ fmt = 0
    BY <1>5, <2>1, <2>3
  <2>4. CASE ~ext /\ fmt = 3
    BY <1>4, <1>6, <2>1, <2>4
  <2>5. CASE ~ext /\ fmt \in {1, 2}
    <3>1. field = delta /\ h.ts = (p.ts + field) % TsMod
      BY <1>5, <2>1, <2>5
    <3>2. QED
      BY <1>4, <3>1
  <2>6. QED
    BY <1>7, <1>10, <2>2, <2>3, <2>4, <2>5
<1>14. h.len = m.len /\ h.type = m.type
  <2>1. /\ h.len = IF fmt \in {0, 1} THEN m.len ELSE p.len
        /\ h.type = IF fmt \in {0, 1} THEN m.type ELSE p.type
    BY <1>8 DEF HeaderOf
  <2>2. CASE fmt \in {0, 1}
    BY <2>1, <2>2
  <2>3. CASE fmt \in {2, 3}
    BY <1>6, <2>1, <2>3
  <2>4. QED
    BY <1>10, <2>2, <2>3
<1>15. h.ext = (ext \/ p.ext)
  BY <1>8 DEF HeaderOf
<1>16. /\ e.ts = m.ts /\ e.len = m.len /\ e.type = m.type /\ e.ext = ext /\ e.used = TRUE
       /\ e \in [ts : 0 .. TsMod - 1, len : Nat, type : Types, ext : BOOLEAN, used : BOOLEAN]
  BY <1>2, <1>7
<1>17. CASE NeverExtended(c) /\ ~enc[c].ext /\ ~p.ext
  <2>1. m.ts < TsMax
    BY <1>1, <1>17 DEF NeverExtended
  <2>2. ~ext
    <3>1. CASE fmt = 0
      <4>1. ~(m.ts >= TsMax)
        BY <1>2, <2>1
      <4>2. QED
        BY <1>5, <1>7, <3>1, <4>1
    <3>2. CASE fmt = 3
      BY <1>17, <3>2
    <3>3. QED
      BY <1>10, <1>11, <3>1, <3>2
  <2>3. ExtensionKnown(p, q)
    <3>1. fmt \in {1, 2} => field < TsMax
      BY <1>5, <1>6
    <3>2. fmt = 0 => ~(field >= TsMax)
      BY <1>7, <2>2
    <3>3. ext = FALSE /\ p.ext = FALSE
      BY <1>2, <1>7, <1>17, <2>2
    <3>4. q.fmt = 0 => (q.ext <=> q.field >= TsMax)
      BY <1>8, <3>2, <3>3
    <3>5. q.fmt \in {1, 2} => ~q.ext /\ q.field < TsMax
      BY <1>8, <3>1, <3>3
    <3>6. q.fmt = 3 => q.ext = p.ext
      BY <1>8, <3>3
    <3>7. QED
      BY <3>4, <3>5, <3>6 DEF ExtensionKnown
  <2>4. ~e.ext /\ ~h.ext
    BY <1>15, <1>16, <1>17, <2>2
  <2>5. QED
    BY <1>9, <1>13, <1>14, <1>16, <1>17, <2>3, <2>4 DEF HeadersAgree
<1>18. CASE AlwaysExtended(c) /\ enc[c].ext = enc[c].used /\ p.ext = enc[c].used
  <2>1. m.ts >= TsMax /\ fmt \in {0, 3}
    BY <1>1, <1>18 DEF AlwaysExtended
  <2>2. ext /\ (fmt = 3 => p.ext)
    <3>1. CASE fmt = 0
      BY <1>5, <1>7, <2>1, <3>1
    <3>2. CASE fmt = 3
      BY <1>6, <1>7, <1>18, <3>2
    <3>3. QED
      BY <2>1, <3>1, <3>2
  <2>3. ExtensionKnown(p, q)
    <3>1. fmt = 0 => field >= TsMax
      BY <1>5, <2>1
    <3>2. ext = TRUE /\ (fmt = 3 => p.ext = TRUE)
      BY <1>2, <1>7, <2>2
    <3>3. q.fmt = 0 => (q.ext <=> q.field >= TsMax)
      BY <1>8, <3>1, <3>2
    <3>4. q.fmt \notin {1, 2}
      BY <1>8, <2>1
    <3>5. q.fmt = 3 => q.ext = p.ext
      BY <1>8, <3>2
    <3>6. QED
      BY <3>3, <3>4, <3>5 DEF ExtensionKnown
  <2>4. e.ext = e.used /\ h.ext = e.used
    BY <1>2, <1>7, <1>15, <1>16, <2>2
  <2>5. QED
    BY <1>9, <1>13, <1>14, <1>16, <1>18, <2>3, <2>4 DEF HeadersAgree
<1>19. CASE OneChunk(c)
  <2>1. fmt # 3
    BY <1>19 DEF OneChunk
  <2>2. ExtensionKnown(p, q)
    <3>1. fmt \in {1, 2} => field < TsMax
      BY <1>5, <1>6
    <3>2. QED
      BY <1>8, <1>11, <2>1, <3>1 DEF ExtensionKnown
  <2>3. m.len - m.done <= outChunk
    BY <1>1, <1>2, <1>19
  <2>4. QED
    BY <1>9, <1>13, <1>14, <1>16, <1>19, <2>2, <2>3 DEF HeadersAgree
<1>20. QED
  BY <1>17, <1>18, <1>19

\* A chunk that carries bytes of a message fits the parser.
LEMMA CarriedIsReadable ==
    ASSUME NEW s \in Parser, s.chunk = outChunk, NEW q \in ChunkSent, NEW m \in Sending,
           NEW k \in Nat, Carries(s, q, m, k),
           ExtensionKnown(s.prev[q.csid], q),
           IsComplete(s.prog[q.csid]) \/ q.fmt = 3
    PROVE  Readable(s, q)
<1>1. m.done \in Nat /\ 0 \in Nat
  BY DEF Sending
<1>2. Len(q.body) = k
  <2>1. PICK a : a = m.done
    OBVIOUS
  <2>2. a \in Nat /\ q.body = Bytes(m, a, k)
    BY <1>1, <2>1 DEF Carries
  <2>3. Len(Bytes(m, a, k)) = k
    BY <2>2, BytesAre DEF IsBytes
  <2>4. QED
    BY <2>2, <2>3
<1>3. Len(Bytes(m, 0, m.done)) = m.done
  BY <1>1, BytesAre DEF IsBytes
<1>4. PICK b : b = Begun(s, q)
  OBVIOUS
<1>5. b.len = m.len /\ b.payload = Bytes(m, 0, m.done)
  BY <1>4 DEF Carries
<1>6. Len(q.body) = MinOf(b.len - Len(b.payload), s.chunk)
  BY <1>2, <1>3, <1>5 DEF Carries
<1>7. QED
  BY <1>4, <1>6 DEF Readable

\* The number of bytes in the next chunk.
LEMMA NextBytes ==
    ASSUME NEW m \in Sending, m.done <= m.len, outChunk \in 1 .. MaxChunk,
           NEW k, k = MinOf(m.len - m.done, outChunk)
    PROVE  k \in Nat
<1>1. m.done \in Nat /\ m.len \in Nat
  BY DEF Sending
<1>2. QED
  BY <1>1, Limits DEF MinOf

\* What the peer sends is the units of the chunk.
LEMMA StreamGrows ==
    ASSUME NEW q \in ChunkSent, net \in Seq(Unit)
    PROVE  net \o BasicUnits(q.fmt, q.csid) \o MessageUnits(q.fmt, q.field, q)
               \o ExtUnits(q.ext, q.val) \o q.body
           = net \o Units(q)
<1>1. /\ q.fmt \in 0 .. 3 /\ q.csid \in Nat \ {0, 1} /\ q.ext \in BOOLEAN
      /\ q.val \in Nat /\ q.body \in Seq(DataUnit)
  <2>1. /\ q.fmt \in 0 .. 3 /\ q.csid \in Csids /\ q.ext \in BOOLEAN
        /\ q.val \in 0 .. TsMod - 1 /\ q.body \in Seq(DataUnit)
    BY DEF ChunkSent
  <2>2. q.csid \in Nat \ {0, 1}
    BY <2>1, Limits
  <2>3. q.val \in Nat
    BY <2>1
  <2>4. QED
    BY <2>1, <2>2, <2>3
<1>2. PICK a : a = BasicUnits(q.fmt, q.csid)
  OBVIOUS
<1>3. PICK b : b = MessageUnits(q.fmt, q.field, q)
  OBVIOUS
<1>4. PICK c : c = ExtUnits(q.ext, q.val)
  OBVIOUS
<1>5. PICK d : d = q.body
  OBVIOUS
<1>6. a \in Seq(Unit)
  BY <1>1, <1>2, BasicIs DEF IsBasic
<1>7. b \in Seq(Unit)
  BY <1>3, MessageIs
<1>8. c \in Seq(Unit)
  <2>1. CASE q.ext
    <3>1. PICK x : x = [k |-> "ext", val |-> q.val]
      OBVIOUS
    <3>2. x \in Unit
      BY <1>1, <3>1 DEF Unit
    <3>3. c = <<x>>
      BY <1>4, <2>1, <3>1 DEF ExtUnits
    <3>4. QED
      BY <3>2, <3>3, OneIs
  <2>2. CASE ~q.ext
    BY <1>4, <2>2, EmptySeq DEF ExtUnits
  <2>3. QED
    BY <2>1, <2>2
<1>9. d \in Seq(Unit)
  <2>1. DataUnit \subseteq Unit
    BY DEF Unit
  <2>2. QED
    BY <1>1, <1>5, <2>1
<1>10. net \o a \o b \o c \o d = net \o (a \o b \o c \o d)
  <2>1. PICK x : x = net
    OBVIOUS
  <2>2. x \in Seq(Unit)
    BY <2>1
  <2>3. Cat(Cat(Cat(Cat(x, a), b), c), d) = Cat(x, Cat(Cat(Cat(a, b), c), d))
    BY <1>6, <1>7, <1>8, <1>9, <2>2, FourTogether
  <2>4. QED
    BY <2>1, <2>3 DEF Cat
<1>11. QED
  BY <1>2, <1>3, <1>4, <1>5, <1>10 DEF Units

\* A message of which nothing is sent has an empty payload so far.
LEMMA NothingSent ==
    ASSUME NEW m \in Sending, m.done = 0
    PROVE  Bytes(m, 0, m.done) = <<>>
<1>1. PICK x : x = Bytes(m, 0, m.done)
  OBVIOUS
<1>2. m.done \in Nat /\ 0 \in Nat
  BY DEF Sending
<1>3. x \in Seq(DataUnit) /\ Len(x) = 0
  BY <1>1, <1>2, BytesAre DEF IsBytes
<1>4. x = <<>>
  BY <1>3, EmptySeq
<1>5. QED
  BY <1>1, <1>4

\* The parser at the end of the history, on a chunk stream of the peer.
LEMMA LastParser ==
    ASSUME NEW s \in Parser, PeerIs(s), NEW c \in Csids
    PROVE  /\ s.prev[c] \in Header /\ s.chunk = outChunk /\ s.out = completed
           /\ s.prev[c].ts = enc[c].ts /\ s.prev[c].len = enc[c].len
           /\ s.prev[c].type = enc[c].type
           /\ ExtendedInv(s, c)
           /\ cur[c] = Idle => s.prog[c] = NoMessage
           /\ cur[c] # Idle => s.prog[c] = [ts |-> cur[c].ts, len |-> cur[c].len,
                                            type |-> cur[c].type,
                                            payload |-> Bytes(cur[c], 0, cur[c].done)]
<1>1. s.prev[c] \in Header
  BY DEF Parser
<1>2. QED
  BY <1>1 DEF PeerIs

\* The first chunk of a message keeps the invariant.
LEMMA StartMessageInv ==
    ASSUME IInv, Regular, NEW c \in Csids, NEW fmt \in Fmts[c], NEW m \in NewMessages(c),
           StartMessage(c, fmt, m)
    PROVE  IInv'
<1>1. PICK r, n, Q, P, at, W : Explains(r, n, Q, P, at, W)
  BY DEF IInv
<1>2. PICK s : s = P[n]
  OBVIOUS
<1>3. s \in Parser /\ PeerIs(s) /\ net \in Seq(Unit)
  <2>1. n \in 0 .. n
    BY <1>1 DEF Explains, IsHistory
  <2>2. QED
    BY <1>1, <1>2, <2>1 DEF Explains, IsHistory, UnreadIs
<1>4. PeerInv
  BY DEF IInv
<1>5. PICK p : p = s.prev[c]
  OBVIOUS
<1>6. /\ p \in Header /\ s.chunk = outChunk /\ s.out = completed
      /\ p.ts = enc[c].ts /\ p.len = enc[c].len /\ p.type = enc[c].type
      /\ ExtendedInv(s, c) /\ (cur[c] = Idle => s.prog[c] = NoMessage)
  BY <1>3, <1>5, LastParser
<1>7. PICK field : field = IF fmt = 0 THEN m.ts ELSE (m.ts - enc[c].ts) % TsMod
  OBVIOUS
<1>8. PICK ext : ext = IF fmt = 3 THEN enc[c].ext ELSE field >= TsMax
  OBVIOUS
<1>9. PICK k : k = MinOf(m.len, outChunk)
  OBVIOUS
<1>10. PICK e : e = [ts |-> m.ts, len |-> m.len, type |-> m.type, ext |-> ext, used |-> TRUE]
  OBVIOUS
<1>11. /\ started < MaxMsgs /\ cur[c] = Idle /\ MayUse(fmt, c, m)
       /\ started' = started + 1
       /\ enc' = [enc EXCEPT ![c] = e]
       /\ net' = net \o BasicUnits(fmt, c) \o MessageUnits(fmt, field, m)
                     \o ExtUnits(ext, IF fmt = 3 THEN m.ts ELSE field) \o Bytes(m, 0, k)
       /\ Advance(c, m, k)
       /\ UNCHANGED <<buf, parsing, parserVars>>
  BY <1>7, <1>8, <1>9, <1>10 DEF StartMessage
<1>12. /\ CanSend(c, m) /\ m \in Sending /\ m.done = 0
  BY <1>4, NewMessageIs DEF CanSend
<1>13. outChunk \in 1 .. MaxChunk /\ started \in 0 .. MaxMsgs /\ completed \in Seq(Message)
  BY <1>4 DEF PeerInv, PeerType
<1>14. m.len \in Nat /\ m.len - m.done = m.len
  BY <1>12 DEF Sending
<1>15. k = MinOf(m.len - m.done, outChunk) /\ k \in Nat
  <2>1. k = MinOf(m.len - m.done, outChunk)
    BY <1>9, <1>14
  <2>2. m.done <= m.len
    BY <1>12, <1>14
  <2>3. QED
    BY <1>12, <1>13, <2>1, <2>2, NextBytes
<1>16. PICK body : body = Bytes(m, m.done, k)
  OBVIOUS
<1>17. body \in Seq(DataUnit) /\ body = Bytes(m, 0, k)
  BY <1>12, <1>15, <1>16, BytesAre DEF IsBytes
<1>18. PICK q : q = [csid |-> c, fmt |-> fmt, field |-> field, len |-> m.len,
                     type |-> m.type, ext |-> ext,
                     val |-> IF fmt = 3 THEN m.ts ELSE field, body |-> body]
  OBVIOUS
<1>19. PICK h : h = HeaderOf(p, q)
  OBVIOUS
<1>20. q \in ChunkSent /\ ExtensionKnown(p, q) /\ HeadersAgree(c, e, h, m)
  <2>1. \/ NeverExtended(c) /\ ~enc[c].ext /\ ~p.ext
        \/ AlwaysExtended(c) /\ enc[c].ext = enc[c].used /\ p.ext = enc[c].used
        \/ OneChunk(c)
    BY <1>5, <1>6 DEF ExtendedInv
  <2>2. /\ MayUse(fmt, c, m) /\ cur[c] = Idle /\ body \in Seq(DataUnit)
        /\ p \in Header /\ p.ts = enc[c].ts /\ p.len = enc[c].len /\ p.type = enc[c].type
    BY <1>6, <1>11, <1>17
  <2>3. QED
    BY <1>4, <1>7, <1>8, <1>10, <1>18, <1>19, <2>1, <2>2, FirstHeader
<1>21. /\ q.csid = c /\ q.fmt = fmt /\ q.field = field /\ q.len = m.len /\ q.type = m.type
       /\ q.ext = ext /\ q.val = (IF fmt = 3 THEN m.ts ELSE field) /\ q.body = body
  BY <1>18
<1>22. IsComplete(s.prog[c])
  BY <1>6, <1>11, EmptySeq DEF NoMessage, IsComplete
<1>23. Carries(s, q, m, k)
  <2>1. Bytes(m, 0, m.done) = <<>>
    BY <1>12, NothingSent
  <2>2. Begun(s, q) = [ts |-> h.ts, len |-> h.len, type |-> h.type, payload |-> <<>>]
    BY <1>5, <1>19, <1>21, <1>22 DEF Begun
  <2>3. h.ts = m.ts /\ h.len = m.len /\ h.type = m.type
    BY <1>20 DEF HeadersAgree
  <2>4. Begun(s, q) = [ts |-> m.ts, len |-> m.len, type |-> m.type,
                       payload |-> Bytes(m, 0, m.done)]
    BY <2>1, <2>2, <2>3
  <2>5. QED
    BY <1>15, <1>16, <1>21, <2>4 DEF Carries
<1>24. Readable(s, q)
  BY <1>3, <1>5, <1>6, <1>12, <1>15, <1>20, <1>21, <1>22, <1>23, CarriedIsReadable
<1>25. started' \in 0 .. MaxMsgs
  BY <1>11, <1>13, Limits
<1>26. PICK t : t = After(s, q)
  OBVIOUS
<1>27. Follows(t)
  BY <1>3, <1>4, <1>5, <1>11, <1>12, <1>19, <1>20, <1>21, <1>23, <1>25, <1>26, PeerAdvances
<1>28. net' = net \o Units(q)
  <2>1. MessageUnits(fmt, field, m) = MessageUnits(fmt, field, q)
    BY <1>21 DEF MessageUnits
  <2>2. net \o BasicUnits(q.fmt, q.csid) \o MessageUnits(q.fmt, q.field, q)
            \o ExtUnits(q.ext, q.val) \o q.body = net \o Units(q)
    BY <1>3, <1>20, StreamGrows
  <2>3. QED
    BY <1>11, <1>17, <1>21, <2>1, <2>2
<1>29. /\ PeerInv' /\ PeerIs(t)' /\ t \in Parser
       /\ completed' = completed \/ \E x \in Message : completed' = Append(completed, x)
  BY <1>27 DEF Follows
<1>30. Readable(P[n], q) /\ t = After(P[n], q)
  BY <1>2, <1>24, <1>26
<1>31. QED
  BY <1>1, <1>11, <1>13, <1>20, <1>28, <1>29, <1>30, ChunkSends

\* A further chunk of a message keeps the invariant; here OneChunk is excluded, and
\* both sides agree on whether the extended timestamp is repeated.
LEMMA ContinueMessageInv ==
    ASSUME IInv, Regular, NEW c \in Csids, ContinueMessage(c)
    PROVE  IInv'
<1>1. PICK r, n, Q, P, at, W : Explains(r, n, Q, P, at, W)
  BY DEF IInv
<1>2. PICK s : s = P[n]
  OBVIOUS
<1>3. s \in Parser /\ PeerIs(s) /\ net \in Seq(Unit)
  <2>1. n \in 0 .. n
    BY <1>1 DEF Explains, IsHistory
  <2>2. QED
    BY <1>1, <1>2, <2>1 DEF Explains, IsHistory, UnreadIs
<1>4. PeerInv
  BY DEF IInv
<1>5. PICK p : p = s.prev[c]
  OBVIOUS
<1>6. PICK m : m = cur[c]
  OBVIOUS
<1>7. /\ p \in Header /\ s.chunk = outChunk /\ s.out = completed
      /\ p.ts = enc[c].ts /\ p.len = enc[c].len /\ p.type = enc[c].type
      /\ ExtendedInv(s, c)
      /\ (m # Idle => s.prog[c] = [ts |-> m.ts, len |-> m.len, type |-> m.type,
                                   payload |-> Bytes(m, 0, m.done)])
  BY <1>3, <1>5, <1>6, LastParser
<1>8. PICK k : k = MinOf(m.len - m.done, outChunk)
  OBVIOUS
<1>9. PICK e : e = enc[c]
  OBVIOUS
<1>10. /\ m # Idle
       /\ net' = net \o BasicUnits(3, c) \o ExtUnits(e.ext, m.ts) \o Bytes(m, m.done, k)
       /\ Advance(c, m, k)
       /\ enc' = enc /\ started' = started
       /\ UNCHANGED <<buf, parsing, parserVars>>
  BY <1>6, <1>8, <1>9 DEF ContinueMessage
<1>11. /\ outChunk \in 1 .. MaxChunk /\ started \in 0 .. MaxMsgs /\ completed \in Seq(Message)
       /\ m \in Sending
       /\ e \in [ts : 0 .. TsMod - 1, len : Nat, type : Types, ext : BOOLEAN, used : BOOLEAN]
       /\ enc = [enc EXCEPT ![c] = e]
  BY <1>4, <1>6, <1>9 DEF PeerInv, PeerType, Sending
<1>12. /\ m.done \in 1 .. m.len - 1
       /\ m.ts = e.ts /\ m.len = e.len /\ m.type = e.type /\ m.type = "media"
  BY <1>4, <1>6, <1>9, <1>10 DEF PeerInv, SendingInv
<1>13. m.len \in Nat /\ m.done \in Nat /\ m.done < m.len
  BY <1>11, <1>12 DEF Sending
<1>14. CanSend(c, m)
  BY <1>11, <1>12, <1>13 DEF CanSend
<1>15. k \in Nat
  BY <1>8, <1>11, <1>13, NextBytes
<1>16. PICK body : body = Bytes(m, m.done, k)
  OBVIOUS
<1>17. body \in Seq(DataUnit)
  BY <1>11, <1>13, <1>15, <1>16, BytesAre DEF IsBytes
<1>18. PICK q : q = [csid |-> c, fmt |-> 3, field |-> 0, len |-> m.len, type |-> m.type,
                     ext |-> e.ext, val |-> m.ts, body |-> body]
  OBVIOUS
<1>19. /\ q.csid = c /\ q.fmt = 3 /\ q.field = 0 /\ q.len = m.len /\ q.type = m.type
       /\ q.ext = e.ext /\ q.val = m.ts /\ q.body = body
  BY <1>18
<1>20. q \in ChunkSent
  <2>1. /\ m.ts \in 0 .. TsMod - 1 /\ m.len \in Nat /\ m.type \in Types
        /\ e.ext \in BOOLEAN /\ 0 \in 0 .. TsMod - 1 /\ 3 \in 0 .. 3
    BY <1>11, Limits DEF Sending
  <2>2. QED
    BY <1>17, <1>18, <2>1 DEF ChunkSent
<1>21. \/ NeverExtended(c) /\ ~e.ext /\ ~p.ext
       \/ AlwaysExtended(c) /\ e.ext = e.used /\ p.ext = e.used
  BY <1>5, <1>6, <1>7, <1>9, <1>10 DEF ExtendedInv
<1>22. e.ext \in BOOLEAN /\ p.ext \in BOOLEAN /\ e.ext = p.ext
  BY <1>7, <1>11, <1>21 DEF Header
<1>23. ExtensionKnown(p, q)
  BY <1>19, <1>22 DEF ExtensionKnown
<1>24. PICK h : h = HeaderOf(p, q)
  OBVIOUS
<1>25. h.ts = m.ts /\ h.len = m.len /\ h.type = m.type /\ h.ext = e.ext
  <2>1. h.ts = IF q.ext THEN m.ts ELSE p.ts
    BY <1>19, <1>24 DEF HeaderOf
  <2>2. h.len = p.len /\ h.type = p.type
    BY <1>19, <1>24 DEF HeaderOf
  <2>3. h.ext = (e.ext \/ p.ext)
    BY <1>19, <1>24 DEF HeaderOf
  <2>4. QED
    BY <1>7, <1>9, <1>12, <1>22, <2>1, <2>2, <2>3
<1>26. HeadersAgree(c, e, h, m)
  BY <1>11, <1>12, <1>21, <1>25 DEF HeadersAgree
<1>27. Carries(s, q, m, k)
  <2>1. Len(Bytes(m, 0, m.done)) = m.done
    <3>1. 0 \in Nat
      OBVIOUS
    <3>2. QED
      BY <1>11, <1>13, <3>1, BytesAre DEF IsBytes
  <2>2. PICK o : o = s.prog[c]
    OBVIOUS
  <2>3. PICK y : y = Bytes(m, 0, m.done)
    OBVIOUS
  <2>4. o = [ts |-> m.ts, len |-> m.len, type |-> m.type, payload |-> y]
    BY <1>7, <1>10, <2>2, <2>3
  <2>5. ~IsComplete(o)
    BY <1>13, <2>1, <2>3, <2>4 DEF IsComplete
  <2>6. Begun(s, q) = [ts |-> h.ts, len |-> o.len, type |-> o.type, payload |-> o.payload]
    BY <1>5, <1>19, <1>24, <2>2, <2>5 DEF Begun
  <2>7. Begun(s, q) = [ts |-> m.ts, len |-> m.len, type |-> m.type, payload |-> y]
    BY <1>25, <2>4, <2>6
  <2>8. QED
    BY <1>8, <1>16, <1>19, <2>3, <2>7 DEF Carries
<1>28. Readable(s, q)
  BY <1>3, <1>5, <1>7, <1>11, <1>15, <1>19, <1>20, <1>23, <1>27, CarriedIsReadable
<1>29. PICK t : t = After(s, q)
  OBVIOUS
<1>30. Follows(t)
  <2>1. enc' = [enc EXCEPT ![c] = e] /\ started' \in 0 .. MaxMsgs
    BY <1>10, <1>11
  <2>2. QED
    BY <1>3, <1>4, <1>5, <1>10, <1>14, <1>19, <1>20, <1>24, <1>26, <1>27, <1>29, <2>1,
       PeerAdvances
<1>31. net' = net \o Units(q)
  <2>1. MessageUnits(q.fmt, q.field, q) = <<>>
    BY <1>19 DEF MessageUnits
  <2>2. PICK x : x = net \o BasicUnits(3, c)
    OBVIOUS
  <2>3. x \in Seq(Unit)
    <3>1. c \in Nat \ {0, 1} /\ 3 \in 0 .. 3
      BY Limits
    <3>2. PICK y : y = BasicUnits(3, c)
      OBVIOUS
    <3>3. y \in Seq(Unit)
      BY <3>1, <3>2, BasicIs DEF IsBasic
    <3>4. QED
      BY <1>3, <2>2, <3>2, <3>3, CatIs
  <2>4. x \o <<>> = x
    BY <2>3, ConcatEmptySeq
  <2>5. net \o BasicUnits(q.fmt, q.csid) \o MessageUnits(q.fmt, q.field, q)
            \o ExtUnits(q.ext, q.val) \o q.body = net \o Units(q)
    BY <1>3, <1>20, StreamGrows
  <2>6. net \o BasicUnits(q.fmt, q.csid) \o MessageUnits(q.fmt, q.field, q) = x
    BY <1>19, <2>1, <2>2, <2>4
  <2>7. QED
    BY <1>10, <1>16, <1>19, <2>2, <2>5, <2>6
<1>32. /\ PeerInv' /\ PeerIs(t)' /\ t \in Parser
       /\ completed' = completed \/ \E x \in Message : completed' = Append(completed, x)
  BY <1>30 DEF Follows
<1>33. Readable(P[n], q) /\ t = After(P[n], q)
  BY <1>2, <1>28, <1>29
<1>34. QED
  BY <1>1, <1>10, <1>11, <1>20, <1>31, <1>32, <1>33, ChunkSends

-----------------------------------------------------------------------------
(* The invariance of IInv *)

\* At first no chunk is sent, and the history is that of one new parser.
LEMMA InitInv ==
    ASSUME Regular, Init
    PROVE  IInv
<1>1. /\ enc = [c \in Csids |-> NotSent] /\ cur = [c \in Csids |-> Idle]
      /\ outChunk = DefaultChunk /\ completed = <<>> /\ started = 0
      /\ net = <<>> /\ buf = <<>> /\ parsing = FALSE
      /\ prev = [c \in Csids |-> NoHeader] /\ prog = [c \in Csids |-> NoMessage]
      /\ inChunk = DefaultChunk /\ delivered = <<>> /\ derailed = FALSE
  BY DEF Init
<1>2. 0 \in 0 .. TsMod - 1 /\ DefaultChunk \in 1 .. MaxChunk /\ 0 \in 0 .. MaxMsgs
  BY Limits
<1>3. PICK s : s = [prev |-> [c \in Csids |-> NoHeader], prog |-> [c \in Csids |-> NoMessage],
                    chunk |-> DefaultChunk, out |-> <<>>]
  OBVIOUS
<1>4. NoHeader \in Header
  BY <1>2 DEF NoHeader, Header, Types
<1>5. NoMessage \in Message
  BY <1>2, EmptySeq DEF NoMessage, Message, Types
<1>6. s \in Parser
  BY <1>2, <1>3, <1>4, <1>5, EmptySeq DEF Parser
<1>7. PeerInv
  <2>1. /\ NotSent \in [ts : 0 .. TsMod - 1, len : Nat, type : Types, ext : BOOLEAN,
                        used : BOOLEAN]
        /\ Idle \in [ts : 0 .. TsMod - 1, len : Nat, type : Types, id : Nat, val : Nat,
                     done : Nat]
    BY <1>2 DEF NotSent, Idle, Types
  <2>2. PeerType
    BY <1>1, <1>2, <2>1, EmptySeq DEF PeerType
  <2>3. ChunkInv
    BY <1>1 DEF ChunkInv, OneChunk
  <2>4. \A c \in Csids : SendingInv(c)
    BY <1>1 DEF SendingInv
  <2>5. QED
    BY <2>2, <2>3, <2>4 DEF PeerInv
<1>8. PICK P : P = [i \in Nat |-> s]
  OBVIOUS
<1>9. PICK at : at = [i \in Nat |-> 0]
  OBVIOUS
<1>10. PICK Q : Q = [i \in Nat |-> 0]
  OBVIOUS
<1>11. P[0] = s /\ at[0] = 0 /\ 0 \in Nat /\ 0 \in 0 .. 0 /\ \A i \in 0 .. 0 : i = 0
  BY <1>8, <1>9
<1>12. IsHistory(0, Q, P, at, <<>>)
  <2>1. <<>> \in Seq(Unit) /\ Len(<<>>) = 0
    BY EmptySeq
  <2>2. 1 .. 0 = {}
    OBVIOUS
  <2>3. QED
    BY <1>6, <1>11, <2>1, <2>2 DEF IsHistory
<1>13. UnreadIs(0, 0, at, <<>>)
  <2>1. buf \in Seq(Unit) /\ net \in Seq(Unit) /\ Len(buf) = 0 /\ Len(net) = 0
    BY <1>1, EmptySeq
  <2>2. QED
    BY <1>11, <2>1 DEF UnreadIs
<1>14. PeerIs(s)
  <2>1. ASSUME NEW c \in Csids
        PROVE  /\ s.prev[c].ts = enc[c].ts /\ s.prev[c].len = enc[c].len
               /\ s.prev[c].type = enc[c].type /\ cur[c] = Idle
               /\ s.prog[c] = NoMessage
               /\ s.prev[c].ext = FALSE /\ enc[c].ext = FALSE /\ enc[c].used = FALSE
    BY <1>1, <1>3 DEF NotSent, NoHeader
  <2>2. s.chunk = outChunk /\ s.out = completed
    BY <1>1, <1>3
  <2>3. \A c \in Csids : ExtendedInv(s, c)
    BY <2>1 DEF ExtendedInv, Regular
  <2>4. QED
    BY <2>1, <2>2, <2>3 DEF PeerIs
<1>15. ParserIs(s) /\ ProgIs(s, 0, 0, Q)
  BY <1>1, <1>3 DEF ParserIs, ProgIs
<1>16. IsPrefix(s.out, completed)
  <2>1. <<>> \in Seq(Message)
    BY EmptySeq
  <2>2. QED
    BY <1>1, <1>3, <2>1, PrefixSame
<1>17. Returned(0, 0, Q)
  BY DEF Returned
<1>18. Explains(0, 0, Q, P, at, <<>>)
  BY <1>11, <1>12, <1>13, <1>14, <1>15, <1>16, <1>17 DEF Explains
<1>19. QED
  BY <1>1, <1>7, <1>18 DEF IInv

\* A stuttering step keeps the invariant.
LEMMA StutterInv ==
    ASSUME IInv, UNCHANGED vars
    PROVE  IInv'
<1>1. /\ UNCHANGED peerVars /\ net' = net /\ buf' = buf /\ parsing' = parsing
      /\ prev' = prev /\ prog' = prog /\ inChunk' = inChunk /\ delivered' = delivered
      /\ derailed' = derailed
  BY DEF vars, peerVars
<1>2. PICK r, n, Q, P, at, W : Explains(r, n, Q, P, at, W)
  BY DEF IInv
<1>3. PeerInv' /\ PeerIs(P[n])' /\ completed' = completed
  BY <1>1, <1>2, PeerSame DEF IInv, Explains
<1>4. Explains(r, n, Q, P, at, W)'
  BY <1>1, <1>2, <1>3 DEF Explains, UnreadIs, ParserIs, ProgIs, Returned
<1>5. QED
  BY <1>1, <1>3, <1>4 DEF IInv

\* Every step keeps the invariant.
LEMMA NextInv ==
    ASSUME Regular, IInv, [Next]_vars
    PROVE  IInv'
<1>1. CASE PeerStep
  <2>1. PICK c \in Csids :
            \/ \E fmt \in Fmts[c], m \in NewMessages(c) : StartMessage(c, fmt, m)
            \/ ContinueMessage(c)
    BY <1>1 DEF PeerStep
  <2>2. CASE \E fmt \in Fmts[c], m \in NewMessages(c) : StartMessage(c, fmt, m)
    BY <2>2, StartMessageInv
  <2>3. CASE ContinueMessage(c)
    BY <2>3, ContinueMessageInv
  <2>4. QED
    BY <2>1, <2>2, <2>3
<1>2. CASE ParserStep
  <2>1. CASE \E k \in 1 .. Len(net) : Read(k)
    BY <2>1, ReadInv
  <2>2. CASE WaitForHeader
    BY <2>2, WaitForHeaderInv
  <2>3. CASE WaitForData
    BY <2>3, WaitForDataInv
  <2>4. CASE ParseChunk
    BY <2>4, ParseChunkInv
  <2>5. QED
    BY <1>2, <2>1, <2>2, <2>3, <2>4 DEF ParserStep
<1>3. CASE UNCHANGED vars
  BY <1>3, StutterInv
<1>4. QED
  BY <1>1, <1>2, <1>3 DEF Next

\* The invariant holds in every state.
LEMMA Invariance ==
    ASSUME Regular
    PROVE  Spec => []IInv
<1>1. Init => IInv
  BY InitInv
<1>2. IInv /\ [Next]_vars => IInv'
  BY NextInv
<1>3. QED
  BY <1>1, <1>2, PTL DEF Spec

-----------------------------------------------------------------------------
(* What it says of the parser *)

\* The invariant implies TypeOK: prog is that of a parser of the history, or that
\* with one message begun.
LEMMA TypeHolds ==
    ASSUME IInv
    PROVE  TypeOK
<1>1. PICK r, n, Q, P, at, W : Explains(r, n, Q, P, at, W)
  BY DEF IInv
<1>2. PICK s : s = P[r]
  OBVIOUS
<1>3. IsHistory(n, Q, P, at, W) /\ r \in 0 .. n /\ ParserIs(s) /\ ProgIs(s, r, n, Q)
  BY <1>1, <1>2 DEF Explains
<1>4. s \in Parser
  BY <1>2, <1>3 DEF IsHistory
<1>5. prev \in [Csids -> Header] /\ inChunk \in 1 .. MaxChunk
  BY <1>3, <1>4 DEF ParserIs, Parser
<1>6. prog \in [Csids -> Message]
  <2>1. s.prog \in [Csids -> Message]
    BY <1>4 DEF Parser
  <2>2. CASE prog = s.prog
    BY <2>1, <2>2
  <2>3. CASE r < n /\ prog = [s.prog EXCEPT ![Q[r + 1].csid] = Begun(s, Q[r + 1])]
    <3>1. PICK q : q = Q[r + 1]
      OBVIOUS
    <3>2. q \in ChunkSent
      BY <1>3, <2>3, <3>1, NextChunk
    <3>3. Begun(s, q) \in Message
      BY <1>4, <3>2, BegunType
    <3>4. QED
      BY <2>1, <2>3, <3>1, <3>3
  <2>4. QED
    BY <1>3, <2>2, <2>3 DEF ProgIs
<1>7. outChunk \in Nat /\ started \in 0 .. MaxMsgs /\ parsing \in BOOLEAN
      /\ derailed \in BOOLEAN
  <2>1. outChunk \in 1 .. MaxChunk /\ started \in 0 .. MaxMsgs /\ parsing \in BOOLEAN
        /\ derailed = FALSE
    BY DEF IInv, PeerInv, PeerType
  <2>2. outChunk \in Nat
    BY <2>1
  <2>3. derailed \in BOOLEAN
    BY <2>1
  <2>4. QED
    BY <2>1, <2>2, <2>3
<1>8. ASSUME NEW c \in Csids
      PROVE  /\ prev[c].ts \in 0 .. TsMod - 1 /\ prev[c].len \in Nat
             /\ prev[c].type \in Types /\ prev[c].ext \in BOOLEAN
             /\ prog[c].type \in Types /\ Len(prog[c].payload) <= prog[c].len
  <2>1. prev[c] \in Header /\ prog[c] \in Message
    BY <1>5, <1>6
  <2>2. QED
    BY <2>1 DEF Header, Message
<1>9. QED
  BY <1>5, <1>7, <1>8 DEF TypeOK

\* The invariant implies DeliveredIntact: what each parser of the history has delivered
\* is a prefix of what is completed.
LEMMA IntactHolds ==
    ASSUME IInv
    PROVE  DeliveredIntact
<1>1. PICK r, n, Q, P, at, W : Explains(r, n, Q, P, at, W)
  BY DEF IInv
<1>2. r \in 0 .. n /\ IsPrefix(P[r].out, completed) /\ delivered = P[r].out
  BY <1>1 DEF Explains, ParserIs
<1>3. QED
  BY <1>2 DEF DeliveredIntact, IInv

\* The invariant implies NothingHeldBack: if the parser were not the last of the history,
\* a whole chunk would lie unread and Parse would not have returned.
LEMMA NothingHeldBackHolds ==
    ASSUME IInv
    PROVE  NothingHeldBack
<1> SUFFICES ASSUME net = <<>>, ~parsing PROVE delivered = completed /\ buf = <<>>
  BY DEF NothingHeldBack
<1>1. PICK r, n, Q, P, at, W : Explains(r, n, Q, P, at, W)
  BY DEF IInv
<1>2. /\ IsHistory(n, Q, P, at, W) /\ r \in 0 .. n /\ UnreadIs(r, n, at, W)
      /\ PeerIs(P[n]) /\ ParserIs(P[r]) /\ Returned(r, n, Q)
  BY <1>1 DEF Explains
<1>3. buf \in Seq(Unit) /\ Len(buf) = at[n] - at[r]
  <2>1. buf \in Seq(Unit) /\ Len(net) = 0 /\ Len(buf) + Len(net) = at[n] - at[r]
    BY <1>2, EmptySeq DEF UnreadIs
  <2>2. Len(buf) \in Nat
    BY <2>1, LenProperties
  <2>3. QED
    BY <2>1, <2>2
<1>4. r = n
  <2>1. SUFFICES ASSUME r # n PROVE FALSE
    OBVIOUS
  <2>2. PICK q : q = Q[r + 1]
    OBVIOUS
  <2>3. r < n
    BY <1>2, <2>1 DEF IsHistory
  <2>4. /\ at[r] \in Nat /\ at[r + 1] = at[r] + Len(Units(q)) /\ at[r + 1] <= at[n]
        /\ at[n] \in Nat /\ q \in ChunkSent
    BY <1>2, <2>2, <2>3, NextChunk
  <2>5. Len(Units(q)) \in Nat
    BY <2>4, UnitsAre, LenProperties
  <2>6. Len(buf) < Len(Units(q))
    BY <1>2, <2>1, <2>2 DEF Returned
  <2>7. PICK x : x = at[r]
    OBVIOUS
  <2>8. PICK y : y = at[n]
    OBVIOUS
  <2>9. PICK l : l = Len(Units(q))
    OBVIOUS
  <2>10. x \in Nat /\ y \in Nat /\ l \in Nat /\ x + l <= y /\ Len(buf) = y - x
    BY <1>3, <2>4, <2>5, <2>7, <2>8, <2>9
  <2>11. Len(buf) < l
    BY <2>6, <2>9
  <2>12. QED
    BY <2>10, <2>11
<1>5. delivered = completed
  BY <1>2, <1>4 DEF PeerIs, ParserIs
<1>6. Len(buf) = 0
  <2>1. at[n] \in Nat
    BY <1>2 DEF IsHistory
  <2>2. QED
    BY <1>3, <1>4, <2>1
<1>7. QED
  BY <1>3, <1>5, <1>6, EmptySeq

\* TypeOK holds in every state: what the parser keeps of a chunk stream is a header and
\* a message with no more payload than its length says.
THEOREM ParserTypeCorrect ==
    ASSUME Regular
    PROVE  Spec => []TypeOK
<1>1. IInv => TypeOK
  BY TypeHolds
<1>2. Spec => []IInv
  BY Invariance
<1>3. QED
  BY <1>1, <1>2, PTL

\* DeliveredIntact holds in every state: however chunks interleave and bytes arrive,
\* Parse never loses the chunk boundaries, and the messages it calls m_msg_cb with are
\* the first ones the peer finished, each with its timestamp, length, type and payload.
THEOREM ParserDeliversIntact ==
    ASSUME Regular
    PROVE  Spec => []DeliveredIntact
<1>1. IInv => DeliveredIntact
  BY IntactHolds
<1>2. Spec => []IInv
  BY Invariance
<1>3. QED
  BY <1>1, <1>2, PTL

\* NothingHeldBack holds in every state: when all that was sent has arrived and Parse has
\* returned, every finished message has been delivered and the buffer is empty.
THEOREM ParserHoldsNothingBack ==
    ASSUME Regular
    PROVE  Spec => []NothingHeldBack
<1>1. IInv => NothingHeldBack
  BY NothingHeldBackHolds
<1>2. Spec => []IInv
  BY Invariance
<1>3. QED
  BY <1>1, <1>2, PTL
=============================================================================
