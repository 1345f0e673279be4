-------------------------- MODULE RtmpSessionProofs --------------------------
(***************************************************************************)
(* For any handshake size, any names and any number of messages, however   *)
(* the client's stream is cut into reads: no byte of the handshake is      *)
(* taken for a message, and the server's answers come in the order of the  *)
(* messages and fit the chunk size the client knows.                       *)
(*                                                                         *)
(* The handshake state says both how much of the client's stream has been  *)
(* consumed and what the server has sent; the stream ids follow from the   *)
(* messages handled so far.                                                *)
(***************************************************************************)
EXTENDS RtmpSession, TcpConnectionOpsProofs, SequenceTheorems, FiniteSetTheorems

-----------------------------------------------------------------------------
(* The inductive invariant *)

\* The client's stream: C0C1, C2, messages.
SentInv ==
    /\ Len(sent) \in {0, K + 1} \cup 2 * K + 1 .. 2 * K + 1 + MaxMessages
    /\ \A i \in DOMAIN sent : i > 2 * K + 1 => sent[i] \in ClientMessages

\* Only messages are left of the stream when messages are parsed.
StreamInv ==
    /\ FramingIntact
    /\ HandShakeConsumed <= Len(sent)
    /\ hs # "Done" => handled = <<>>
    /\ loop = "parse" => hs = "Done"

\* The stream ids count the streams that were created.
ContextInv ==
    /\ ctx.streamId = Created(Len(handled))
    /\ ctx.nextStreamId = ctx.streamId + 1

AnswersInv ==
    /\ hs # "Done" => Out = Opening
    /\ hs = "Done" => AnswersInOrder

IInv ==
    /\ TypeOK /\ ConnInv(Replies, conn)
    /\ SentInv /\ StreamInv /\ ContextInv
    /\ AnswersInv /\ ChunksFit

\* The handshake goes on only with a client of the server's version.
Accepted == hs # "WaitC0C1" => sent # <<>> /\ sent[1] = GoodVersion

\* A client of another version is sent nothing, and nothing of it is handled: the
\* safety half of BadVersionRefused.
OthersUnanswered == sent # <<>> /\ sent[1] = BadVersion => Out = <<>> /\ handled = <<>>

-----------------------------------------------------------------------------
(* Sequences *)

LEMMA SeqElement ==
  ASSUME NEW S, NEW s \in Seq(S), NEW i \in 1 .. Len(s)
  PROVE  s[i] \in S
BY ElementOfSeq

\* What is left of a sequence when its first n elements have been taken.
LEMMA DropIs ==
  ASSUME NEW S, NEW s \in Seq(S), NEW n \in 0 .. Len(s)
  PROVE  /\ Drop(s, n) \in Seq(S)
         /\ Len(Drop(s, n)) = Len(s) - n
         /\ \A i \in 1 .. Len(s) - n : Drop(s, n)[i] = s[n + i]
<1>1. Len(s) \in Nat /\ n + 1 \in Int /\ n \in Nat
  BY LenProperties
<1>2. ASSUME NEW i \in n + 1 .. Len(s) PROVE s[i] \in S
  <2>1. i \in 1 .. Len(s)
    BY <1>1
  <2> QED BY <2>1, SeqElement
<1>3. /\ SubSeq(s, n + 1, Len(s)) \in Seq(S)
      /\ Len(SubSeq(s, n + 1, Len(s))) = IF n + 1 <= Len(s) THEN Len(s) - (n + 1) + 1 ELSE 0
      /\ \A i \in 1 .. Len(s) - (n + 1) + 1 :
            SubSeq(s, n + 1, Len(s))[i] = s[n + 1 + i - 1]
  BY <1>1, <1>2, SubSeqProperties
<1> DEFINE d == SubSeq(s, n + 1, Len(s))
<1> HIDE DEF d
<1>4. Len(d) = Len(s) - n /\ Len(s) - (n + 1) + 1 = Len(s) - n
  BY <1>1, <1>3 DEF d
<1>5. ASSUME NEW i \in 1 .. Len(s) - n PROVE d[i] = s[n + i]
  <2>1. i \in 1 .. Len(s) - (n + 1) + 1 /\ n + 1 + i - 1 = n + i
    BY <1>1, <1>4
  <2>2. d[i] = s[n + 1 + i - 1]
    BY <1>3, <2>1 DEF d
  <2> QED BY <2>1, <2>2
<1>6. d \in Seq(S)
  BY <1>3 DEF d
<1>7. d = Drop(s, n)
  BY DEF d, Drop
<1> QED BY <1>4, <1>5, <1>6, <1>7

LEMMA DropNothing ==
  ASSUME NEW S, NEW s \in Seq(S)
  PROVE  Drop(s, 0) = s
BY SubSeqFull DEF Drop

LEMMA DropTwice ==
  ASSUME NEW S, NEW s \in Seq(S), NEW a \in Nat, NEW b \in Nat, a + b <= Len(s)
  PROVE  Drop(Drop(s, a), b) = Drop(s, a + b)
<1>1. Len(s) \in Nat /\ a \in 0 .. Len(s) /\ a + b \in 0 .. Len(s) /\ b \in 0 .. Len(s) - a
  BY LenProperties
<1> DEFINE d == Drop(s, a)
           e == Drop(s, a + b)
<1>2. d \in Seq(S) /\ Len(d) = Len(s) - a /\ (\A i \in 1 .. Len(s) - a : d[i] = s[a + i])
  BY <1>1, DropIs
<1>3. e \in Seq(S) /\ Len(e) = Len(s) - (a + b)
      /\ (\A i \in 1 .. Len(s) - (a + b) : e[i] = s[a + b + i])
  BY <1>1, DropIs
<1> HIDE DEF d, e
<1>4. Drop(d, b) \in Seq(S) /\ Len(Drop(d, b)) = Len(d) - b
      /\ (\A i \in 1 .. Len(d) - b : Drop(d, b)[i] = d[b + i])
  <2>1. b \in 0 .. Len(d)
    BY <1>1, <1>2
  <2>2. d \in Seq(S)
    BY <1>2
  <2> QED BY <2>1, <2>2, DropIs
<1>5. Len(Drop(d, b)) = Len(e)
  BY <1>1, <1>2, <1>3, <1>4
<1>6. ASSUME NEW i \in 1 .. Len(e) PROVE Drop(d, b)[i] = e[i]
  <2>1. b + i \in 1 .. Len(s) - a /\ i \in 1 .. Len(d) - b /\ a + (b + i) = a + b + i
        /\ i \in 1 .. Len(s) - (a + b)
    BY <1>1, <1>2, <1>3
  <2> QED BY <1>2, <1>3, <1>4, <2>1
<1>7. Drop(d, b) = e
  BY <1>3, <1>4, <1>5, <1>6, SeqEqual
<1> QED BY <1>7 DEF d, e

LEMMA DropConcat ==
  ASSUME NEW S, NEW s \in Seq(S), NEW t \in Seq(S), NEW n \in 0 .. Len(s)
  PROVE  Drop(s \o t, n) = Drop(s, n) \o t
<1>1. Len(s) \in Nat /\ Len(t) \in Nat /\ n \in Nat
  BY LenProperties
<1> DEFINE u == s \o t
           d == Drop(s, n)
<1>2. u \in Seq(S) /\ Len(u) = Len(s) + Len(t)
      /\ \A i \in 1 .. Len(s) + Len(t) : u[i] = IF i <= Len(s) THEN s[i] ELSE t[i - Len(s)]
  BY ConcatProperties
<1>3. d \in Seq(S) /\ Len(d) = Len(s) - n /\ (\A i \in 1 .. Len(s) - n : d[i] = s[n + i])
  BY DropIs
<1> HIDE DEF u, d
<1>4. n \in 0 .. Len(u)
  BY <1>1, <1>2
<1>5. Drop(u, n) \in Seq(S) /\ Len(Drop(u, n)) = Len(u) - n
      /\ (\A i \in 1 .. Len(u) - n : Drop(u, n)[i] = u[n + i])
  BY <1>2, <1>4, DropIs
<1>6. d \o t \in Seq(S) /\ Len(d \o t) = Len(d) + Len(t)
      /\ \A i \in 1 .. Len(d) + Len(t) : (d \o t)[i] = IF i <= Len(d) THEN d[i] ELSE t[i - Len(d)]
  BY <1>3, ConcatProperties
<1>7. Len(Drop(u, n)) = Len(d \o t)
  BY <1>1, <1>2, <1>3, <1>5, <1>6
<1>8. ASSUME NEW i \in 1 .. Len(Drop(u, n)) PROVE Drop(u, n)[i] = (d \o t)[i]
  <2>1. i \in 1 .. Len(u) - n /\ n + i \in 1 .. Len(s) + Len(t) /\ i \in 1 .. Len(d) + Len(t)
    BY <1>1, <1>2, <1>3, <1>5
  <2>2. CASE n + i <= Len(s)
    <3>1. i <= Len(d) /\ i \in 1 .. Len(s) - n
      BY <1>1, <1>3, <2>1, <2>2
    <3> QED BY <1>2, <1>3, <1>5, <1>6, <2>1, <2>2, <3>1
  <2>3. CASE ~(n + i <= Len(s))
    <3>1. ~(i <= Len(d)) /\ n + i - Len(s) = i - Len(d)
      BY <1>1, <1>3, <2>1, <2>3
    <3> QED BY SMTT(30), <1>2, <1>5, <1>6, <2>1, <2>3, <3>1
  <2> QED BY <2>2, <2>3
<1>9. Drop(u, n) = d \o t
  BY <1>5, <1>6, <1>7, <1>8, SeqEqual
<1> QED BY <1>9 DEF u, d

LEMMA TakeAndDrop ==
  ASSUME NEW S, NEW s \in Seq(S), NEW n \in 0 .. Len(s)
  PROVE  SubSeq(s, 1, n) \o Drop(s, n) = s /\ SubSeq(s, 1, n) \in Seq(S)
<1>1. Len(s) \in Nat /\ 1 \in 1 .. Len(s) + 1 /\ n \in 1 - 1 .. Len(s)
      /\ Len(s) \in n .. Len(s)
  BY LenProperties
<1>2. SubSeq(s, 1, n) \o SubSeq(s, n + 1, Len(s)) = SubSeq(s, 1, Len(s))
  BY <1>1, ConcatAdjacentSubSeq
<1>3. ASSUME NEW i \in 1 .. n PROVE s[i] \in S
  <2>1. i \in 1 .. Len(s)
    BY <1>1
  <2> QED BY <2>1, SeqElement
<1>4. SubSeq(s, 1, n) \in Seq(S)
  BY <1>1, <1>3, SubSeqProperties
<1> QED BY <1>2, <1>4, SubSeqFull DEF Drop

LEMMA HeadMoves ==
  ASSUME NEW S, NEW h \in Seq(S), NEW b \in Seq(S), b # <<>>
  PROVE  Append(h, Head(b)) \o Tail(b) = h \o b
<1>1. Len(b) \in Nat /\ Len(b) >= 1 /\ Head(b) = b[1] /\ b[1] \in S
  BY LenProperties, EmptySeq
<1>2. Tail(b) = SubSeq(b, 2, Len(b)) /\ Tail(b) \in Seq(S)
  BY TailIsSubSeq, HeadTailProperties
<1>3. SubSeq(b, 1, Len(b)) = <<b[1]>> \o SubSeq(b, 1 + 1, Len(b))
  BY <1>1, SubSeqRecursiveFirst
<1>4. b = <<b[1]>> \o Tail(b)
  BY <1>2, <1>3, SubSeqFull
<1>5. Append(h, b[1]) = h \o <<b[1]>> /\ <<b[1]>> \in Seq(S)
  BY <1>1, AppendIsConcat
<1>6. (h \o <<b[1]>>) \o Tail(b) = h \o (<<b[1]>> \o Tail(b))
  BY <1>2, <1>5, ConcatAssociative
<1> QED BY <1>1, <1>4, <1>5, <1>6

LEMMA ConcatAppend ==
  ASSUME NEW S, NEW s \in Seq(S), NEW t \in Seq(S), NEW e \in S
  PROVE  s \o Append(t, e) = Append(s \o t, e)
<1>1. Append(t, e) = t \o <<e>> /\ <<e>> \in Seq(S) /\ s \o t \in Seq(S)
  BY AppendIsConcat, ConcatProperties
<1>2. Append(s \o t, e) = (s \o t) \o <<e>>
  BY <1>1, AppendIsConcat
<1> QED BY <1>1, <1>2, ConcatAssociative

\* Concatenation under a name the provers need not look into.
Cat(s, t) == s \o t

LEMMA CatAssociative ==
  ASSUME NEW S, NEW s \in Seq(S), NEW t \in Seq(S), NEW u \in Seq(S)
  PROVE  Cat(Cat(s, t), u) = Cat(s, Cat(t, u)) /\ Cat(s, t) \in Seq(S)
BY ConcatAssociative, ConcatProperties DEF Cat

LEMMA Regroup ==
  ASSUME NEW S, NEW h \in Seq(S), NEW b \in Seq(S), NEW x \in Seq(S), NEW y \in Seq(S)
  PROVE  /\ Cat(Cat(h, Cat(b, x)), y) = Cat(Cat(h, b), Cat(x, y))
         /\ Cat(Cat(h, b), Cat(x, y)) = Cat(Cat(Cat(h, b), x), y)
BY CatAssociative

\* Short sequences, written out.
LEMMA PairIs ==
  ASSUME NEW S, NEW a \in S, NEW b \in S
  PROVE  Append(<<a>>, b) = <<a, b>>
<1>1. Append(<<a>>, b) \in Seq(S) /\ <<a, b>> \in Seq(S)
      /\ Len(Append(<<a>>, b)) = 2 /\ Len(<<a, b>>) = 2
  OBVIOUS
<1>2. \A i \in 1 .. 2 : Append(<<a>>, b)[i] = <<a, b>>[i]
  OBVIOUS
<1> QED BY <1>1, <1>2, SeqEqual

LEMMA TripleIs ==
  ASSUME NEW S, NEW a \in S, NEW b \in S, NEW c \in S
  PROVE  Append(<<a, b>>, c) = <<a, b, c>>
<1>1. Append(<<a, b>>, c) \in Seq(S) /\ <<a, b, c>> \in Seq(S)
      /\ Len(Append(<<a, b>>, c)) = 3 /\ Len(<<a, b, c>>) = 3
  OBVIOUS
<1>2. \A i \in 1 .. 3 : Append(<<a, b>>, c)[i] = <<a, b, c>>[i]
  OBVIOUS
<1> QED BY <1>1, <1>2, SeqEqual

LEMMA QuadrupleIs ==
  ASSUME NEW S, NEW a \in S, NEW b \in S, NEW c \in S, NEW d \in S
  PROVE  Append(<<a, b, c>>, d) = <<a, b, c, d>>
<1>1. Append(<<a, b, c>>, d) \in Seq(S) /\ <<a, b, c, d>> \in Seq(S)
      /\ Len(Append(<<a, b, c>>, d)) = 4 /\ Len(<<a, b, c, d>>) = 4
  OBVIOUS
<1>2. \A i \in 1 .. 4 : Append(<<a, b, c>>, d)[i] = <<a, b, c, d>>[i]
  OBVIOUS
<1> QED BY <1>1, <1>2, SeqEqual

LEMMA QuintupleIs ==
  ASSUME NEW S, NEW a \in S, NEW b \in S, NEW c \in S, NEW d \in S, NEW e \in S
  PROVE  Append(<<a, b, c, d>>, e) = <<a, b, c, d, e>>
<1>1. Append(<<a, b, c, d>>, e) \in Seq(S) /\ <<a, b, c, d, e>> \in Seq(S)
      /\ Len(Append(<<a, b, c, d>>, e)) = 5 /\ Len(<<a, b, c, d, e>>) = 5
  OBVIOUS
<1>2. \A i \in 1 .. 5 : Append(<<a, b, c, d>>, e)[i] = <<a, b, c, d, e>>[i]
  OBVIOUS
<1> QED BY <1>1, <1>2, SeqEqual

-----------------------------------------------------------------------------
(* Counting the messages handled *)

\* The messages among the first n of h that are of one of the kinds Q.
KindCount(h, n, Q) == Cardinality({i \in 1 .. n : h[i].kind \in Q})

LEMMA CountBounds ==
  ASSUME NEW h, NEW n \in Nat, NEW Q
  PROVE  /\ IsFiniteSet({i \in 1 .. n : h[i].kind \in Q})
         /\ KindCount(h, n, Q) \in Nat
         /\ KindCount(h, n, Q) <= n
<1> DEFINE A == {i \in 1 .. n : h[i].kind \in Q}
<1>1. IsFiniteSet(1 .. n) /\ Cardinality(1 .. n) = n
  <2>1. 1 \in Int /\ n \in Int
    OBVIOUS
  <2>2. IsFiniteSet(1 .. n) /\ Cardinality(1 .. n) = IF 1 > n THEN 0 ELSE n - 1 + 1
    BY <2>1, FS_Interval
  <2> QED BY <2>2
<1>2. A \in SUBSET (1 .. n)
  OBVIOUS
<1> HIDE DEF A
<1>3. IsFiniteSet(A) /\ Cardinality(A) <= Cardinality(1 .. n)
  BY <1>1, <1>2, FS_Subset
<1>4. Cardinality(A) \in Nat
  BY <1>3, FS_CardinalityType
<1> QED BY <1>1, <1>3, <1>4 DEF A, KindCount

LEMMA CountNone ==
  ASSUME NEW h, NEW Q
  PROVE  KindCount(h, 0, Q) = 0
<1>1. {i \in 1 .. 0 : h[i].kind \in Q} = {}
  OBVIOUS
<1> QED BY <1>1, FS_EmptySet DEF KindCount

LEMMA CountNext ==
  ASSUME NEW h, NEW n \in Nat, NEW Q
  PROVE  KindCount(h, n + 1, Q) = KindCount(h, n, Q) + (IF h[n + 1].kind \in Q THEN 1 ELSE 0)
<1> DEFINE A == {i \in 1 .. n : h[i].kind \in Q}
           B == {i \in 1 .. n + 1 : h[i].kind \in Q}
<1>1. IsFiniteSet(A) /\ Cardinality(A) = KindCount(h, n, Q) /\ KindCount(h, n, Q) \in Nat
  BY CountBounds DEF KindCount
<1>2. Cardinality(B) = KindCount(h, n + 1, Q)
  BY DEF KindCount
<1>3. CASE h[n + 1].kind \in Q
  <2>1. B = A \cup {n + 1} /\ n + 1 \notin A
    BY <1>3
  <2> HIDE DEF A, B
  <2>2. Cardinality(B) = Cardinality(A) + 1
    BY <1>1, <2>1, FS_AddElement
  <2> QED BY <1>1, <1>2, <1>3, <2>2
<1>4. CASE h[n + 1].kind \notin Q
  <2>1. B = A
    BY <1>4
  <2> HIDE DEF A, B
  <2> QED BY <1>1, <1>2, <1>4, <2>1
<1> QED BY <1>3, <1>4

LEMMA CountSame ==
  ASSUME NEW g, NEW h, NEW n \in Nat, NEW Q, \A i \in 1 .. n : g[i] = h[i]
  PROVE  KindCount(g, n, Q) = KindCount(h, n, Q)
<1>1. {i \in 1 .. n : g[i].kind \in Q} = {i \in 1 .. n : h[i].kind \in Q}
  OBVIOUS
<1> QED BY <1>1 DEF KindCount

\* Created and Given count the messages that make streams and the answers.
StreamMakers == {"createStream"}
Starters == {"publish", "play"}

LEMMA CountersAre ==
  /\ \A n : Created(n) = KindCount(handled, n, StreamMakers)
  /\ \A n : Given(n) = KindCount(handled, n, Answered) + KindCount(handled, n, Starters)
<1>1. ASSUME NEW n PROVE Created(n) = KindCount(handled, n, StreamMakers)
  <2>1. {i \in 1 .. n : handled[i].kind = "createStream"}
          = {i \in 1 .. n : handled[i].kind \in StreamMakers}
    BY DEF StreamMakers
  <2> QED BY <2>1 DEF Created, KindCount
<1>2. ASSUME NEW n PROVE Given(n) = KindCount(handled, n, Answered) + KindCount(handled, n, Starters)
  BY DEF Given, KindCount, Starters
<1> QED BY <1>1, <1>2

LEMMA CountersAreNext ==
  (/\ \A n : Created(n) = KindCount(handled, n, StreamMakers)
   /\ \A n : Given(n) = KindCount(handled, n, Answered) + KindCount(handled, n, Starters))'
BY CountersAre, PTL

\* How many replies a message is answered with.
Answers(m) ==
    (IF m.kind \in Answered THEN 1 ELSE 0) + (IF m.kind \in Starters THEN 1 ELSE 0)

\* The counters in a state, and what handling one more message does to them.
LEMMA CountersTyped ==
  ASSUME NEW n \in Nat
  PROVE  Created(n) \in Nat /\ Created(n) <= n /\ Given(n) \in Nat
         /\ Created(0) = 0 /\ Given(0) = 0
<1>1. Created(n) = KindCount(handled, n, StreamMakers)
      /\ Given(n) = KindCount(handled, n, Answered) + KindCount(handled, n, Starters)
      /\ Created(0) = KindCount(handled, 0, StreamMakers)
      /\ Given(0) = KindCount(handled, 0, Answered) + KindCount(handled, 0, Starters)
  BY CountersAre
<1>2. /\ KindCount(handled, n, StreamMakers) \in Nat /\ KindCount(handled, n, StreamMakers) <= n
      /\ KindCount(handled, n, Answered) \in Nat /\ KindCount(handled, n, Starters) \in Nat
  BY CountBounds
<1>3. /\ KindCount(handled, 0, StreamMakers) = 0
      /\ KindCount(handled, 0, Answered) = 0 /\ KindCount(handled, 0, Starters) = 0
  BY CountNone
<1> QED BY <1>1, <1>2, <1>3

LEMMA CountersKept ==
  ASSUME handled' = handled
  PROVE  \A n : Created(n)' = Created(n) /\ Given(n)' = Given(n)
BY CountersAre, CountersAreNext

LEMMA CountersGrow ==
  ASSUME handled \in Seq(ClientMessages), NEW m \in ClientMessages,
         handled' = Append(handled, m), NEW n \in Nat, n = Len(handled)
  PROVE  /\ \A k \in 0 .. n : Created(k)' = Created(k) /\ Given(k)' = Given(k)
         /\ Created(n + 1)' = Created(n) + (IF m.kind = "createStream" THEN 1 ELSE 0)
         /\ Given(n + 1)' = Given(n) + Answers(m)
<1>0. PICK h : h = handled'
  OBVIOUS
<1>1. Len(h) = n + 1 /\ h[n + 1] = m /\ \A i \in 1 .. n : h[i] = handled[i]
  BY <1>0, AppendProperties
<1>2. ASSUME NEW k \in 0 .. n, NEW Q PROVE KindCount(h, k, Q) = KindCount(handled, k, Q)
  <2>1. k \in Nat /\ \A i \in 1 .. k : h[i] = handled[i]
    BY <1>1
  <2> QED BY <2>1, CountSame
<1>3. ASSUME NEW k \in 0 .. n PROVE Created(k)' = Created(k) /\ Given(k)' = Given(k)
  BY <1>0, <1>2, CountersAre, CountersAreNext
<1>4. ASSUME NEW Q
      PROVE  KindCount(h, n + 1, Q) = KindCount(handled, n, Q) + (IF m.kind \in Q THEN 1 ELSE 0)
  <2>1. n \in 0 .. n
    OBVIOUS
  <2>2. KindCount(h, n, Q) = KindCount(handled, n, Q)
    BY <1>2, <2>1
  <2>3. KindCount(h, n + 1, Q)
          = KindCount(h, n, Q) + (IF h[n + 1].kind \in Q THEN 1 ELSE 0)
    BY CountNext
  <2> QED BY <1>1, <2>2, <2>3
<1>5. Created(n + 1)' = Created(n) + (IF m.kind = "createStream" THEN 1 ELSE 0)
  <2>1. PICK k : k = n + 1
    OBVIOUS
  <2>2. Created(k)' = KindCount(h, k, StreamMakers)
    BY <1>0, CountersAreNext
  <2>3. Created(n) = KindCount(handled, n, StreamMakers)
    BY CountersAre
  <2>4. m.kind \in StreamMakers <=> m.kind = "createStream"
    BY DEF StreamMakers
  <2> QED BY <1>4, <2>1, <2>2, <2>3, <2>4
<1>6. Given(n + 1)' = Given(n) + Answers(m)
  <2>1. PICK k : k = n + 1
    OBVIOUS
  <2>2. Given(k)' = KindCount(h, k, Answered) + KindCount(h, k, Starters)
    BY <1>0, CountersAreNext
  <2>3. Given(n) = KindCount(handled, n, Answered) + KindCount(handled, n, Starters)
    BY CountersAre
  <2>4. KindCount(handled, n, Answered) \in Nat /\ KindCount(handled, n, Starters) \in Nat
    BY CountBounds
  <2>5. KindCount(h, k, Answered)
          = KindCount(handled, n, Answered) + (IF m.kind \in Answered THEN 1 ELSE 0)
    BY <1>4, <2>1
  <2>6. KindCount(h, k, Starters)
          = KindCount(handled, n, Starters) + (IF m.kind \in Starters THEN 1 ELSE 0)
    BY <1>4, <2>1
  <2> HIDE DEF KindCount
  <2> QED BY <2>1, <2>2, <2>3, <2>4, <2>5, <2>6 DEF Answers
<1> QED BY <1>3, <1>5, <1>6

-----------------------------------------------------------------------------
(* The conversation *)

\* From place at on, out holds what is documented as the answer to m.
AnsweredAt(out, m, b, a, at) ==
    \A k \in DOMAIN Documented(m, b, a) :
        at + k \in DOMAIN out /\ out[at + k] = Documented(m, b, a)[k]

\* AnswersInOrder of an output, an opening and a list of messages, with the two
\* counters as functions of the number of messages.
Talk(out, open, h, C, G) ==
    /\ Len(out) = Len(open) + G[Len(h)]
    /\ \A i \in DOMAIN open : out[i] = open[i]
    /\ \A n \in DOMAIN h : AnsweredAt(out, h[n], C[n - 1], C[n], Len(open) + G[n - 1])

TalkNow == Talk(Out, Opening, handled, [n \in 0 .. Len(handled) |-> Created(n)],
                [n \in 0 .. Len(handled) |-> Given(n)])

LEMMA TalkForm == handled \in Seq(ClientMessages) => (AnswersInOrder <=> TalkNow)
<1> DEFINE C == [n \in 0 .. Len(handled) |-> Created(n)]
           G == [n \in 0 .. Len(handled) |-> Given(n)]
<1> SUFFICES ASSUME handled \in Seq(ClientMessages) PROVE AnswersInOrder <=> TalkNow
  OBVIOUS
<1>1. Len(handled) \in Nat /\ DOMAIN handled = 1 .. Len(handled)
  BY LenProperties
<1>2. G[Len(handled)] = Given(Len(handled))
  BY <1>1
<1>3. ASSUME NEW n \in DOMAIN handled
      PROVE  C[n - 1] = Created(n - 1) /\ C[n] = Created(n) /\ G[n - 1] = Given(n - 1)
  <2>1. n - 1 \in 0 .. Len(handled) /\ n \in 0 .. Len(handled)
    BY <1>1
  <2> QED BY <2>1
<1> HIDE DEF C, G
<1>4. AnswersInOrder <=> Talk(Out, Opening, handled, C, G)
  BY SMTT(30), <1>2, <1>3 DEF AnswersInOrder, Talk, AnsweredAt
<1> QED BY <1>4 DEF C, G, TalkNow

LEMMA TalkFormNext == (handled \in Seq(ClientMessages) => (AnswersInOrder <=> TalkNow))'
BY TalkForm, PTL

\* A message handled and answered as documented continues the conversation.
LEMMA TalkGrows ==
  ASSUME NEW out \in Seq(Replies), NEW open \in Seq(Replies),
         NEW h \in Seq(ClientMessages), NEW m \in ClientMessages, NEW n \in Nat, n = Len(h),
         NEW C, NEW G, NEW D, NEW E, \A k \in 0 .. n : D[k] = C[k] /\ E[k] = G[k],
         G[n] \in Nat, \A k \in 0 .. n : G[k] \in Nat,
         NEW doc \in Seq(Replies), doc = Documented(m, C[n], D[n + 1]),
         E[n + 1] = G[n] + Len(doc),
         Talk(out, open, h, C, G)
  PROVE  Talk(out \o doc, open, Append(h, m), D, E)
<1> DEFINE new == out \o doc
           g == Append(h, m)
<1>1. /\ Len(out) \in Nat /\ Len(doc) \in Nat /\ Len(open) \in Nat
      /\ DOMAIN out = 1 .. Len(out) /\ DOMAIN doc = 1 .. Len(doc)
      /\ DOMAIN open = 1 .. Len(open) /\ DOMAIN h = 1 .. n
  BY LenProperties
<1>2. /\ new \in Seq(Replies) /\ Len(new) = Len(out) + Len(doc)
      /\ \A i \in 1 .. Len(out) + Len(doc) :
            new[i] = IF i <= Len(out) THEN out[i] ELSE doc[i - Len(out)]
  BY ConcatProperties
<1>3. g \in Seq(ClientMessages) /\ Len(g) = n + 1 /\ g[n + 1] = m
      /\ \A i \in 1 .. n : g[i] = h[i]
  BY AppendProperties
<1>4. DOMAIN new = 1 .. Len(out) + Len(doc) /\ DOMAIN g = 1 .. n + 1
  BY <1>2, <1>3, LenProperties
<1> HIDE DEF new, g
<1>5. Len(out) = Len(open) + G[n] /\ (\A i \in DOMAIN open : out[i] = open[i])
      /\ \A i \in DOMAIN h : AnsweredAt(out, h[i], C[i - 1], C[i], Len(open) + G[i - 1])
  BY DEF Talk
<1>6. Len(new) = Len(open) + E[Len(g)]
  BY <1>1, <1>2, <1>3, <1>5
<1>7. ASSUME NEW i \in DOMAIN open PROVE new[i] = open[i]
  <2>1. i \in 1 .. Len(out)
    BY <1>1, <1>5
  <2> QED BY SMTT(30), <1>1, <1>2, <1>5, <2>1
<1>8. ASSUME NEW i \in DOMAIN g
      PROVE  AnsweredAt(new, g[i], D[i - 1], D[i], Len(open) + E[i - 1])
  <2>1. i \in 1 .. n \/ i = n + 1
    BY SMTT(30), <1>4
  <2>2. CASE i \in 1 .. n
    <3>1. i - 1 \in 0 .. n /\ i \in 0 .. n /\ i \in DOMAIN h
      BY <1>1, <2>2
    <3>2. AnsweredAt(out, h[i], C[i - 1], C[i], Len(open) + G[i - 1])
      BY <1>5, <3>1
    <3>3. g[i] = h[i] /\ D[i - 1] = C[i - 1] /\ D[i] = C[i] /\ E[i - 1] = G[i - 1]
      BY <1>3, <2>2, <3>1
    <3>4. \A x \in DOMAIN out : x \in DOMAIN new /\ new[x] = out[x]
      BY <1>1, <1>2, <1>4
    <3> QED BY <3>2, <3>3, <3>4 DEF AnsweredAt
  <2>3. CASE i = n + 1
    <3>1. i - 1 = n /\ g[i] = m /\ D[i - 1] = C[n] /\ E[i - 1] = G[n] /\ D[i] = D[n + 1]
      BY <1>3, <2>3
    <3>2. ASSUME NEW k \in DOMAIN doc
          PROVE  Len(out) + k \in DOMAIN new /\ new[Len(out) + k] = doc[k]
      <4>1. Len(out) + k \in 1 .. Len(out) + Len(doc) /\ ~(Len(out) + k <= Len(out))
            /\ Len(out) + k - Len(out) = k
        BY <1>1
      <4> QED BY <1>2, <1>4, <4>1
    <3> QED BY <1>5, <3>1, <3>2 DEF AnsweredAt
  <2> QED BY <2>1, <2>2, <2>3
<1>9. Talk(new, open, g, D, E)
  BY <1>6, <1>7, <1>8 DEF Talk
<1> QED BY <1>9 DEF new, g

-----------------------------------------------------------------------------
(* The chunk size *)

\* ChunksFit of a sequence of messages.
Fits(out) == \A i \in DOMAIN out : out[i].len <= Known(out, i)

LEMMA ReplyLengths ==
  ASSUME NEW r \in Replies
  PROVE  r.len \in Nat /\ r.len <= OutChunkSize
BY DEF Replies, Reply, S0S1, S2, WindowAckSize, PeerBandwidth, SetChunkSize, ConnectResult,
   CreateStreamResult, StreamBegin, PublishStart, PlayStart, OutChunkSize

\* A message that fits the default, or comes after a SetChunkSize, may follow.
LEMMA FitsAppend ==
  ASSUME NEW s \in Seq(Replies), Fits(s), NEW r \in Replies,
         r.len <= DefaultChunkSize \/ \E j \in 1 .. Len(s) : s[j].type = "SetChunkSize"
  PROVE  Fits(Append(s, r))
<1> DEFINE t == Append(s, r)
<1>1. Len(s) \in Nat /\ DOMAIN s = 1 .. Len(s)
  BY LenProperties
<1>2. t \in Seq(Replies) /\ Len(t) = Len(s) + 1 /\ t[Len(s) + 1] = r
      /\ \A i \in 1 .. Len(s) : t[i] = s[i]
  BY AppendProperties
<1>3. DOMAIN t = 1 .. Len(s) + 1
  BY <1>2, LenProperties
<1> HIDE DEF t
<1>4. ASSUME NEW i \in DOMAIN t PROVE t[i].len <= Known(t, i)
  <2>1. i \in 1 .. Len(s) \/ i = Len(s) + 1
    BY <1>1, <1>3
  <2>2. CASE i \in 1 .. Len(s)
    <3>1. \A j \in 1 .. i - 1 : t[j] = s[j]
      BY <1>1, <1>2, <2>2
    <3>2. Known(t, i) = Known(s, i)
      BY <3>1 DEF Known
    <3>3. s[i].len <= Known(s, i)
      BY <1>1, <2>2 DEF Fits
    <3> QED BY <1>2, <2>2, <3>2, <3>3
  <2>3. CASE i = Len(s) + 1
    <3>1. t[i] = r /\ i - 1 = Len(s)
      BY <1>1, <1>2, <2>3
    <3>2. r.len \in Nat /\ r.len <= OutChunkSize
      BY ReplyLengths
    <3>3. (\E j \in 1 .. Len(s) : s[j].type = "SetChunkSize") => Known(t, i) = OutChunkSize
      BY <1>2, <3>1 DEF Known
    <3>4. DefaultChunkSize <= Known(t, i)
      BY DEF Known, DefaultChunkSize, OutChunkSize
    <3>5. Known(t, i) \in Nat /\ DefaultChunkSize \in Nat
      BY DEF Known, DefaultChunkSize, OutChunkSize
    <3> QED BY <3>1, <3>2, <3>3, <3>4, <3>5
  <2> QED BY <2>1, <2>2, <2>3
<1> QED BY <1>4 DEF Fits, t

-----------------------------------------------------------------------------
(* Steps that neither parse nor send *)

\* Sending appends to what the server has said.
LEMMA SendSays ==
  ASSUME NEW w \in Seq(Replies), NEW c, ConnInv(Replies, c), NEW m \in Replies
  PROVE  /\ ConnInv(Replies, SendInLoop(c, m))
         /\ w \o Backlog(SendInLoop(c, m)) = Append(w \o Backlog(c), m)
<1>1. PICK b : b = Backlog(c)
  OBVIOUS
<1>2. b \in Seq(Replies)
  BY <1>1 DEF ConnInv, Connection, Pinned, Backlog
<1>3. Append(w \o b, m) = w \o Append(b, m)
  BY <1>2, ConcatAppend
<1> QED BY <1>1, <1>3, SendInLoopInv

LEMMA OutTyped ==
  ASSUME wire \in Seq(Replies), ConnInv(Replies, conn)
  PROVE  Out \in Seq(Replies)
<1>1. Backlog(conn) \in Seq(Replies)
  BY DEF ConnInv, Connection, Pinned, Backlog
<1> QED BY <1>1, ConcatProperties DEF Out

LEMMA CompletedTyped ==
  ASSUME NEW c, NEW d
  PROVE  Completed(c, d) \in Seq({"read", "write"})
<1>1. <<"read">> \in Seq({"read", "write"}) /\ <<"write">> \in Seq({"read", "write"})
      /\ <<>> \in Seq({"read", "write"})
  OBVIOUS
<1>2. PICK a, b : a \in {<<>>, <<"write">>} /\ b \in {<<>>, <<"read">>} /\ Completed(c, d) = a \o b
  BY DEF Completed
<1> QED BY <1>1, <1>2, ConcatProperties

LEMMA OnCloseTyped ==
  ASSUME TypeOK, OnClose
  PROVE  removed' \subseteq Names \X Names
<1>1. ctx.app \in Names /\ ctx.stream \in Names /\ removed \subseteq Names \X Names
  BY DEF TypeOK
<1> QED BY <1>1 DEF OnClose

\* As long as nothing is said or handled, the conversation is as it was.
LEMMA TalkKept ==
  ASSUME handled \in Seq(ClientMessages), handled' = handled, hs' = hs, Out' = Out,
         AnswersInv, ChunksFit
  PROVE  AnswersInv' /\ ChunksFit'
<1>1. Opening' = Opening
  BY DEF Opening
<1>2. \A n \in 0 .. Len(handled) : Created(n)' = Created(n) /\ Given(n)' = Given(n)
  BY CountersKept
<1>3. /\ [n \in 0 .. Len(handled) |-> Created(n)'] = [n \in 0 .. Len(handled) |-> Created(n)]
      /\ [n \in 0 .. Len(handled) |-> Given(n)'] = [n \in 0 .. Len(handled) |-> Given(n)]
  BY <1>2
<1>4. TalkNow' <=> TalkNow
  BY <1>1, <1>3 DEF TalkNow
<1>5. (AnswersInOrder' <=> TalkNow') /\ (AnswersInOrder <=> TalkNow)
  BY TalkForm, TalkFormNext
<1>6. AnswersInv'
  BY <1>1, <1>4, <1>5 DEF AnswersInv
<1>7. ChunksFit'
  BY DEF ChunksFit, Known
<1> QED BY <1>6, <1>7

\* A step that leaves the client's stream, the handshake and what was said alone.
LEMMA QuietStep ==
  ASSUME IInv, UNCHANGED <<hs, buf, ctx, c2s, sent, handled, client>>,
         ConnInv(Replies, conn'), Out' = Out, wire' \in Seq(Replies),
         ready' \in Seq({"read", "write"}), loop' \in LoopStates,
         loop' = "parse" => hs = "Done",
         removed' \subseteq Names \X Names, gone' \in BOOLEAN
  PROVE  IInv'
<1>1. TypeOK /\ SentInv /\ StreamInv /\ ContextInv /\ AnswersInv /\ ChunksFit
  BY DEF IInv
<1>2. TypeOK'
  BY <1>1 DEF TypeOK, ConnInv
<1>3. SentInv'
  BY <1>1 DEF SentInv
<1>4. StreamInv'
  <2>1. HandShakeConsumed' = HandShakeConsumed
    BY DEF HandShakeConsumed
  <2>2. FramingIntact'
    BY <1>1, <2>1 DEF StreamInv, FramingIntact, Drop
  <2> QED BY <1>1, <2>1, <2>2 DEF StreamInv
<1>5. ContextInv'
  <2>1. PICK n : n = Len(handled)
    OBVIOUS
  <2>2. Created(n)' = Created(n) /\ n = Len(handled')
    BY <2>1, CountersKept
  <2> QED BY <1>1, <2>1, <2>2 DEF ContextInv
<1>6. handled \in Seq(ClientMessages)
  BY <1>1 DEF TypeOK
<1>7. AnswersInv' /\ ChunksFit'
  BY <1>1, <1>6, TalkKept
<1> QED BY <1>2, <1>3, <1>4, <1>5, <1>7 DEF IInv

\* What the invariant says that the steps need every time.
LEMMA Facts ==
  ASSUME IInv
  PROVE  /\ ConnInv(Replies, conn) /\ wire \in Seq(Replies)
         /\ ready \in Seq({"read", "write"}) /\ loop \in LoopStates
         /\ removed \subseteq Names \X Names /\ gone \in BOOLEAN
         /\ loop = "parse" => hs = "Done"
BY DEF IInv, TypeOK, StreamInv

\* A completion joins the handlers that wait, or the first of them leaves.
LEMMA ReadyTyped ==
  ASSUME ready \in Seq({"read", "write"}), NEW c, NEW d
  PROVE  /\ ready \o Completed(c, d) \in Seq({"read", "write"})
         /\ ready # <<>> => /\ Tail(ready) \in Seq({"read", "write"})
                            /\ Tail(ready) \o Completed(c, d) \in Seq({"read", "write"})
<1>1. Completed(c, d) \in Seq({"read", "write"})
  BY CompletedTyped
<1>2. ready # <<>> => Tail(ready) \in Seq({"read", "write"})
  BY HeadTailProperties
<1> QED BY <1>1, <1>2, ConcatProperties

LEMMA ReadErrorHandlerStep ==
  ASSUME IInv, ReadErrorHandler
  PROVE  IInv'
<1>1. conn' = ReadFailed(conn) /\ ready' = Tail(ready) \o Completed(conn, conn') /\ ready # <<>>
      /\ OnClose /\ UNCHANGED <<loop, hs, buf, ctx, c2s, wire, sent, handled, client, gone>>
  BY DEF ReadErrorHandler, clientVars
<1>2. ConnInv(Replies, conn') /\ Backlog(conn') = Backlog(conn)
  BY <1>1, Facts, ReadFailedInv
<1>3. ready' \in Seq({"read", "write"})
  BY <1>1, Facts, ReadyTyped
<1>4. removed' \subseteq Names \X Names
  BY <1>1, OnCloseTyped DEF IInv
<1>5. Out' = Out
  BY <1>1, <1>2 DEF Out
<1> QED BY <1>1, <1>2, <1>3, <1>4, <1>5, Facts, QuietStep

LEMMA WriteErrorHandlerStep ==
  ASSUME IInv, WriteErrorHandler
  PROVE  IInv'
<1>1. conn.wr = "err" /\ conn' = WriteFailed(conn)
      /\ ready' = Tail(ready) \o Completed(conn, conn') /\ ready # <<>>
      /\ OnClose /\ UNCHANGED <<loop, hs, buf, ctx, c2s, wire, sent, handled, client, gone>>
  BY DEF WriteErrorHandler, clientVars
<1>2. ConnInv(Replies, conn') /\ Backlog(conn') = Backlog(conn)
  BY <1>1, Facts, WriteFailedInv
<1>3. ready' \in Seq({"read", "write"})
  BY <1>1, Facts, ReadyTyped
<1>4. removed' \subseteq Names \X Names
  BY <1>1, OnCloseTyped DEF IInv
<1>5. Out' = Out
  BY <1>1, <1>2 DEF Out
<1> QED BY <1>1, <1>2, <1>3, <1>4, <1>5, Facts, QuietStep

LEMMA HandShakeWaitsStep ==
  ASSUME IInv, HandShakeWaits
  PROVE  IInv'
<1>1. loop' = "return" /\ UNCHANGED <<conn, ready, hs, buf, ctx, removed, c2s, wire, sent,
                                     handled, client, gone>>
  BY DEF HandShakeWaits, clientVars
<1>2. Out' = Out /\ loop' \in LoopStates /\ loop' # "parse"
  BY <1>1 DEF Out, LoopStates
<1> QED BY <1>1, <1>2, Facts, QuietStep

LEMMA RejectC0C1Step ==
  ASSUME IInv, RejectC0C1
  PROVE  IInv'
<1>1. conn' = Close(conn) /\ ready' = ready \o Completed(conn, conn') /\ loop' = "return"
      /\ OnClose /\ UNCHANGED <<hs, buf, ctx, c2s, wire, sent, handled, client, gone>>
  BY DEF RejectC0C1, clientVars
<1>2. conn \in Connection(Replies) /\ Pinned(conn) /\ Aborted(conn)
      /\ (conn.wr # "none" => conn.writing)
  BY Facts DEF ConnInv, WritingFlag
<1>3. ConnInv(Replies, conn') /\ Backlog(conn') = Backlog(conn)
  BY <1>1, <1>2, CloseInv
<1>4. ready' \in Seq({"read", "write"})
  BY <1>1, Facts, ReadyTyped
<1>5. removed' \subseteq Names \X Names
  BY <1>1, OnCloseTyped DEF IInv
<1>6. Out' = Out /\ loop' \in LoopStates /\ loop' # "parse"
  BY <1>1, <1>3 DEF Out, LoopStates
<1> QED BY <1>1, <1>3, <1>4, <1>5, <1>6, Facts, QuietStep

LEMMA MessageCbReturnStep ==
  ASSUME IInv, MessageCbReturn
  PROVE  IInv'
<1>1. conn' = DoRead(conn) /\ ready' = ready \o Completed(conn, conn') /\ loop' = "idle"
      /\ UNCHANGED <<hs, buf, ctx, removed, c2s, wire, sent, handled, client, gone>>
  BY DEF MessageCbReturn, clientVars
<1>2. ConnInv(Replies, conn') /\ Backlog(conn') = Backlog(conn)
  BY <1>1, Facts, DoReadInv
<1>3. ready' \in Seq({"read", "write"})
  BY <1>1, Facts, ReadyTyped
<1>4. Out' = Out /\ loop' \in LoopStates /\ loop' # "parse"
  BY <1>1, <1>2 DEF Out, LoopStates
<1> QED BY <1>1, <1>2, <1>3, <1>4, Facts, QuietStep

\* The kernel's steps: what the socket takes leaves the backlog and reaches the wire.
LEMMA KernelStep ==
  ASSUME IInv, KernelReads \/ KernelReadsEof \/ KernelWrites \/ KernelWriteFails
  PROVE  IInv'
<1>1. UNCHANGED <<loop, hs, buf, ctx, removed, c2s, sent, handled, client, gone>>
  BY DEF KernelReads, KernelReadsEof, KernelWrites, KernelWriteFails, clientVars
<1>2. ready' \in Seq({"read", "write"})
  <2>1. ready' = Append(ready, "read") \/ ready' = Append(ready, "write")
    BY DEF KernelReads, KernelReadsEof, KernelWrites, KernelWriteFails
  <2> QED BY <2>1, Facts, AppendProperties
<1>3. CASE KernelReads
  <2>1. conn.rd = "armed" /\ conn' = [conn EXCEPT !.rd = "ready"] /\ wire' = wire
    BY <1>3 DEF KernelReads
  <2>2. ConnInv(Replies, conn') /\ Backlog(conn') = Backlog(conn)
    BY <2>1, Facts, ReadCompleteInv
  <2>3. Out' = Out
    BY <2>1, <2>2 DEF Out
  <2> QED BY <1>1, <1>2, <2>1, <2>2, <2>3, Facts, QuietStep
<1>4. CASE KernelReadsEof
  <2>1. conn.rd = "armed" /\ conn' = [conn EXCEPT !.rd = "err"] /\ wire' = wire
    BY <1>4 DEF KernelReadsEof
  <2>2. ConnInv(Replies, conn') /\ Backlog(conn') = Backlog(conn)
    BY <2>1, Facts, ReadCompleteInv
  <2>3. Out' = Out
    BY <2>1, <2>2 DEF Out
  <2> QED BY <1>1, <1>2, <2>1, <2>2, <2>3, Facts, QuietStep
<1>5. CASE KernelWriteFails
  <2>1. conn.wr = "pending" /\ conn' = [conn EXCEPT !.wr = "err"] /\ wire' = wire
    BY <1>5 DEF KernelWriteFails
  <2>2. ConnInv(Replies, conn') /\ Backlog(conn') = Backlog(conn)
    BY <2>1, Facts, WriteErrorInv
  <2>3. Out' = Out
    BY <2>1, <2>2 DEF Out
  <2> QED BY <1>1, <1>2, <2>1, <2>2, <2>3, Facts, QuietStep
<1>6. CASE KernelWrites
  <2>1. conn.wr = "pending" /\ conn' = [conn EXCEPT !.wr = "ok"]
        /\ wire' = Append(wire, conn.wbuf)
    BY <1>6 DEF KernelWrites
  <2>2. /\ conn.queue \in Seq(Replies) /\ conn.queue # <<>> /\ conn.wbuf = Head(conn.queue)
        /\ conn.wbuf \in Replies /\ Backlog(conn) = conn.queue
        /\ Backlog(conn') = Tail(conn.queue) /\ ConnInv(Replies, conn')
    BY <2>1, Facts, WrittenInv
  <2>3. wire' \in Seq(Replies)
    BY <2>1, <2>2, Facts, AppendProperties
  <2>4. Append(wire, Head(conn.queue)) \o Tail(conn.queue) = wire \o conn.queue
    BY <2>2, Facts, HeadMoves
  <2>5. Out' = Out
    BY <2>1, <2>2, <2>4 DEF Out
  <2> QED BY <1>1, <1>2, <2>1, <2>2, <2>3, <2>5, Facts, QuietStep
<1> QED BY <1>3, <1>4, <1>5, <1>6

LEMMA ClientLeavesStep ==
  ASSUME IInv, ClientLeaves
  PROVE  IInv'
<1>1. gone' \in BOOLEAN /\ UNCHANGED <<conn, ready, loop, hs, buf, ctx, removed, c2s, wire,
                                       sent, handled, client>>
  BY DEF ClientLeaves
<1>2. Out' = Out
  BY <1>1 DEF Out
<1> QED BY <1>1, <1>2, Facts, QuietStep

-----------------------------------------------------------------------------
(* The client's stream *)

LEMMA StreamTyped ==
  ASSUME IInv
  PROVE  /\ handled \in Seq(Units) /\ buf \in Seq(Units) /\ c2s \in Seq(Units)
         /\ sent \in Seq(Units) /\ Len(sent) \in Nat /\ Len(buf) \in Nat
         /\ handled \in Seq(ClientMessages) /\ K \in Nat /\ K > 0 /\ MaxMessages \in Nat
<1>1. ClientMessages \subseteq Units
  BY DEF Units
<1>2. handled \in Seq(ClientMessages) /\ buf \in Seq(Units) /\ c2s \in Seq(Units)
      /\ sent \in Seq(Units)
  BY DEF IInv, TypeOK
<1>3. handled \in Seq(Units)
  BY <1>1, <1>2, SeqMonotonic
<1> QED BY <1>2, <1>3, LenProperties, RtmpSessionAssumption

\* The count of created streams does not move while nothing is handled.
LEMMA ContextKept ==
  ASSUME ContextInv, ctx' = ctx, handled' = handled
  PROVE  ContextInv'
<1>1. PICK n : n = Len(handled)
  OBVIOUS
<1>2. Created(n)' = Created(n) /\ n = Len(handled')
  BY <1>1, CountersKept
<1> QED BY <1>1, <1>2 DEF ContextInv

LEMMA ReadHandlerStep ==
  ASSUME IInv, NEW n \in Int, ReadHandler(n)
  PROVE  IInv'
<1>1. /\ ready # <<>> /\ n \in 1 .. Len(c2s)
      /\ buf' = buf \o SubSeq(c2s, 1, n) /\ c2s' = Drop(c2s, n)
      /\ conn' = [conn EXCEPT !.rd = "none"] /\ ready' = Tail(ready)
      /\ loop' = (IF hs = "Done" THEN "parse" ELSE "handshake")
      /\ UNCHANGED <<hs, ctx, removed, wire, sent, handled, client, gone>>
  BY DEF ReadHandler, clientVars
<1>2. n \in 0 .. Len(c2s)
  BY <1>1
<1>3. PICK x, y : x = SubSeq(c2s, 1, n) /\ y = Drop(c2s, n)
  OBVIOUS
<1>4. x \in Seq(Units) /\ y \in Seq(Units) /\ x \o y = c2s
  BY <1>2, <1>3, StreamTyped, TakeAndDrop, DropIs
<1>5. buf' \in Seq(Units) /\ c2s' \in Seq(Units)
  BY <1>1, <1>3, <1>4, StreamTyped, ConcatProperties
<1>6. handled \o buf' \o c2s' = handled \o buf \o c2s
  <2>1. (handled \o (buf \o x)) \o y = (handled \o buf) \o (x \o y)
    <3>1. handled \in Seq(Units) /\ buf \in Seq(Units)
      BY StreamTyped
    <3>2. Cat(Cat(handled, Cat(buf, x)), y) = Cat(Cat(handled, buf), Cat(x, y))
      BY <1>4, <3>1, Regroup
    <3> QED BY <3>2 DEF Cat
  <2> QED BY <1>1, <1>3, <1>4, <2>1
<1>7. TypeOK /\ SentInv /\ StreamInv /\ ContextInv /\ AnswersInv /\ ChunksFit
  BY DEF IInv
<1>8. ConnInv(Replies, conn') /\ Backlog(conn') = Backlog(conn)
  BY <1>1, Facts, ReadTakenInv
<1>9. TypeOK'
  <2>1. conn' \in Connection(Replies)
    BY <1>8 DEF ConnInv
  <2>2. ready' \in Seq({"read", "write"})
    BY <1>1, Facts, ReadyTyped
  <2>3. loop' \in LoopStates
    BY <1>1 DEF LoopStates
  <2> QED BY <1>1, <1>5, <1>7, <2>1, <2>2, <2>3 DEF TypeOK
<1>10. SentInv' /\ ContextInv'
  BY <1>1, <1>7, ContextKept DEF SentInv
<1>11. StreamInv'
  <2>1. HandShakeConsumed' = HandShakeConsumed
    BY <1>1 DEF HandShakeConsumed
  <2>2. FramingIntact'
    BY <1>1, <1>6, <1>7, <2>1 DEF StreamInv, FramingIntact, Drop
  <2> QED BY <1>1, <1>7, <2>1, <2>2 DEF StreamInv
<1>12. AnswersInv' /\ ChunksFit'
  <2>1. Out' = Out
    BY <1>1, <1>8 DEF Out
  <2> QED BY <1>1, <1>7, <2>1, StreamTyped, TalkKept
<1> QED BY <1>8, <1>9, <1>10, <1>11, <1>12 DEF IInv

\* What the client sends joins the end of the stream.
LEMMA ClientSendsStep ==
  ASSUME IInv, NEW u \in Seq(Units), ClientSends(u), SentInv'
  PROVE  IInv'
<1>1. c2s' = c2s \o u /\ sent' = sent \o u
      /\ UNCHANGED <<conn, ready, loop, hs, buf, ctx, removed, wire, handled, client, gone>>
  BY DEF ClientSends, clientVars
<1>2. TypeOK /\ StreamInv /\ ContextInv /\ AnswersInv /\ ChunksFit
  BY DEF IInv
<1>3. c2s' \in Seq(Units) /\ sent' \in Seq(Units) /\ Len(sent') >= Len(sent)
  <2>1. Len(sent') = Len(sent) + Len(u) /\ Len(u) \in Nat
    BY <1>1, StreamTyped, ConcatProperties, LenProperties
  <2>2. c2s' \in Seq(Units) /\ sent' \in Seq(Units)
    BY <1>1, StreamTyped, ConcatProperties
  <2> QED BY <2>1, <2>2, StreamTyped
<1>4. TypeOK'
  BY <1>1, <1>2, <1>3 DEF TypeOK
<1>5. PICK a : a = HandShakeConsumed
  OBVIOUS
<1>6. a \in 0 .. Len(sent) /\ a \in Int
  <2>1. a \in Nat
    BY SMTT(30), <1>2, <1>5, StreamTyped DEF TypeOK, HandShakeStates, HandShakeConsumed
  <2> QED BY <1>2, <1>5, <2>1, StreamTyped DEF StreamInv
<1>7. StreamInv'
  <2>1. HandShakeConsumed' = a
    BY <1>1, <1>5 DEF HandShakeConsumed
  <2>2. Drop(sent \o u, a) = Drop(sent, a) \o u
    BY <1>6, StreamTyped, DropConcat
  <2>3. (handled \o buf) \o (c2s \o u) = ((handled \o buf) \o c2s) \o u
    <3>1. handled \in Seq(Units) /\ buf \in Seq(Units) /\ c2s \in Seq(Units)
      BY StreamTyped
    <3>2. Cat(Cat(handled, buf), Cat(c2s, u)) = Cat(Cat(Cat(handled, buf), c2s), u)
      BY <3>1, Regroup
    <3> QED BY <3>2 DEF Cat
  <2>4. FramingIntact'
    BY <1>1, <1>2, <1>5, <2>1, <2>2, <2>3 DEF StreamInv, FramingIntact, Drop
  <2>5. a <= Len(sent')
    BY <1>3, <1>6, StreamTyped, LenProperties
  <2> QED BY <1>1, <1>2, <2>1, <2>4, <2>5 DEF StreamInv
<1>8. ContextInv'
  BY <1>1, <1>2, ContextKept
<1>9. AnswersInv' /\ ChunksFit'
  <2>1. Out' = Out
    BY <1>1 DEF Out
  <2> QED BY <1>1, <1>2, <2>1, StreamTyped, TalkKept
<1>10. ConnInv(Replies, conn')
  BY <1>1, Facts
<1> QED BY <1>4, <1>7, <1>8, <1>9, <1>10 DEF IInv

LEMMA HandShakeBytesAre ==
  ASSUME NEW n \in Nat
  PROVE  HandShakeBytes(n) \in Seq(Units) /\ Len(HandShakeBytes(n)) = n
<1>1. HandShakeByte \in Units
  BY DEF Units
<1>2. PICK b : b = HandShakeByte
  OBVIOUS
<1>3. [i \in 1 .. n |-> b] \in Seq(Units)
  <2>1. [i \in 1 .. n |-> b] \in [1 .. n -> Units]
    BY <1>1, <1>2
  <2> QED BY <2>1, SeqDef
<1>4. Len([i \in 1 .. n |-> b]) = n
  BY <1>3, LenProperties
<1> QED BY <1>2, <1>3, <1>4 DEF HandShakeBytes

\* The stream after a packet of the handshake or a message.
LEMMA ClientStep ==
  ASSUME IInv,
         \/ \E v \in {GoodVersion, BadVersion} : ClientSendsC0C1(v)
         \/ ClientSendsC2
         \/ \E m \in ClientMessages : ClientSendsMessage(m)
  PROVE  IInv'
<1>1. SentInv
  BY DEF IInv
<1>2. ASSUME NEW v \in {GoodVersion, BadVersion}, ClientSendsC0C1(v) PROVE IInv'
  <2>1. PICK u : u = <<v>> \o HandShakeBytes(K)
    OBVIOUS
  <2>2. u \in Seq(Units) /\ Len(u) = K + 1
    <3>1. <<v>> \in Seq(Units) /\ Len(<<v>>) = 1
      BY DEF Units
    <3>2. HandShakeBytes(K) \in Seq(Units) /\ Len(HandShakeBytes(K)) = K
      BY StreamTyped, HandShakeBytesAre
    <3>3. u \in Seq(Units) /\ Len(u) = Len(<<v>>) + Len(HandShakeBytes(K))
      BY <2>1, <3>1, <3>2, ConcatProperties
    <3> QED BY <3>1, <3>2, <3>3, StreamTyped
  <2>3. sent = <<>> /\ ClientSends(u)
    BY <1>2, <2>1 DEF ClientSendsC0C1
  <2>4. sent' = u
    <3>1. sent' = <<>> \o u
      BY <2>3 DEF ClientSends
    <3> QED BY <2>2, <3>1, ConcatEmptySeq
  <2>5. SentInv'
    <3>1. Len(sent') = K + 1 /\ DOMAIN sent' = 1 .. K + 1
      BY <2>2, <2>4, LenProperties
    <3>2. \A i \in 1 .. K + 1 : ~(i > 2 * K + 1)
      BY StreamTyped
    <3> QED BY <3>1, <3>2 DEF SentInv
  <2> QED BY <2>2, <2>3, <2>5, ClientSendsStep
<1>3. ASSUME ClientSendsC2 PROVE IInv'
  <2>1. PICK u : u = HandShakeBytes(K)
    OBVIOUS
  <2>2. u \in Seq(Units) /\ Len(u) = K
    BY <2>1, StreamTyped, HandShakeBytesAre
  <2>3. Len(sent) = K + 1 /\ ClientSends(u)
    BY <1>3, <2>1 DEF ClientSendsC2
  <2>4. SentInv'
    <3>1. sent' = sent \o u
      BY <2>3 DEF ClientSends
    <3>2. Len(sent') = Len(sent) + Len(u) /\ sent' \in Seq(Units)
      BY <2>2, <3>1, StreamTyped, ConcatProperties
    <3>3. Len(sent') = 2 * K + 1
      BY <2>2, <2>3, <3>2, StreamTyped
    <3>4. DOMAIN sent' = 1 .. 2 * K + 1
      BY <3>2, <3>3, LenProperties
    <3>5. \A i \in 1 .. 2 * K + 1 : ~(i > 2 * K + 1)
      BY StreamTyped
    <3>6. 2 * K + 1 \in 2 * K + 1 .. 2 * K + 1 + MaxMessages
      BY StreamTyped
    <3> QED BY <3>3, <3>4, <3>5, <3>6 DEF SentInv
  <2> QED BY <2>2, <2>3, <2>4, ClientSendsStep
<1>4. ASSUME NEW m \in ClientMessages, ClientSendsMessage(m) PROVE IInv'
  <2>1. <<m>> \in Seq(Units) /\ Len(<<m>>) = 1 /\ <<m>>[1] = m
    BY DEF Units
  <2>2. Len(sent) \in 2 * K + 1 .. 2 * K + MaxMessages /\ ClientSends(<<m>>)
    BY <1>4 DEF ClientSendsMessage
  <2>3. SentInv'
    <3>1. sent' = sent \o <<m>>
      BY <2>2 DEF ClientSends
    <3>2. sent' \in Seq(Units) /\ Len(sent') = Len(sent) + 1
          /\ \A i \in 1 .. Len(sent) + 1 :
                sent'[i] = IF i <= Len(sent) THEN sent[i] ELSE <<m>>[i - Len(sent)]
      BY <2>1, <3>1, StreamTyped, ConcatProperties
    <3>3. DOMAIN sent' = 1 .. Len(sent) + 1 /\ DOMAIN sent = 1 .. Len(sent)
      BY <3>2, StreamTyped, LenProperties
    <3>4. Len(sent') \in 2 * K + 1 .. 2 * K + 1 + MaxMessages
      BY <2>2, <3>2, StreamTyped
    <3>5. ASSUME NEW i \in DOMAIN sent', i > 2 * K + 1 PROVE sent'[i] \in ClientMessages
      <4>1. i \in 1 .. Len(sent) \/ i = Len(sent) + 1
        BY <3>3, StreamTyped
      <4>2. CASE i \in 1 .. Len(sent)
        <5>1. sent'[i] = sent[i]
          BY <3>2, <4>2, StreamTyped
        <5>2. sent[i] \in ClientMessages
          BY <1>1, <3>3, <3>5, <4>2 DEF SentInv
        <5> QED BY <5>1, <5>2
      <4>3. CASE i = Len(sent) + 1
        <5>1. i - Len(sent) = 1 /\ ~(i <= Len(sent)) /\ i \in 1 .. Len(sent) + 1
          BY <4>3, StreamTyped
        <5> QED BY <2>1, <3>2, <5>1
      <4> QED BY <4>1, <4>2, <4>3
    <3> QED BY <3>4, <3>5 DEF SentInv
  <2> QED BY <2>1, <2>2, <2>3, ClientSendsStep
<1> QED BY <1>2, <1>3, <1>4

-----------------------------------------------------------------------------
(* The handshake *)

\* What was retrieved from the buffer is the next part of the stream.
LEMMA Consumed ==
  ASSUME IInv, handled = <<>>, NEW a \in Nat, a = HandShakeConsumed,
         NEW n \in Nat, n <= Len(buf)
  PROVE  /\ handled \o Drop(buf, n) \o c2s = Drop(sent, a + n)
         /\ a + n <= Len(sent)
         /\ Drop(buf, n) \in Seq(Units)
<1>1. buf \in Seq(Units) /\ c2s \in Seq(Units) /\ sent \in Seq(Units)
      /\ Len(buf) \in Nat /\ Len(sent) \in Nat /\ Len(c2s) \in Nat
  BY StreamTyped, LenProperties
<1>2. n \in 0 .. Len(buf) /\ a \in 0 .. Len(sent)
  BY <1>1 DEF IInv, StreamInv
<1>3. Drop(buf, n) \in Seq(Units)
  BY <1>1, <1>2, DropIs
<1>4. buf \o c2s = Drop(sent, a)
  <2>1. handled \o buf = buf
    BY <1>1, ConcatEmptySeq
  <2> QED BY <2>1 DEF IInv, StreamInv, FramingIntact
<1>5. a + n <= Len(sent)
  <2>1. Len(Drop(sent, a)) = Len(sent) - a
    BY <1>1, <1>2, DropIs
  <2>2. Len(buf \o c2s) = Len(buf) + Len(c2s)
    BY <1>1, ConcatProperties
  <2> QED BY <1>1, <1>4, <2>1, <2>2
<1>6. Drop(buf \o c2s, n) = Drop(buf, n) \o c2s
  BY <1>1, <1>2, DropConcat
<1>7. Drop(Drop(sent, a), n) = Drop(sent, a + n)
  BY <1>1, <1>5, DropTwice
<1>8. handled \o Drop(buf, n) = Drop(buf, n)
  BY <1>3, ConcatEmptySeq
<1> QED BY <1>3, <1>4, <1>5, <1>6, <1>7, <1>8

\* A step of the handshake before it is done.
LEMMA HandShakeStep ==
  ASSUME IInv, hs # "Done", hs' # "Done", hs' \in HandShakeStates,
         UNCHANGED <<ctx, removed, c2s, wire, sent, handled, client, gone>>,
         ConnInv(Replies, conn'), Out' = Opening', Fits(Out'),
         ready' \in Seq({"read", "write"}), loop' \in LoopStates, loop' # "parse",
         buf' \in Seq(Units), FramingIntact', HandShakeConsumed' <= Len(sent)
  PROVE  IInv'
<1>1. TypeOK /\ SentInv /\ StreamInv /\ ContextInv
  BY DEF IInv
<1>2. TypeOK'
  BY <1>1 DEF TypeOK, ConnInv
<1>3. SentInv' /\ ContextInv'
  BY <1>1, ContextKept DEF SentInv
<1>4. StreamInv'
  BY <1>1 DEF StreamInv
<1>5. AnswersInv'
  BY DEF AnswersInv
<1>6. ChunksFit'
  BY DEF ChunksFit, Fits, Known
<1> QED BY <1>2, <1>3, <1>4, <1>5, <1>6 DEF IInv

LEMMA RecvC0C1Step ==
  ASSUME IInv, RecvC0C1
  PROVE  IInv'
<1>1. /\ hs = "WaitC0C1" /\ Len(buf) >= K + 1 /\ buf' = Drop(buf, K + 1)
      /\ hs' = "PostS0S1" /\ conn' = SendInLoop(conn, S0S1) /\ loop' = "return"
      /\ UNCHANGED <<ready, ctx, removed, c2s, wire, sent, handled, client, gone>>
  BY DEF RecvC0C1, clientVars
<1>2. StreamInv /\ AnswersInv /\ ChunksFit
  BY DEF IInv
<1>3. handled = <<>> /\ HandShakeConsumed = 0 /\ HandShakeConsumed' = K + 1
  BY <1>1, <1>2 DEF StreamInv, HandShakeConsumed
<1>4. /\ handled \o buf' \o c2s = Drop(sent, K + 1)
      /\ K + 1 <= Len(sent) /\ buf' \in Seq(Units)
  <2>1. K + 1 \in Nat /\ 0 \in Nat /\ 0 + (K + 1) = K + 1 /\ K + 1 <= Len(buf)
    BY <1>1, StreamTyped
  <2> QED BY <1>1, <1>3, <2>1, Consumed
<1>5. FramingIntact'
  BY <1>1, <1>3, <1>4 DEF FramingIntact, Drop
<1>6. S0S1 \in Replies /\ S0S1.len <= DefaultChunkSize
  BY DEF Replies, S0S1, Reply, DefaultChunkSize
<1>7. /\ ConnInv(Replies, conn')
      /\ wire \o Backlog(conn') = Append(wire \o Backlog(conn), S0S1)
  BY <1>1, <1>6, Facts, SendSays
<1>8. Out = <<>> /\ Opening' = <<S0S1>>
  BY <1>1, <1>2 DEF AnswersInv, Opening
<1>9. Out' = Append(Out, S0S1) /\ Out' = Opening'
  BY <1>1, <1>7, <1>8 DEF Out
<1>10. Fits(Out')
  <2>1. Fits(Out) /\ Out \in Seq(Replies)
    BY <1>2, Facts, OutTyped DEF ChunksFit, Fits
  <2> QED BY <1>6, <1>9, <2>1, FitsAppend
<1>11. hs # "Done" /\ hs' # "Done" /\ hs' \in HandShakeStates /\ loop' \in LoopStates
       /\ loop' # "parse" /\ ready' \in Seq({"read", "write"})
  BY <1>1, Facts DEF HandShakeStates, LoopStates
<1> QED BY <1>1, <1>3, <1>4, <1>5, <1>7, <1>9, <1>10, <1>11, HandShakeStep

LEMMA GreetingTyped ==
  /\ WindowAckSize \in Replies /\ PeerBandwidth \in Replies
  /\ SetChunkSize(OutChunkSize) \in Replies
  /\ WindowAckSize.len <= DefaultChunkSize /\ PeerBandwidth.len <= DefaultChunkSize
  /\ SetChunkSize(OutChunkSize).len <= DefaultChunkSize
  /\ S0S1 \in Replies /\ S2 \in Replies /\ S2.len <= DefaultChunkSize
BY DEF Replies, S0S1, S2, WindowAckSize, PeerBandwidth, SetChunkSize, Reply, DefaultChunkSize

LEMMA RecvC2Step ==
  ASSUME IInv, RecvC2
  PROVE  IInv'
<1>1. /\ hs = "WaitC2" /\ Len(buf) >= K /\ buf' = Drop(buf, K)
      /\ hs' = "Done" /\ conn' = Greeting(conn)
      /\ loop' = (IF buf' = <<>> THEN "return" ELSE "parse")
      /\ UNCHANGED <<ready, ctx, removed, c2s, wire, sent, handled, client, gone>>
  BY DEF RecvC2, clientVars
<1>2. TypeOK /\ SentInv /\ StreamInv /\ ContextInv /\ AnswersInv /\ ChunksFit
  BY DEF IInv
<1>3. handled = <<>> /\ HandShakeConsumed = K + 1 /\ HandShakeConsumed' = 2 * K + 1
  BY <1>1, <1>2 DEF StreamInv, HandShakeConsumed
<1>4. /\ handled \o buf' \o c2s = Drop(sent, 2 * K + 1)
      /\ 2 * K + 1 <= Len(sent) /\ buf' \in Seq(Units)
  <2>1. K + 1 \in Nat /\ K \in Nat /\ K + 1 + K = 2 * K + 1 /\ K <= Len(buf)
    BY <1>1, StreamTyped
  <2>2. PICK a \in Nat : a = K + 1
    BY <2>1
  <2>3. /\ handled \o Drop(buf, K) \o c2s = Drop(sent, a + K)
        /\ a + K <= Len(sent) /\ Drop(buf, K) \in Seq(Units)
    BY <1>3, <2>1, <2>2, Consumed
  <2>4. a + K = 2 * K + 1
    BY <2>1, <2>2
  <2> QED BY <1>1, <2>3, <2>4
<1>5. FramingIntact'
  BY <1>1, <1>3, <1>4 DEF FramingIntact, Drop
<1>6. PICK c1, c2, c3 :
        /\ c1 = SendInLoop(conn, WindowAckSize) /\ c2 = SendInLoop(c1, PeerBandwidth)
        /\ c3 = SendInLoop(c2, SetChunkSize(OutChunkSize))
  OBVIOUS
<1>7. conn' = c3
  BY <1>1, <1>6 DEF Greeting
<1>8. PICK o, o1, o2, o3 :
        /\ o = Out /\ o1 = Append(o, WindowAckSize) /\ o2 = Append(o1, PeerBandwidth)
        /\ o3 = Append(o2, SetChunkSize(OutChunkSize))
  OBVIOUS
<1>9. ConnInv(Replies, c1) /\ wire \o Backlog(c1) = o1
  BY <1>6, <1>8, Facts, GreetingTyped, SendSays DEF Out
<1>10. ConnInv(Replies, c2) /\ wire \o Backlog(c2) = o2
  BY <1>6, <1>8, <1>9, Facts, GreetingTyped, SendSays
<1>11. ConnInv(Replies, c3) /\ wire \o Backlog(c3) = o3
  <2>1. PICK r \in Replies : r = SetChunkSize(OutChunkSize)
    BY GreetingTyped
  <2> QED BY <1>6, <1>8, <1>10, <2>1, Facts, SendSays
<1>12. Out' = o3 /\ ConnInv(Replies, conn')
  BY <1>1, <1>7, <1>11 DEF Out
<1>13. o \in Seq(Replies) /\ o1 \in Seq(Replies) /\ o2 \in Seq(Replies)
  <2>1. o \in Seq(Replies)
    BY <1>8, Facts, OutTyped
  <2>2. o1 \in Seq(Replies)
    BY <1>8, <2>1, GreetingTyped, AppendProperties
  <2> QED BY <1>8, <2>1, <2>2, GreetingTyped, AppendProperties
<1>14. ChunksFit'
  <2>1. Fits(o)
    BY <1>2, <1>8 DEF ChunksFit, Fits
  <2>2. Fits(o1)
    BY <1>8, <1>13, <2>1, GreetingTyped, FitsAppend
  <2>3. Fits(o2)
    BY <1>8, <1>13, <2>2, GreetingTyped, FitsAppend
  <2>4. Fits(o3)
    BY <1>8, <1>13, <2>3, GreetingTyped, FitsAppend
  <2> QED BY <1>12, <2>4 DEF ChunksFit, Fits, Known
<1>15. o = <<S0S1, S2>> /\ Opening' = o3 /\ Len(o3) = 5
  <2>1. o = <<S0S1, S2>>
    BY <1>1, <1>2, <1>8 DEF AnswersInv, Opening
  <2>2. PICK r1, r2, r3, r4, r5 :
          /\ r1 = S0S1 /\ r2 = S2 /\ r3 = WindowAckSize /\ r4 = PeerBandwidth
          /\ r5 = SetChunkSize(OutChunkSize)
    OBVIOUS
  <2>3. o3 = <<r1, r2, r3, r4, r5>>
    <3>1. r1 \in Replies /\ r2 \in Replies /\ r3 \in Replies /\ r4 \in Replies /\ r5 \in Replies
      BY <2>2, GreetingTyped
    <3>2. o3 = Append(Append(Append(<<r1, r2>>, r3), r4), r5)
      BY <1>8, <2>1, <2>2
    <3>3. Append(<<r1, r2>>, r3) = <<r1, r2, r3>>
      BY <3>1, TripleIs
    <3>4. Append(<<r1, r2, r3>>, r4) = <<r1, r2, r3, r4>>
      BY <3>1, QuadrupleIs
    <3>5. Append(<<r1, r2, r3, r4>>, r5) = <<r1, r2, r3, r4, r5>>
      BY <3>1, QuintupleIs
    <3> QED BY <3>2, <3>3, <3>4, <3>5
  <2>4. Opening' = <<r1, r2, r3, r4, r5>>
    BY <1>1, <2>2 DEF Opening
  <2>5. Len(<<r1, r2, r3, r4, r5>>) = 5
    OBVIOUS
  <2> QED BY <2>1, <2>3, <2>4, <2>5
<1>16. AnswersInv'
  <2>1. handled' = <<>> /\ handled' \in Seq(ClientMessages) /\ Len(handled') = 0
    BY <1>1, <1>3
  <2>2. DOMAIN handled' = {}
    BY <2>1
  <2>3. PICK z : z = 0
    OBVIOUS
  <2>4. Given(z)' = 0
    BY <1>1, <2>3, CountersKept, CountersTyped
  <2>5. PICK G, C : /\ G = [n \in 0 .. Len(handled') |-> Given(n)']
                    /\ C = [n \in 0 .. Len(handled') |-> Created(n)']
    OBVIOUS
  <2>6. G[Len(handled')] = 0
    <3>1. z \in 0 .. Len(handled') /\ Len(handled') = z
      BY <2>1, <2>3
    <3>2. G[z] = Given(z)'
      BY <2>5, <3>1
    <3> QED BY <2>4, <3>1, <3>2
  <2>7. Talk(Out', Opening', handled', C, G)
    BY <1>12, <1>15, <2>2, <2>6 DEF Talk
  <2>8. TalkNow'
    BY <2>5, <2>7 DEF TalkNow
  <2>9. AnswersInOrder'
    BY <2>1, <2>8, TalkFormNext
  <2> QED BY <1>1, <2>9 DEF AnswersInv
<1>17. TypeOK'
  <2>1. conn' \in Connection(Replies)
    BY <1>12 DEF ConnInv
  <2>2. loop' \in LoopStates /\ hs' \in HandShakeStates
    BY <1>1 DEF LoopStates, HandShakeStates
  <2> QED BY <1>1, <1>2, <1>4, <2>1, <2>2 DEF TypeOK
<1>18. SentInv' /\ ContextInv'
  BY <1>1, <1>2, ContextKept DEF SentInv
<1>19. StreamInv'
  BY <1>1, <1>3, <1>4, <1>5 DEF StreamInv
<1> QED BY <1>12, <1>14, <1>16, <1>17, <1>18, <1>19 DEF IInv

\* The handler of a write, with the two transitions that a drained queue makes.
LEMMA WriteHandlerStep ==
  ASSUME IInv, WriteHandler
  PROVE  IInv'
<1>1. PICK c : c = WriteDone(conn)
  OBVIOUS
<1>2. /\ ready # <<>> /\ conn.wr = "ok" /\ ready' = Tail(ready)
      /\ UNCHANGED <<loop, buf, ctx, removed, c2s, wire, sent, handled, client, gone>>
  BY DEF WriteHandler, clientVars
<1>3. \/ conn' = c /\ hs' = hs
      \/ hs = "PostS2" /\ conn' = c /\ hs' = "WaitC2"
      \/ hs = "PostS0S1" /\ conn' = SendInLoop(c, S2) /\ hs' = "PostS2"
  BY <1>1 DEF WriteHandler, WriteComplete, AfterWriteComplete
<1>4. ConnInv(Replies, c) /\ Backlog(c) = Backlog(conn)
  BY <1>1, <1>2, Facts, WriteDoneInv
<1>5. ready' \in Seq({"read", "write"})
  BY <1>2, Facts, ReadyTyped
<1>6. wire \o Backlog(c) = Out
  BY <1>4 DEF Out
<1>7. StreamInv /\ AnswersInv /\ ChunksFit
  BY DEF IInv
<1>8. Fits(Out) /\ Out \in Seq(Replies)
  BY <1>7, Facts, OutTyped DEF ChunksFit, Fits
<1>9. CASE conn' = c /\ hs' = hs
  <2>1. Out' = Out
    BY <1>2, <1>6, <1>9 DEF Out
  <2> QED BY <1>2, <1>4, <1>5, <1>9, <2>1, Facts, QuietStep
<1>10. ASSUME hs # "Done", hs' # "Done", hs' \in HandShakeStates, HandShakeConsumed' = HandShakeConsumed,
              ConnInv(Replies, conn'), Out' = Opening', Fits(Out')
       PROVE  IInv'
  <2>1. FramingIntact' /\ HandShakeConsumed' <= Len(sent)
    BY <1>2, <1>7, <1>10 DEF StreamInv, FramingIntact, Drop
  <2>2. buf' \in Seq(Units) /\ loop' \in LoopStates
    BY <1>2, StreamTyped, Facts
  <2>3. loop' # "parse"
    BY <1>2, <1>10, Facts
  <2> QED BY <1>2, <1>5, <1>10, <2>1, <2>2, <2>3, HandShakeStep
<1>11. CASE hs = "PostS2" /\ conn' = c /\ hs' = "WaitC2"
  <2>1. Out' = Out
    BY <1>2, <1>6, <1>11 DEF Out
  <2>2. Out' = Opening'
    BY <1>7, <1>11, <2>1 DEF AnswersInv, Opening
  <2>3. HandShakeConsumed' = HandShakeConsumed /\ hs' \in HandShakeStates
    BY <1>11 DEF HandShakeConsumed, HandShakeStates
  <2> QED BY <1>4, <1>8, <1>10, <1>11, <2>1, <2>2, <2>3
<1>12. CASE hs = "PostS0S1" /\ conn' = SendInLoop(c, S2) /\ hs' = "PostS2"
  <2>1. ConnInv(Replies, conn') /\ wire \o Backlog(conn') = Append(wire \o Backlog(c), S2)
    BY <1>4, <1>12, Facts, GreetingTyped, SendSays
  <2>2. Out' = Append(Out, S2)
    BY <1>2, <1>6, <2>1 DEF Out
  <2>3. Fits(Out')
    BY <1>8, <2>2, GreetingTyped, FitsAppend
  <2>4. Out = <<S0S1>> /\ Opening' = <<S0S1, S2>>
    BY <1>7, <1>12 DEF AnswersInv, Opening
  <2>5. Out' = Opening'
    <3>1. PICK a, b : a = S0S1 /\ b = S2
      OBVIOUS
    <3>2. Append(<<a>>, b) = <<a, b>>
      BY <3>1, GreetingTyped, PairIs
    <3> QED BY <2>2, <2>4, <3>1, <3>2
  <2>6. HandShakeConsumed' = HandShakeConsumed /\ hs' \in HandShakeStates
    BY <1>12 DEF HandShakeConsumed, HandShakeStates
  <2> QED BY <1>10, <1>12, <2>1, <2>3, <2>5, <2>6
<1> QED BY <1>3, <1>9, <1>11, <1>12

-----------------------------------------------------------------------------
(* Handling a message *)

\* The client has been told the chunk size.
Told(out) == \E j \in 1 .. Len(out) : out[j].type = "SetChunkSize"

\* The connection c, after the messages w were written, has accepted o in all.
Speaking(w, c, o) ==
    /\ w \in Seq(Replies) /\ o \in Seq(Replies) /\ ConnInv(Replies, c)
    /\ o = w \o Backlog(c)
    /\ Fits(o) /\ Told(o)

\* One more message after the greeting.
LEMMA SaysOne ==
  ASSUME NEW w, NEW c, NEW o, Speaking(w, c, o), NEW r \in Replies
  PROVE  Speaking(w, SendInLoop(c, r), Append(o, r))
<1> DEFINE d == SendInLoop(c, r)
           p == Append(o, r)
<1>1. w \in Seq(Replies) /\ o \in Seq(Replies) /\ ConnInv(Replies, c) /\ o = w \o Backlog(c)
      /\ Fits(o) /\ Told(o)
  BY DEF Speaking
<1>2. ConnInv(Replies, d) /\ p = w \o Backlog(d)
  BY <1>1, SendSays
<1>3. p \in Seq(Replies) /\ Len(p) = Len(o) + 1 /\ \A i \in 1 .. Len(o) : p[i] = o[i]
  BY <1>1, AppendProperties
<1>4. Fits(p)
  BY <1>1, FitsAppend DEF Told
<1> HIDE DEF d, p
<1>5. Told(p)
  <2>1. PICK j \in 1 .. Len(o) : o[j].type = "SetChunkSize"
    BY <1>1 DEF Told
  <2>2. j \in 1 .. Len(p) /\ p[j] = o[j]
    BY <1>1, <1>3, <2>1, LenProperties
  <2> QED BY <2>1, <2>2 DEF Told
<1>6. Speaking(w, d, p)
  BY <1>1, <1>2, <1>3, <1>4, <1>5 DEF Speaking
<1> QED BY <1>6 DEF d, p

\* What handling a message says is doc: nothing, one reply, or two.
SaidIs(doc) ==
    /\ ConnInv(Replies, conn') /\ Fits(Out \o doc)
    /\ wire \o Backlog(conn') = Out \o doc

LEMMA SaysNothing ==
  ASSUME Speaking(wire, conn, Out), conn' = conn
  PROVE  SaidIs(<<>>)
<1>1. Out \o <<>> = Out
  BY ConcatEmptySeq DEF Speaking
<1> QED BY <1>1 DEF SaidIs, Speaking

LEMMA SaysAnswer ==
  ASSUME Speaking(wire, conn, Out), NEW r \in Replies, conn' = SendInLoop(conn, r)
  PROVE  SaidIs(<<r>>)
<1>1. PICK o, c, w : o = Out /\ c = conn /\ w = wire
  OBVIOUS
<1>2. Speaking(w, SendInLoop(c, r), Append(o, r))
  BY <1>1, SaysOne
<1>3. Append(o, r) = o \o <<r>>
  BY <1>1, AppendIsConcat DEF Speaking
<1> QED BY <1>1, <1>2, <1>3 DEF SaidIs, Speaking

LEMMA SaysTwo ==
  ASSUME Speaking(wire, conn, Out), NEW r1 \in Replies, NEW r2 \in Replies,
         conn' = SendInLoop(SendInLoop(conn, r1), r2)
  PROVE  SaidIs(<<r1, r2>>)
<1>1. PICK o, c, w : o = Out /\ c = conn /\ w = wire
  OBVIOUS
<1>2. PICK d, p : d = SendInLoop(c, r1) /\ p = Append(o, r1)
  OBVIOUS
<1>3. Speaking(w, d, p)
  BY <1>1, <1>2, SaysOne
<1>4. Speaking(w, SendInLoop(d, r2), Append(p, r2))
  BY <1>3, SaysOne
<1>5. Append(p, r2) = o \o <<r1, r2>>
  <2>1. p = o \o <<r1>> /\ <<r1>> \in Seq(Replies) /\ o \in Seq(Replies)
    BY <1>1, <1>2, AppendIsConcat DEF Speaking
  <2>2. o \o Append(<<r1>>, r2) = Append(o \o <<r1>>, r2)
    BY <2>1, ConcatAppend
  <2>3. Append(<<r1>>, r2) = <<r1, r2>>
    BY PairIs
  <2> QED BY <2>1, <2>2, <2>3
<1> QED BY <1>1, <1>2, <1>4, <1>5 DEF SaidIs, Speaking

LEMMA MessageTyped ==
  ASSUME NEW m \in ClientMessages
  PROVE  /\ m.kind = "connect" => m.arg \in Names \cup {NoObject}
         /\ m.kind \in {"publish", "play"} => m.arg \in Names
BY RtmpSessionAssumption DEF ClientMessages, Unit

\* The answers that name a stream, as long as the stream has been created.
LEMMA AnswersTyped ==
  ASSUME NEW s \in 0 .. MaxMessages
  PROVE  /\ CreateStreamResult(s) \in Replies /\ StreamBegin(s) \in Replies
         /\ PublishStart(s) \in Replies /\ PlayStart(s) \in Replies
         /\ ConnectResult \in Replies
BY DEF Replies

\* The context as it is typed.
Contexts == [app : Names, stream : Names, role : Roles,
             streamId : 0 .. MaxMessages, nextStreamId : 1 .. MaxMessages + 1]

\* handleMessage says what is documented and keeps the stream ids in step.
LEMMA Handled ==
  ASSUME Speaking(wire, conn, Out), NEW m \in ClientMessages, HandleMessage(m),
         ctx \in Contexts, MaxMessages \in Nat, NEW s \in Nat, NEW t \in Nat,
         ctx.streamId = s, ctx.nextStreamId = s + 1, s + 1 <= MaxMessages,
         t = s + (IF m.kind = "createStream" THEN 1 ELSE 0)
  PROVE  /\ Documented(m, s, t) \in Seq(Replies)
         /\ Len(Documented(m, s, t)) = Answers(m)
         /\ SaidIs(Documented(m, s, t))
         /\ ctx' \in Contexts /\ ctx'.streamId = t /\ ctx'.nextStreamId = t + 1
<1>1. s \in 0 .. MaxMessages /\ s + 1 \in 0 .. MaxMessages
  OBVIOUS
<1>2. CASE m.kind = "connect"
  <2>1. /\ ctx' = [ctx EXCEPT !.app = IF m.arg = NoObject THEN ctx.app ELSE m.arg]
        /\ conn' = SendInLoop(conn, ConnectResult)
    BY <1>2 DEF HandleMessage, Answered
  <2>2. Documented(m, s, t) = <<ConnectResult>> /\ Answers(m) = 1 /\ t = s
    BY <1>2 DEF Documented, Answers, Answered, Starters
  <2>3. SaidIs(<<ConnectResult>>) /\ <<ConnectResult>> \in Seq(Replies)
        /\ Len(<<ConnectResult>>) = 1
    BY <1>1, <2>1, AnswersTyped, SaysAnswer
  <2>4. ctx' \in Contexts /\ ctx'.streamId = ctx.streamId /\ ctx'.nextStreamId = ctx.nextStreamId
    BY <1>2, <2>1, MessageTyped DEF Contexts
  <2> QED BY <2>2, <2>3, <2>4
<1>3. CASE m.kind = "createStream"
  <2>1. /\ ctx' = [ctx EXCEPT !.streamId = ctx.nextStreamId, !.nextStreamId = ctx.nextStreamId + 1]
        /\ conn' = SendInLoop(conn, CreateStreamResult(s + 1))
    BY <1>3 DEF HandleMessage, Answered
  <2>2. PICK r \in Replies : r = CreateStreamResult(s + 1)
    BY <1>1, AnswersTyped
  <2>3. Documented(m, s, t) = <<r>> /\ Answers(m) = 1 /\ t = s + 1
    BY <1>3, <2>2 DEF Documented, Answers, Answered, Starters
  <2>4. SaidIs(<<r>>) /\ <<r>> \in Seq(Replies) /\ Len(<<r>>) = 1
    BY <2>1, <2>2, SaysAnswer
  <2>5. ctx' \in Contexts /\ ctx'.streamId = s + 1 /\ ctx'.nextStreamId = s + 1 + 1
    <3>1. s + 1 + 1 \in 1 .. MaxMessages + 1
      OBVIOUS
    <3> QED BY <1>1, <2>1, <3>1 DEF Contexts
  <2> QED BY <2>3, <2>4, <2>5
<1>4. ASSUME NEW role \in {"Publish", "Player"}, NEW r1 \in Replies, NEW r2 \in Replies,
             ctx' = [ctx EXCEPT !.stream = m.arg, !.role = role],
             conn' = SendInLoop(SendInLoop(conn, r1), r2),
             m.kind \in Starters, Documented(m, s, t) = <<r1, r2>>
      PROVE  /\ Documented(m, s, t) \in Seq(Replies)
             /\ Len(Documented(m, s, t)) = Answers(m)
             /\ SaidIs(Documented(m, s, t))
             /\ ctx' \in Contexts /\ ctx'.streamId = t /\ ctx'.nextStreamId = t + 1
  <2>1. Answers(m) = 2 /\ t = s
    BY <1>4 DEF Answers, Answered, Starters
  <2>2. SaidIs(<<r1, r2>>)
    BY <1>4, SaysTwo
  <2>3. <<r1, r2>> \in Seq(Replies) /\ Len(<<r1, r2>>) = 2
    OBVIOUS
  <2>4. ctx' \in Contexts /\ ctx'.streamId = ctx.streamId /\ ctx'.nextStreamId = ctx.nextStreamId
    BY <1>4, MessageTyped DEF Contexts, Roles, Starters
  <2> QED BY <1>4, <2>1, <2>2, <2>3, <2>4
<1>5. CASE m.kind = "publish"
  <2>1. PICK r1 \in Replies, r2 \in Replies : r1 = StreamBegin(s) /\ r2 = PublishStart(s)
    BY <1>1, AnswersTyped
  <2>2. /\ ctx' = [ctx EXCEPT !.stream = m.arg, !.role = "Publish"]
        /\ conn' = SendInLoop(SendInLoop(conn, r1), r2)
    BY <1>5, <2>1 DEF HandleMessage, BeginStream, Answered
  <2>3. Documented(m, s, t) = <<r1, r2>> /\ m.kind \in Starters
    BY <1>5, <2>1 DEF Documented, Starters
  <2> QED BY <1>4, <2>2, <2>3
<1>6. CASE m.kind = "play"
  <2>1. PICK r1 \in Replies, r2 \in Replies : r1 = StreamBegin(s) /\ r2 = PlayStart(s)
    BY <1>1, AnswersTyped
  <2>2. /\ ctx' = [ctx EXCEPT !.stream = m.arg, !.role = "Player"]
        /\ conn' = SendInLoop(SendInLoop(conn, r1), r2)
    BY <1>6, <2>1 DEF HandleMessage, BeginStream, Answered
  <2>3. Documented(m, s, t) = <<r1, r2>> /\ m.kind \in Starters
    BY <1>6, <2>1 DEF Documented, Starters
  <2> QED BY <1>4, <2>2, <2>3
<1>7. CASE m.kind \notin Answered
  <2>1. ctx' = ctx /\ conn' = conn
    BY <1>7 DEF HandleMessage, Answered
  <2>2. Documented(m, s, t) = <<>> /\ Answers(m) = 0 /\ t = s
    BY <1>7 DEF Documented, Answers, Answered, Starters
  <2>3. SaidIs(<<>>) /\ <<>> \in Seq(Replies) /\ Len(<<>>) = 0
    BY <2>1, SaysNothing
  <2> QED BY <2>1, <2>2, <2>3
<1> QED BY <1>2, <1>3, <1>5, <1>6, <1>7 DEF Answered

\* What Parse takes from the buffer is a message, and the client sent no more of
\* them than MaxMessages.
LEMMA HeadIsMessage ==
  ASSUME IInv, hs = "Done", buf # <<>>
  PROVE  Head(buf) \in ClientMessages /\ Len(handled) + 1 <= MaxMessages
<1>1. handled \in Seq(Units) /\ buf \in Seq(Units) /\ c2s \in Seq(Units) /\ sent \in Seq(Units)
      /\ Len(handled) \in Nat /\ Len(buf) \in Nat /\ Len(c2s) \in Nat /\ Len(sent) \in Nat
      /\ K \in Nat /\ MaxMessages \in Nat
  BY StreamTyped, LenProperties
<1>2. PICK k \in Nat : k = 2 * K + 1
  BY <1>1
<1>3. SentInv /\ handled \o buf \o c2s = Drop(sent, k) /\ k <= Len(sent)
  BY <1>2 DEF IInv, StreamInv, FramingIntact, HandShakeConsumed
<1>4. Len(sent) <= k + MaxMessages
  BY <1>1, <1>2, <1>3 DEF SentInv
<1>5. k \in 0 .. Len(sent)
  BY <1>1, <1>3
<1>6. Len(Drop(sent, k)) = Len(sent) - k /\ \A i \in 1 .. Len(sent) - k : Drop(sent, k)[i] = sent[k + i]
  BY <1>1, <1>5, DropIs
<1>7. PICK hb : hb = handled \o buf
  OBVIOUS
<1>8. hb \in Seq(Units) /\ Len(hb) = Len(handled) + Len(buf)
      /\ \A i \in 1 .. Len(handled) + Len(buf) :
            hb[i] = IF i <= Len(handled) THEN handled[i] ELSE buf[i - Len(handled)]
  BY <1>1, <1>7, ConcatProperties
<1>9. Len(hb \o c2s) = Len(hb) + Len(c2s)
      /\ \A i \in 1 .. Len(hb) + Len(c2s) :
            (hb \o c2s)[i] = IF i <= Len(hb) THEN hb[i] ELSE c2s[i - Len(hb)]
  <2>1. hb \in Seq(Units) /\ c2s \in Seq(Units)
    BY <1>1, <1>8
  <2> QED BY <2>1, ConcatProperties
<1>10. Len(buf) >= 1 /\ Head(buf) = buf[1]
  BY <1>1, EmptySeq
<1>11. PICK j \in Nat : j = Len(handled) + 1
  BY <1>1
<1>12. Len(handled) + Len(buf) + Len(c2s) = Len(sent) - k
  BY <1>1, <1>3, <1>6, <1>7, <1>8, <1>9
<1>13. j <= MaxMessages /\ j \in 1 .. Len(sent) - k
  BY <1>1, <1>4, <1>5, <1>10, <1>11, <1>12
<1>14. buf[1] = sent[k + j]
  <2>1. j \in 1 .. Len(handled) + Len(buf) /\ ~(j <= Len(handled)) /\ j - Len(handled) = 1
    BY <1>1, <1>10, <1>11
  <2>2. hb[j] = buf[1]
    BY <1>8, <2>1
  <2>3. j \in 1 .. Len(hb) + Len(c2s) /\ j <= Len(hb)
    BY <1>1, <1>8, <2>1
  <2>4. (hb \o c2s)[j] = hb[j]
    BY <1>9, <2>3
  <2> QED BY <1>3, <1>6, <1>7, <1>13, <2>2, <2>4
<1>15. sent[k + j] \in ClientMessages
  <2>1. k + j \in 1 .. Len(sent) /\ k + j > k
    BY <1>1, <1>5, <1>13
  <2>2. k + j \in DOMAIN sent
    BY <1>1, <2>1, LenProperties
  <2> QED BY <1>2, <1>3, <2>1, <2>2 DEF SentInv
<1> QED BY <1>10, <1>11, <1>13, <1>14, <1>15

LEMMA ToldWhenDone ==
  ASSUME IInv, hs = "Done"
  PROVE  Speaking(wire, conn, Out)
<1>1. Out \in Seq(Replies) /\ wire \in Seq(Replies) /\ ConnInv(Replies, conn)
  BY Facts, OutTyped
<1>2. Fits(Out)
  BY DEF IInv, ChunksFit, Fits
<1>3. AnswersInOrder
  BY DEF IInv, AnswersInv
<1>4. Len(Opening) = 5 /\ DOMAIN Opening = 1 .. 5 /\ Opening[5] = SetChunkSize(OutChunkSize)
  BY DEF Opening
<1>5. Out[5].type = "SetChunkSize"
  BY <1>3, <1>4 DEF AnswersInOrder, SetChunkSize, Reply
<1>6. Len(Out) >= 5 /\ Len(Out) \in Nat
  <2>1. PICK n \in Nat : n = Len(handled)
    BY StreamTyped, LenProperties
  <2>2. Given(n) \in Nat
    BY CountersTyped
  <2> QED BY <1>1, <1>3, <1>4, <2>1, <2>2, LenProperties DEF AnswersInOrder
<1>7. Told(Out)
  BY <1>5, <1>6 DEF Told
<1> QED BY <1>1, <1>2, <1>7 DEF Speaking, Out

LEMMA ParseMessageStep ==
  ASSUME IInv, ParseMessage
  PROVE  IInv'
<1>1. PICK m : m = Head(buf)
  OBVIOUS
<1>2. /\ loop = "parse" /\ buf # <<>> /\ HandleMessage(m) /\ buf' = Tail(buf)
      /\ handled' = Append(handled, m)
      /\ UNCHANGED <<ready, loop, hs, removed, c2s, wire, sent, client, gone>>
  BY <1>1 DEF ParseMessage, clientVars
<1>3. hs = "Done" /\ hs' = "Done"
  BY <1>2, Facts
<1>4. TypeOK /\ SentInv /\ StreamInv /\ ContextInv /\ AnswersInv /\ ChunksFit
  BY DEF IInv
<1>5. m \in ClientMessages /\ Len(handled) + 1 <= MaxMessages
  BY <1>1, <1>2, <1>3, HeadIsMessage
<1>6. handled \in Seq(ClientMessages) /\ handled \in Seq(Units) /\ buf \in Seq(Units)
      /\ Len(handled) \in Nat /\ MaxMessages \in Nat
  BY StreamTyped, LenProperties
<1>7. PICK n \in Nat : n = Len(handled)
  BY <1>6
<1>8. PICK s \in Nat, t \in Nat : s = Created(n) /\ t = s + (IF m.kind = "createStream" THEN 1 ELSE 0)
  BY CountersTyped
<1>9. /\ \A k \in 0 .. n : Created(k)' = Created(k) /\ Given(k)' = Given(k)
      /\ Created(n + 1)' = t
      /\ Given(n + 1)' = Given(n) + Answers(m)
  BY <1>2, <1>5, <1>6, <1>7, <1>8, CountersGrow
<1>10. s <= n
  BY <1>7, <1>8, CountersTyped
<1>11. ctx \in Contexts /\ ctx.streamId = s /\ ctx.nextStreamId = s + 1 /\ s + 1 <= MaxMessages
  BY <1>4, <1>5, <1>6, <1>7, <1>8, <1>10 DEF TypeOK, Contexts, ContextInv
<1>12. PICK doc : doc = Documented(m, s, t)
  OBVIOUS
<1>13. /\ doc \in Seq(Replies) /\ Len(doc) = Answers(m) /\ SaidIs(doc)
       /\ ctx' \in Contexts /\ ctx'.streamId = t /\ ctx'.nextStreamId = t + 1
  BY SMTT(30), <1>2, <1>3, <1>5, <1>6, <1>8, <1>11, <1>12, ToldWhenDone, Handled
<1>14. ConnInv(Replies, conn') /\ Out' = Out \o doc /\ Fits(Out')
  BY <1>2, <1>13 DEF SaidIs, Out
<1>15. ChunksFit'
  BY <1>14 DEF ChunksFit, Fits, Known
<1>16. handled' \in Seq(ClientMessages) /\ Len(handled') = n + 1
  BY <1>2, <1>5, <1>6, <1>7, AppendProperties
<1>17. ContextInv'
  <2>1. PICK p : p = n + 1
    OBVIOUS
  <2>2. Created(p)' = t /\ Len(handled') = p
    BY <1>9, <1>16, <2>1
  <2> QED BY <1>13, <2>2 DEF ContextInv
<1>18. TypeOK'
  <2>1. buf' \in Seq(Units)
    BY <1>2, <1>6, HeadTailProperties
  <2>2. conn' \in Connection(Replies)
    BY <1>14 DEF ConnInv
  <2> QED BY <1>2, <1>4, <1>13, <1>16, <2>1, <2>2 DEF TypeOK, Contexts
<1>19. StreamInv'
  <2>1. HandShakeConsumed' = HandShakeConsumed
    BY <1>3 DEF HandShakeConsumed
  <2>2. Append(handled, m) \o Tail(buf) = handled \o buf
    BY <1>1, <1>2, <1>6, HeadMoves
  <2>3. FramingIntact'
    BY <1>2, <1>4, <2>1, <2>2 DEF StreamInv, FramingIntact, Drop
  <2> QED BY <1>2, <1>3, <1>4, <2>1, <2>3 DEF StreamInv
<1>20. SentInv'
  BY <1>2, <1>4 DEF SentInv
<1>21. AnswersInv'
  <2>1. PICK C, G, D, E :
          /\ C = [k \in 0 .. Len(handled) |-> Created(k)]
          /\ G = [k \in 0 .. Len(handled) |-> Given(k)]
          /\ D = [k \in 0 .. Len(handled') |-> Created(k)']
          /\ E = [k \in 0 .. Len(handled') |-> Given(k)']
    OBVIOUS
  <2>2. PICK p : p = n + 1
    OBVIOUS
  <2>3. \A k \in 0 .. n : /\ C[k] = Created(k) /\ G[k] = Given(k)
                          /\ D[k] = Created(k)' /\ E[k] = Given(k)'
    BY <1>7, <1>16, <2>1
  <2>4. D[p] = Created(p)' /\ E[p] = Given(p)'
    BY <1>16, <2>1, <2>2
  <2>5. \A k \in 0 .. n : D[k] = C[k] /\ E[k] = G[k]
    BY <1>9, <2>3
  <2>6. \A k \in 0 .. n : G[k] \in Nat
    BY <2>3, CountersTyped
  <2>7. n \in 0 .. n
    OBVIOUS
  <2>8. C[n] = s /\ G[n] = Given(n) /\ D[n + 1] = t /\ E[n + 1] = G[n] + Len(doc)
    BY <1>8, <1>9, <1>13, <2>2, <2>3, <2>4, <2>7
  <2>9. PICK out, open, h : out = Out /\ open = Opening /\ h = handled
    OBVIOUS
  <2>10. Opening' = open /\ open \in Seq(Replies)
    <3>1. Opening' = Opening
      BY <1>3 DEF Opening
    <3>2. Opening \in Seq(Replies)
      BY <1>3, GreetingTyped DEF Opening
    <3> QED BY <2>9, <3>1, <3>2
  <2>11. out \in Seq(Replies) /\ h \in Seq(ClientMessages) /\ Len(h) = n
    BY <1>6, <1>7, <2>9, Facts, OutTyped
  <2>12. Talk(out, open, h, C, G)
    <3>1. TalkNow
      BY <1>3, <1>4, <1>6, TalkForm DEF AnswersInv
    <3> QED BY <2>1, <2>9, <3>1 DEF TalkNow
  <2>13. Talk(out \o doc, open, Append(h, m), D, E)
    BY <1>5, <1>12, <1>13, <2>5, <2>6, <2>7, <2>8, <2>10, <2>11, <2>12, TalkGrows
  <2>14. TalkNow'
    BY <1>2, <1>14, <2>1, <2>9, <2>10, <2>13 DEF TalkNow
  <2>15. AnswersInOrder'
    BY <1>16, <2>14, TalkFormNext
  <2> QED BY <1>3, <2>15 DEF AnswersInv
<1> QED BY <1>14, <1>15, <1>17, <1>18, <1>19, <1>20, <1>21 DEF IInv

-----------------------------------------------------------------------------
(* The theorems *)

LEMMA InitInv == Init => IInv
<1> SUFFICES ASSUME Init PROVE IInv
  OBVIOUS
<1>1. K \in Nat /\ K > 0 /\ NoName \in Names /\ MaxMessages \in Nat
  BY RtmpSessionAssumption
<1>2. /\ conn = Start(NewConnection) /\ ready = <<>> /\ loop = "idle" /\ hs = "WaitC0C1"
      /\ buf = <<>> /\ removed = {} /\ c2s = <<>> /\ wire = <<>> /\ sent = <<>>
      /\ handled = <<>> /\ client \in Clients /\ gone = FALSE
      /\ ctx = [app |-> NoName, stream |-> NoName, role |-> "Unknown", streamId |-> 0,
                nextStreamId |-> 1]
  BY DEF Init
<1>3. ConnInv(Replies, conn) /\ Backlog(conn) = <<>>
  <2>1. conn = [queue |-> <<>>, writing |-> FALSE, closed |-> FALSE, wr |-> "none",
                wbuf |-> NoBuffer, rd |-> "armed", overlap |-> FALSE]
    BY <1>2 DEF Start, NewConnection, DoRead
  <2>2. <<>> \in Seq(Replies) /\ NoBuffer \in Replies \cup {NoBuffer}
    OBVIOUS
  <2>3. conn \in Connection(Replies)
    BY <2>1, <2>2 DEF Connection, WriteStates, ReadStates
  <2> QED BY <2>1, <2>3 DEF ConnInv, Pinned, WritingFlag, Awake, Aborted, Backlog
<1>4. ctx \in Contexts
  BY <1>1, <1>2 DEF Contexts, Roles
<1>5. TypeOK
  <2>1. conn \in Connection(Replies) /\ gone \in BOOLEAN
    BY <1>2, <1>3 DEF ConnInv
  <2>2. /\ ready \in Seq({"read", "write"}) /\ wire \in Seq(Replies)
        /\ buf \in Seq(Units) /\ c2s \in Seq(Units) /\ sent \in Seq(Units)
        /\ handled \in Seq(ClientMessages) /\ removed \subseteq Names \X Names
    BY <1>2
  <2>3. loop \in LoopStates /\ hs \in HandShakeStates
    BY <1>2 DEF LoopStates, HandShakeStates
  <2> QED BY <1>2, <1>4, <2>1, <2>2, <2>3 DEF TypeOK, Contexts
<1>6. SentInv
  BY <1>2 DEF SentInv
<1>7. Out = <<>>
  BY <1>2, <1>3 DEF Out
<1>8. ContextInv
  <2>1. PICK z \in Nat : z = 0
    OBVIOUS
  <2>2. Created(z) = 0 /\ Len(handled) = z
    BY <1>2, <2>1, CountersTyped
  <2> QED BY <1>2, <2>2 DEF ContextInv
<1>9. StreamInv
  <2>1. HandShakeConsumed = 0
    BY <1>2 DEF HandShakeConsumed
  <2>2. Drop(sent, 0) = <<>>
    <3>1. sent \in Seq(Units)
      BY <1>5 DEF TypeOK
    <3> QED BY <1>2, <3>1, DropNothing
  <2>3. handled \o buf \o c2s = <<>>
    BY <1>2
  <2>4. FramingIntact
    BY <2>1, <2>2, <2>3 DEF FramingIntact
  <2> QED BY <1>2, <2>1, <2>4 DEF StreamInv
<1>10. AnswersInv /\ ChunksFit
  BY <1>2, <1>7 DEF AnswersInv, Opening, ChunksFit
<1> QED BY <1>3, <1>5, <1>6, <1>8, <1>9, <1>10 DEF IInv

\* Every step of the session keeps the invariant.
LEMMA NextInv ==
  ASSUME IInv, [Next]_vars
  PROVE  IInv'
<1>1. ASSUME NEW n \in 1 .. 2 * K + 1 + MaxMessages, ReadHandler(n) PROVE IInv'
  <2>1. n \in Int
    BY StreamTyped
  <2> QED BY <1>1, <2>1, ReadHandlerStep
<1>2. CASE ReadErrorHandler
  BY <1>2, ReadErrorHandlerStep
<1>3. CASE HandShakeWaits
  BY <1>3, HandShakeWaitsStep
<1>4. CASE RecvC0C1
  BY <1>4, RecvC0C1Step
<1>5. CASE RejectC0C1
  BY <1>5, RejectC0C1Step
<1>6. CASE RecvC2
  BY <1>6, RecvC2Step
<1>7. CASE ParseMessage
  BY <1>7, ParseMessageStep
<1>8. CASE MessageCbReturn
  BY <1>8, MessageCbReturnStep
<1>9. CASE WriteHandler
  BY <1>9, WriteHandlerStep
<1>10. CASE WriteErrorHandler
  BY <1>10, WriteErrorHandlerStep
<1>11. CASE KernelReads \/ KernelReadsEof \/ KernelWrites \/ KernelWriteFails
  BY <1>11, KernelStep
<1>12. CASE \/ \E v \in {GoodVersion, BadVersion} : ClientSendsC0C1(v)
            \/ ClientSendsC2
            \/ \E m \in ClientMessages : ClientSendsMessage(m)
  BY <1>12, ClientStep
<1>13. CASE ClientLeaves
  BY <1>13, ClientLeavesStep
<1>14. CASE UNCHANGED vars
  <2>1. UNCHANGED <<conn, ready, loop, hs, buf, ctx, removed, c2s, wire, sent, handled,
                    client, gone>>
    BY <1>14 DEF vars
  <2>2. Out' = Out
    BY <2>1 DEF Out
  <2> QED BY <2>1, <2>2, Facts, QuietStep
<1>15. CASE LoopStep
  BY <1>1, <1>2, <1>3, <1>4, <1>5, <1>6, <1>7, <1>8, <1>9, <1>10, <1>15 DEF LoopStep
<1> QED BY <1>11, <1>12, <1>13, <1>14, <1>15 DEF Next

LEMMA Invariance == Spec => []IInv
<1>1. IInv /\ [Next]_vars => IInv'
  BY NextInv
<1> QED BY <1>1, InitInv, PTL DEF Spec

\* The state of a session is always well formed: among other things, a stream id is
\* never larger than the number of messages (RtmpContext, RtmpHandShake).
THEOREM SessionTypeCorrect == Spec => []TypeOK
<1>1. IInv => TypeOK
  BY DEF IInv
<1> QED BY <1>1, Invariance, PTL

\* However the client's stream is cut into reads and however they fall between the
\* handshake's writes, no byte of the handshake is parsed as a message, and no
\* message is lost or taken for C2 (RtmpHandShake::HandShake, RtmpContext::onMessage).
THEOREM FramingHolds == Spec => []FramingIntact
<1>1. IInv => FramingIntact
  BY DEF IInv, StreamInv
<1> QED BY <1>1, Invariance, PTL

\* The server says the opening its handshake state calls for and then the documented
\* answers, in the order of the messages, each with the id of the latest stream, and
\* nothing else (RtmpHandShake::WriteComplete, RtmpContext's handlers).
THEOREM AnswersHold == Spec => []AnswersInOrder
<1>1. IInv => AnswersInOrder
  <2> SUFFICES ASSUME IInv PROVE AnswersInOrder
    OBVIOUS
  <2>1. CASE hs = "Done"
    BY <2>1 DEF IInv, AnswersInv
  <2>2. CASE hs # "Done"
    <3>1. Out = Opening /\ handled = <<>>
      BY <2>2 DEF IInv, AnswersInv, StreamInv
    <3>2. PICK z \in Nat : z = 0
      OBVIOUS
    <3>3. Given(z) = 0 /\ Len(handled) = z /\ DOMAIN handled = {}
      BY <3>1, <3>2, CountersTyped
    <3>4. Len(Out) \in Nat
      BY Facts, OutTyped, LenProperties
    <3> QED BY <3>1, <3>2, <3>3, <3>4 DEF AnswersInOrder
  <2> QED BY <2>1, <2>2
<1> QED BY <1>1, Invariance, PTL

\* No message the server sends is longer than the chunk size the client knows when it
\* arrives, although sendChunk never splits one (RtmpContext::sendChunk).
THEOREM ChunksHold == Spec => []ChunksFit
<1>1. IInv => ChunksFit
  BY DEF IInv
<1> QED BY <1>1, Invariance, PTL

\* What the client has sent stays at the start of what it sends.
LEMMA SentGrows ==
  ASSUME IInv, [Next]_vars, sent # <<>>
  PROVE  sent' # <<>> /\ sent'[1] = sent[1]
<1>1. CASE sent' = sent
  BY <1>1
<1>2. ASSUME NEW u \in Seq(Units), sent' = sent \o u
      PROVE  sent' # <<>> /\ sent'[1] = sent[1]
  <2>1. sent \in Seq(Units) /\ Len(sent) \in Nat \ {0}
    BY StreamTyped
  <2>2. Len(sent') = Len(sent) + Len(u) /\ sent'[1] = sent[1] /\ Len(u) \in Nat
    BY <1>2, <2>1, ConcatProperties
  <2> QED BY <2>1, <2>2
<1>3. CASE ClientSendsC2
  BY <1>2, <1>3, HandShakeBytesAre, StreamTyped DEF ClientSendsC2, ClientSends
<1>4. ASSUME NEW m \in ClientMessages, ClientSendsMessage(m)
      PROVE  sent' # <<>> /\ sent'[1] = sent[1]
  <2>1. <<m>> \in Seq(Units)
    BY DEF Units
  <2> QED BY <1>2, <1>4, <2>1 DEF ClientSendsMessage, ClientSends
<1> QED
  BY <1>1, <1>3, <1>4 DEF Next, vars, LoopStep, ReadHandler, ReadErrorHandler, HandShakeWaits,
     RecvC0C1, RejectC0C1, RecvC2, ParseMessage, MessageCbReturn, WriteHandler, WriteErrorHandler,
     KernelReads, KernelReadsEof, KernelWrites, KernelWriteFails, ClientSendsC0C1, ClientLeaves

LEMMA AcceptedStep ==
  ASSUME IInv, Accepted, [Next]_vars
  PROVE  Accepted'
<1>1. CASE RecvC0C1
  <2>1. handled = <<>> /\ hs = "WaitC0C1" /\ HandShakeConsumed = 0 /\ FramingIntact
    BY <1>1 DEF RecvC0C1, IInv, StreamInv, HandShakeConsumed
  <2>2. buf \in Seq(Units) /\ c2s \in Seq(Units) /\ sent \in Seq(Units)
    BY StreamTyped
  <2>3. buf \o c2s = Drop(sent, 0)
    <3>1. handled \o buf = buf
      BY <2>1, <2>2, ConcatEmptySeq
    <3> QED BY <2>1, <3>1 DEF FramingIntact
  <2>4. PICK n \in Nat : n = Len(buf) /\ n >= 1 /\ buf[1] = GoodVersion
    BY <1>1, <2>2, StreamTyped DEF RecvC0C1
  <2>5. PICK t : t = Drop(sent, 0)
    OBVIOUS
  <2>6. t[1] = GoodVersion /\ Len(t) >= 1
    <3>1. /\ Len(t) = Len(buf) + Len(c2s) /\ Len(c2s) \in Nat
          /\ \A i \in 1 .. Len(buf) + Len(c2s) :
               t[i] = IF i <= Len(buf) THEN buf[i] ELSE c2s[i - Len(buf)]
      BY <2>2, <2>3, <2>5, ConcatProperties
    <3> QED BY <2>4, <3>1
  <2>7. t = sent
    <3>1. PICK L \in Nat : L = Len(sent)
      BY <2>2
    <3>2. t = SubSeq(sent, 1, L)
      BY <2>5, <3>1 DEF Drop
    <3> QED BY <2>2, <3>1, <3>2
  <2>8. sent' = sent
    BY <1>1 DEF RecvC0C1
  <2> QED BY <2>2, <2>6, <2>7, <2>8 DEF Accepted
<1>2. CASE hs' # "WaitC0C1" /\ ~RecvC0C1
  <2>1. hs # "WaitC0C1"
    <3>1. CASE WriteHandler
      BY <1>2, <3>1 DEF WriteHandler, AfterWriteComplete
    <3>2. CASE ~WriteHandler
      BY <1>2, <3>2 DEF Next, vars, LoopStep, ReadHandler, ReadErrorHandler, HandShakeWaits,
         RejectC0C1, RecvC2, ParseMessage, MessageCbReturn, WriteErrorHandler,
         KernelReads, KernelReadsEof, KernelWrites, KernelWriteFails, ClientSends,
         ClientSendsC0C1, ClientSendsC2, ClientSendsMessage, ClientLeaves
    <3> QED BY <3>1, <3>2
  <2> QED BY <2>1, SentGrows DEF Accepted
<1> QED BY <1>1, <1>2 DEF Accepted

\* A client with another protocol version is sent nothing, whatever it sends and
\* however it is read, and no message of it is handled (RtmpHandShake::CheckC1S1,
\* RtmpContext::onMessage).
THEOREM OthersRefused == Spec => []OthersUnanswered
<1>1. Init => Accepted
  BY DEF Init, Accepted
<1>2. IInv /\ Accepted /\ [Next]_vars => Accepted'
  BY AcceptedStep
<1>3. IInv /\ Accepted => OthersUnanswered
  <2> SUFFICES ASSUME IInv, Accepted, sent # <<>>, sent[1] = BadVersion
               PROVE  Out = <<>> /\ handled = <<>>
    BY DEF OthersUnanswered
  <2>1. hs = "WaitC0C1"
    BY DEF Accepted, BadVersion, GoodVersion, Unit
  <2> QED BY <2>1 DEF IInv, StreamInv, AnswersInv, Opening
<1> QED BY <1>1, <1>2, <1>3, Invariance, PTL DEF Spec

=============================================================================
