------------------------- MODULE MediaSourceProofs -------------------------
(***************************************************************************)
(* For any viewers, any size of the cache and any number of packets and    *)
(* headers: what the cache holds and what each viewer is given.            *)
(*                                                                         *)
(* What a viewer has been given follows from where it is in AddConsumer    *)
(* and from what the cache held meanwhile, so the invariant has one part   *)
(* on the cache, one on the list, one on the walk over the cache and one   *)
(* on each promise to a viewer.                                            *)
(***************************************************************************)
EXTENDS MediaSource, SequenceTheorems, TLAPS

-----------------------------------------------------------------------------
(* The inductive invariant *)

Count == Len(published)

\* The packets up to n have a latest keyframe if they have one.
HasLatest(n) ==
    Keyframes(n) # {} => \E i \in Keyframes(n) : \A j \in Keyframes(n) : j <= i

\* The cache is the run from the start of the group, as much of it as fits.
CacheInv ==
    /\ \A n \in 0 .. Count : HasLatest(n)
    /\ \A i \in DOMAIN gop : gop[i] = GopStart(Count) + i - 1
    /\ Len(gop) = IF GopLength(Count) < MaxGop THEN GopLength(Count) ELSE MaxGop

\* A packet under way was published, and no header is newer than the one stored.
PublisherInv ==
    /\ publisher = "dispatch" => Count > 0
    /\ \A n \in 1 .. Count : published[n].header <= header["videoHeader"]

\* The list holds the viewers that are in it, each once.
ListInv ==
    /\ \A v \in Viewers : InList(v) <=> phase[v] = "in"
    /\ \A i, j \in DOMAIN consumers : consumers[i] = consumers[j] => i = j

\* Nothing is published while a viewer of the publisher's loop is in AddConsumer.
LoopInv == \A v \in local \cap Joining : publisher = "idle" /\ joinedAt[v] = Count

\* The last packet v was given is packet n, none if n is 0.
LastIs(v, n) ==
    IF n = 0 THEN Packets(v) = {}
             ELSE Len(got[v]) \in Packets(v) /\ got[v][Len(got[v])].n = n

\* v has been given headers and then packets, in order.
GivenInv(v) ==
    /\ joinedAt[v] <= Count
    /\ phase[v] \in {"out", "headers"} => got[v] = <<>> /\ next[v] = 1
    /\ \A i \in Packets(v) : got[v][i].n <= Count
    /\ \A i, j \in DOMAIN got[v] : i < j /\ i \in Packets(v) => j \in Packets(v)
    /\ \A i, j \in Packets(v) : i < j => got[v][i].n <= got[v][j].n

\* Within the walk over the cache v has been given the first next[v] - 1 packets.
WalkInv(v) ==
    ~raced /\ phase[v] = "cache" =>
        /\ next[v] <= Len(gop) + 1
        /\ LastIs(v, IF next[v] = 1 THEN 0 ELSE gop[next[v] - 1])

\* v starts at a keyframe, and a walk over a cache that is not empty gives it one.
StartInv(v) ==
    /\ \A i \in Packets(v) :
        (\A j \in Packets(v) : i <= j) /\ Keyframes(joinedAt[v]) # {} =>
            published[got[v][i].n].kind = "key"
    /\ phase[v] \in {"joining", "in", "gone"} /\ joinedAt[v] > 0 => Packets(v) # {}

\* Where in got[v] the video headers are.
VideoHeaders(v) == {j \in DOMAIN got[v] : got[v][j].kind = "videoHeader"}

\* v is given one video header at most, which is no newer than the stored one; once
\* it was given the headers, the one it has is no older than that of any packet
\* published before it called AddConsumer.
HeaderInv(v) ==
    /\ \A j \in VideoHeaders(v) : got[v][j].n <= header["videoHeader"]
    /\ \A j, k \in VideoHeaders(v) : j = k
    /\ phase[v] \notin {"out", "headers"} =>
           \A n \in 1 .. joinedAt[v] : published[n].header > 0 =>
               \E j \in VideoHeaders(v) : got[v][j].n >= published[n].header

\* The packet that the list's viewers were given last.
Current == IF publisher = "dispatch" THEN Count - 1 ELSE Count

\* A viewer of the publisher's loop, if the cache held the whole group.
LocalInv(v) ==
    v \in local /\ GopLength(joinedAt[v]) <= MaxGop =>
        /\ \A i \in Packets(v) : i + 1 \in DOMAIN got[v] => got[v][i + 1].n = got[v][i].n + 1
        /\ phase[v] \in {"joining", "in"} => LastIs(v, Current)

ViewerInv(v) == GivenInv(v) /\ WalkInv(v) /\ StartInv(v) /\ HeaderInv(v) /\ LocalInv(v)

IInv ==
    /\ TypeOK
    /\ CacheInv /\ PublisherInv /\ ListInv /\ LoopInv
    /\ \A v \in Viewers : ViewerInv(v)

USE MediaSourceAssumption

-----------------------------------------------------------------------------
(* Keyframes and groups of pictures *)

\* Appending a packet changes no group that ended before it.
LEMMA KeyframesStable ==
    ASSUME NEW n \in 0 .. Count,
           published \in Seq(PublishedPackets),
           NEW p \in PublishedPackets,
           published' = Append(published, p)
    PROVE  /\ Keyframes(n)' = Keyframes(n)
           /\ GopStart(n)' = GopStart(n)
           /\ GopLength(n)' = GopLength(n)
           /\ HasLatest(n)' <=> HasLatest(n)
<1>1. \A i \in 1 .. n : published'[i] = published[i]
  BY DEF Count
<1>2. Keyframes(n)' = Keyframes(n)
  BY <1>1 DEF Keyframes
<1>3. GopStart(n)' = GopStart(n)
  BY <1>2 DEF GopStart
<1>4. QED
  BY <1>2, <1>3 DEF GopLength, HasLatest

\* A group starts at the latest keyframe, at the first packet without one.
LEMMA GopStartIsLatest ==
    ASSUME NEW n \in Nat, HasLatest(n)
    PROVE  /\ Keyframes(n) = {} => GopStart(n) = 1
           /\ Keyframes(n) # {} => /\ GopStart(n) \in Keyframes(n)
                                   /\ \A j \in Keyframes(n) : j <= GopStart(n)
BY DEF HasLatest, GopStart

LEMMA GopLengthBounds ==
    ASSUME NEW n \in Nat, HasLatest(n)
    PROVE  /\ GopStart(n) \in Nat /\ GopLength(n) \in 0 .. n
           /\ n > 0 => GopLength(n) > 0 /\ GopLength(n) = n - GopStart(n) + 1
<1>1. Keyframes(n) \subseteq 1 .. n
  BY DEF Keyframes
<1>2. GopStart(n) \in Nat /\ GopStart(n) > 0 /\ (n > 0 => GopStart(n) <= n)
  BY <1>1, GopStartIsLatest
<1>3. QED
  BY <1>2 DEF GopLength

\* The start of a group is the only latest keyframe.
LEMMA GopStartUnique ==
    ASSUME NEW n \in Nat, NEW i \in Keyframes(n), \A j \in Keyframes(n) : j <= i
    PROVE  GopStart(n) = i
<1>1. Keyframes(n) \subseteq Nat /\ Keyframes(n) # {}
  BY DEF Keyframes
<1>2. HasLatest(n)
  BY DEF HasLatest
<1>3. GopStart(n) \in Keyframes(n) /\ i <= GopStart(n) /\ GopStart(n) <= i
  BY <1>1, <1>2, GopStartIsLatest
<1>4. QED
  BY <1>1, <1>3

\* A keyframe starts a group, another packet lengthens the one there is.
LEMMA NextPacketsGroup ==
    ASSUME published \in Seq(PublishedPackets),
           NEW p \in PublishedPackets,
           published' = Append(published, p), NEW n, n = Count, HasLatest(n),
           NEW m, m = n + 1
    PROVE  /\ n \in Nat /\ Count' = m
           /\ HasLatest(m)'
           /\ p.kind = "key" => GopStart(m)' = n + 1
           /\ p.kind # "key" => GopStart(m)' = GopStart(n)
<1>1. n \in Nat /\ m = n + 1 /\ Count' = n + 1 /\ published'[n + 1] = p
      /\ \A i \in 1 .. n : published'[i] = published[i]
  BY DEF Count
<1>a. \A i \in 1 .. n + 1 : i \in 1 .. n \/ i = n + 1
  BY <1>1
<1>2. CASE p.kind = "key"
  <2>1. Keyframes(m)' = Keyframes(n) \cup {n + 1}
    <3>1. Keyframes(m)' = {i \in 1 .. n + 1 : published'[i].kind = "key"}
      BY DEF Keyframes
    <3>2. \A i \in 1 .. n + 1 : published'[i].kind = "key" <=> i \in Keyframes(n) \/ i = n + 1
      BY <1>1, <1>2, <1>a DEF Keyframes
    <3>3. Keyframes(n) \subseteq 1 .. n + 1 /\ n + 1 \in 1 .. n + 1
      BY <1>1 DEF Keyframes
    <3>4. QED
      BY <3>1, <3>2, <3>3
  <2>2. n + 1 \in Keyframes(m)' /\ \A j \in Keyframes(m)' : j <= n + 1
    <3>1. \A j \in Keyframes(n) : j <= n + 1
      BY <1>1 DEF Keyframes
    <3>2. QED
      BY <1>1, <2>1, <3>1
  <2>3. HasLatest(m)'
    BY <2>2 DEF HasLatest
  <2>4. GopStart(m)' = n + 1
    <3>1. GopStart(m)' = CHOOSE i \in Keyframes(m)' : \A j \in Keyframes(m)' : j <= i
      BY <2>2 DEF GopStart
    <3>2. GopStart(m)' \in Keyframes(m)' /\ n + 1 <= GopStart(m)'
      BY <2>2, <3>1
    <3>3. Keyframes(m)' \subseteq 1 .. n + 1
      BY <1>1 DEF Keyframes
    <3>4. QED
      BY <1>1, <3>2, <3>3
  <2>5. QED
    BY <1>1, <1>2, <2>3, <2>4
<1>3. CASE p.kind # "key"
  <2>1. Keyframes(m)' = Keyframes(n)
    <3>1. Keyframes(m)' = {i \in 1 .. n + 1 : published'[i].kind = "key"}
      BY DEF Keyframes
    <3>2. \A i \in 1 .. n + 1 : published'[i].kind = "key" <=> i \in Keyframes(n)
      BY <1>1, <1>3, <1>a DEF Keyframes
    <3>3. Keyframes(n) \subseteq 1 .. n + 1
      BY <1>1 DEF Keyframes
    <3>4. QED
      BY <3>1, <3>2, <3>3
  <2>2. HasLatest(m)'
    BY <2>1 DEF HasLatest
  <2>3. GopStart(m)' = GopStart(n)
    <3>1. GopStart(m)' =
            IF Keyframes(m)' = {} THEN 1
            ELSE CHOOSE i \in Keyframes(m)' : \A j \in Keyframes(m)' : j <= i
      BY DEF GopStart
    <3>2. CASE Keyframes(n) = {}
      BY <2>1, <3>1, <3>2 DEF GopStart
    <3>3. CASE Keyframes(n) # {}
      <4>1. GopStart(n) \in Keyframes(n) /\ \A j \in Keyframes(n) : j <= GopStart(n)
        BY <1>1, <3>3, GopStartIsLatest
      <4>2. GopStart(m)' \in Keyframes(n) /\ \A j \in Keyframes(n) : j <= GopStart(m)'
        BY <2>1, <3>1, <4>1
      <4>3. Keyframes(n) \subseteq Nat
        BY <1>1 DEF Keyframes
      <4>4. QED
        BY <4>1, <4>2, <4>3
    <3>4. QED
      BY <3>2, <3>3
  <2>4. QED
    BY <1>1, <1>3, <2>2, <2>3
<1>4. QED
  BY <1>2, <1>3

LEMMA SeqElement ==
    ASSUME NEW S, NEW s \in Seq(S), NEW i \in 1 .. Len(s)
    PROVE  s[i] \in S
OBVIOUS

LEMMA PacketAt ==
    ASSUME published \in Seq(PublishedPackets), NEW n \in 1 .. Count
    PROVE  published[n] \in PublishedPackets
BY SeqElement, Zenon DEF Count

-----------------------------------------------------------------------------
(* What a viewer is given *)

\* One more item for v: the earlier ones stay where they are.
LEMMA GivenOneMore ==
    ASSUME TypeOK, NEW v \in Viewers, NEW n \in 1 .. MaxPackets,
           got'[v] = Append(got[v], Packet(n))
    PROVE  LET L == Len(got[v])
           IN  /\ L \in Nat /\ DOMAIN got[v] = 1 .. L
               /\ Len(got'[v]) = L + 1 /\ DOMAIN got'[v] = 1 .. L + 1
               /\ \A i \in 1 .. L : got'[v][i] = got[v][i]
               /\ got'[v][L + 1].n = n
               /\ Packets(v)' = Packets(v) \cup {L + 1}
               /\ Packets(v) \subseteq 1 .. L
               /\ VideoHeaders(v)' = VideoHeaders(v) /\ VideoHeaders(v) \subseteq 1 .. L
<1> DEFINE L == Len(got[v])
<1>1. got[v] \in Seq(Items) /\ Packet(n) \in Items
  BY DEF TypeOK, Items, Packet
<1>2. /\ L \in Nat /\ DOMAIN got[v] = 1 .. L
      /\ Len(got'[v]) = L + 1 /\ DOMAIN got'[v] = 1 .. L + 1
      /\ \A i \in 1 .. L : got'[v][i] = got[v][i]
      /\ got'[v][L + 1] = Packet(n)
  BY <1>1
<1>3. got'[v][L + 1].n = n /\ got'[v][L + 1].kind = "packet"
  BY <1>2 DEF Packet
<1>4. Packets(v)' = Packets(v) \cup {L + 1} /\ Packets(v) \subseteq 1 .. L
  BY <1>2, <1>3 DEF Packets
<1>5. VideoHeaders(v)' = VideoHeaders(v) /\ VideoHeaders(v) \subseteq 1 .. L
  BY <1>2, <1>3 DEF VideoHeaders
<1>6. QED
  BY <1>2, <1>3, <1>4, <1>5

LEMMA PacketsType ==
    ASSUME TypeOK, NEW v \in Viewers, NEW i \in Packets(v)
    PROVE  got[v][i].n \in 1 .. MaxPackets /\ i \in 1 .. Len(got[v]) /\ Len(got[v]) \in Nat
<1>1. got[v] \in Seq(Items) /\ i \in 1 .. Len(got[v]) /\ got[v][i].kind = "packet"
  BY DEF TypeOK, Packets
<1>2. got[v][i] \in Items
  BY <1>1
<1>3. got[v][i] \notin [kind : HeaderKinds, n : 1 .. MaxHeaders]
  BY <1>1 DEF HeaderKinds
<1>4. got[v][i] \in [kind : {"packet"}, n : 1 .. MaxPackets]
  BY <1>2, <1>3 DEF Items
<1>5. QED
  BY <1>1, <1>4

LEMMA VideoHeaderType ==
    ASSUME TypeOK, NEW v \in Viewers, NEW j \in VideoHeaders(v)
    PROVE  got[v][j].n \in Nat
<1>1. got[v] \in Seq(Items) /\ j \in 1 .. Len(got[v])
  BY DEF TypeOK, VideoHeaders
<1>2. got[v][j] \in Items
  BY <1>1
<1>3. QED
  BY <1>2 DEF Items

-----------------------------------------------------------------------------
(* What a step leaves alone *)

\* The cache's part of the invariant is about the packets and the cache.
LEMMA CacheSame ==
    ASSUME CacheInv, UNCHANGED <<published, gop>>
    PROVE  CacheInv'
<1>1. ASSUME NEW n
      PROVE  /\ GopStart(n)' = GopStart(n) /\ GopLength(n)' = GopLength(n)
             /\ HasLatest(n)' <=> HasLatest(n)
  <2>1. Keyframes(n)' = Keyframes(n)
    BY DEF Keyframes
  <2>2. GopStart(n)' = GopStart(n)
    BY <2>1 DEF GopStart
  <2>3. QED
    BY <2>1, <2>2 DEF GopLength, HasLatest
<1>2. Count' = Count
  BY DEF Count
<1>3. GopStart(Count)' = GopStart(Count) /\ GopLength(Count)' = GopLength(Count)
  <2>1. ASSUME NEW n, n = Count
        PROVE  GopStart(Count)' = GopStart(n)' /\ GopLength(Count)' = GopLength(n)'
    BY <1>2, <2>1
  <2>2. QED
    BY <1>1, <2>1
<1>4. QED
  BY <1>1, <1>2, <1>3 DEF CacheInv

\* A viewer's part is about the viewer: it does not mention the list, and a newer
\* stored header does not disturb it.
LEMMA ViewerSame ==
    ASSUME TypeOK, NEW v \in Viewers, ViewerInv(v),
           \A n \in Nat : n <= header["videoHeader"] => n <= header'["videoHeader"],
           UNCHANGED <<local, published, gop>>, raced => raced',
           publisher' = publisher \/ ~ (v \in local /\ phase[v] \in {"joining", "in"}),
           got'[v] = got[v], phase'[v] = phase[v], next'[v] = next[v],
           joinedAt'[v] = joinedAt[v]
    PROVE  ViewerInv(v)'
<1>1. Packets(v)' = Packets(v) /\ Count' = Count
  BY DEF Packets, Count
<1>2. Keyframes(joinedAt[v])' = Keyframes(joinedAt[v])
  BY DEF Keyframes
<1>3. GopLength(joinedAt[v])' = GopLength(joinedAt[v])
  BY <1>2 DEF GopLength, GopStart
<1>4. GivenInv(v)'
  BY <1>1 DEF ViewerInv, GivenInv
<1>5. WalkInv(v)'
  BY <1>1 DEF ViewerInv, WalkInv, LastIs
<1>6. StartInv(v)'
  BY <1>1, <1>2 DEF ViewerInv, StartInv
<1>7. HeaderInv(v)'
  <2>1. VideoHeaders(v)' = VideoHeaders(v)
    BY DEF VideoHeaders
  <2>2. \A j \in VideoHeaders(v) : got[v][j].n \in Nat
    BY VideoHeaderType
  <2>3. QED
    BY <2>1, <2>2 DEF ViewerInv, HeaderInv
<1>8. LocalInv(v)'
  <2>1. publisher' = publisher => Current' = Current
    BY <1>1 DEF Current
  <2>2. QED
    BY <1>1, <1>3, <2>1 DEF ViewerInv, LocalInv, LastIs
<1>9. QED
  BY <1>4, <1>5, <1>6, <1>7, <1>8 DEF ViewerInv

LEMMA ListSame ==
    ASSUME ListInv, UNCHANGED <<consumers, phase>>
    PROVE  ListInv'
BY DEF ListInv, InList

LEMMA LoopSame ==
    ASSUME LoopInv, UNCHANGED <<local, phase, publisher, published, joinedAt>>
    PROVE  LoopInv'
BY DEF LoopInv, Joining, In, Count

-----------------------------------------------------------------------------
(* The initial state and the publisher's steps *)

LEMMA InitIInv == Init => IInv
<1> SUFFICES ASSUME Init PROVE IInv
  OBVIOUS
<1>1. TypeOK
  <2>1. local \subseteq Viewers /\ raced \in BOOLEAN /\ publisher \in {"idle", "dispatch"}
    BY DEF Init
  <2>2. published \in Seq(PublishedPackets) /\ Len(published) <= MaxPackets
    BY DEF Init
  <2>3. gop \in Seq(1 .. MaxPackets) /\ Len(gop) <= MaxGop /\ consumers \in Seq(Viewers)
    BY DEF Init
  <2>4. phase \in [Viewers -> Phases] /\ next \in [Viewers -> Nat \ {0}]
    BY DEF Init, Phases
  <2>5. got \in [Viewers -> Seq(Items)]
    <3>1. <<>> \in Seq(Items)
      OBVIOUS
    <3>2. QED
      BY <3>1 DEF Init
  <2>6. joinedAt \in [Viewers -> 0 .. MaxPackets]
    BY DEF Init
  <2>7. header \in [HeaderKinds -> 0 .. MaxHeaders]
    <3>1. 0 \in 0 .. MaxHeaders
      OBVIOUS
    <3>2. QED
      BY <3>1, Zenon DEF Init
  <2>8. QED
    BY <2>1, <2>2, <2>3, <2>4, <2>5, <2>6, <2>7 DEF TypeOK
<1>2. Count = 0 /\ Keyframes(0) = {}
  BY DEF Init, Count, Keyframes
<1>3. CacheInv
  BY <1>2 DEF Init, CacheInv, HasLatest, GopLength
<1>4. PublisherInv /\ ListInv /\ LoopInv
  BY <1>2 DEF Init, PublisherInv, ListInv, InList, LoopInv, Joining, In
<1>5. ASSUME NEW v \in Viewers PROVE ViewerInv(v)
  <2>1. Packets(v) = {} /\ phase[v] = "out" /\ got[v] = <<>> /\ next[v] = 1 /\ joinedAt[v] = 0
    BY DEF Init, Packets
  <2>2. QED
    BY <1>2, <2>1 DEF ViewerInv, GivenInv, WalkInv, StartInv, HeaderInv, VideoHeaders, LocalInv
<1>6. QED
  BY <1>1, <1>3, <1>4, <1>5 DEF IInv

\* A header is stored: no packet has a newer one than before.
LEMMA SetHeaderStep ==
    ASSUME IInv, NEW k \in SentHeaders, SetHeader(k)
    PROVE  IInv'
<1>1. /\ UNCHANGED <<published, gop, publisher, consumers, got, local, phase, next, joinedAt>>
      /\ header' = [header EXCEPT ![k] = header[k] + 1] /\ header[k] < MaxHeaders
      /\ ~raced /\ raced' \in BOOLEAN
      /\ k \in HeaderKinds
  BY DEF SetHeader, PublisherMayCall, viewerVars
<1>2. header \in [HeaderKinds -> 0 .. MaxHeaders]
      /\ published \in Seq(PublishedPackets)
  BY DEF IInv, TypeOK
<1>3. header[k] + 1 \in 0 .. MaxHeaders
  BY <1>1, <1>2
<1>4. TypeOK'
  BY <1>1, <1>2, <1>3 DEF IInv, TypeOK
<1>5. CacheInv' /\ ListInv' /\ LoopInv'
  BY <1>1, CacheSame, ListSame, LoopSame DEF IInv
<1>6. PublisherInv'
      /\ header["videoHeader"] <= header'["videoHeader"] /\ header'["videoHeader"] \in Nat
      /\ header["videoHeader"] \in Nat
  <2>1. header["videoHeader"] \in 0 .. MaxHeaders /\ header[k] \in 0 .. MaxHeaders
    <3>1. "videoHeader" \in HeaderKinds
      BY DEF HeaderKinds
    <3>2. QED
      BY <1>1, <1>2, <3>1
  <2>2. header'["videoHeader"] = IF k = "videoHeader" THEN header[k] + 1 ELSE header["videoHeader"]
    <3>1. "videoHeader" \in HeaderKinds
      BY DEF HeaderKinds
    <3>2. QED
      BY <1>1, <1>2, <3>1
  <2>3. header["videoHeader"] <= header'["videoHeader"] /\ header'["videoHeader"] \in Nat
        /\ header["videoHeader"] \in Nat
    <3>1. CASE k = "videoHeader"
      <4>1. header'["videoHeader"] = header["videoHeader"] + 1
        BY <2>2, <3>1
      <4>2. QED
        BY <2>1, <4>1
    <3>2. CASE k # "videoHeader"
      <4>1. header'["videoHeader"] = header["videoHeader"]
        BY <2>2, <3>2
      <4>2. QED
        BY <2>1, <4>1
    <3>3. QED
      BY <3>1, <3>2
  <2>4. ASSUME NEW n \in 1 .. Count
        PROVE  published[n].header <= header'["videoHeader"]
    <3>1. published[n] \in PublishedPackets
      BY <1>2, PacketAt
    <3>2. published[n].header \in 0 .. MaxHeaders
      BY <3>1 DEF PublishedPackets
    <3>3. published[n].header <= header["videoHeader"]
      BY DEF IInv, PublisherInv
    <3>4. QED
      BY <2>3, <3>2, <3>3
  <2>5. Count' = Count
    BY <1>1 DEF Count
  <2>6. QED
    BY <1>1, <2>3, <2>4, <2>5 DEF IInv, PublisherInv
<1>7. ASSUME NEW v \in Viewers PROVE ViewerInv(v)'
  <2>1. \A n \in Nat : n <= header["videoHeader"] => n <= header'["videoHeader"]
    BY <1>6
  <2>2. QED
    BY <1>1, <2>1, ViewerSame DEF IInv
<1>8. QED
  BY <1>4, <1>5, <1>6, <1>7 DEF IInv


\* One more packet, no older than the others: what v was given stays in order, it
\* still starts at a keyframe and it still has its video header.
LEMMA OneMorePacket ==
    ASSUME TypeOK, NEW v \in Viewers, NEW n \in 1 .. MaxPackets,
           GivenInv(v), HeaderInv(v), StartInv(v), n <= Count,
           \A i \in Packets(v) : got[v][i].n <= n,
           Packets(v) = {} /\ Keyframes(joinedAt[v]) # {} => published[n].kind = "key",
           phase[v] \notin {"out", "headers"},
           got'[v] = Append(got[v], Packet(n)), UNCHANGED <<published, header>>,
           phase'[v] = phase[v], joinedAt'[v] = joinedAt[v]
    PROVE  GivenInv(v)' /\ HeaderInv(v)' /\ StartInv(v)'
<1> DEFINE L == Len(got[v])
<1>1. /\ L \in Nat /\ DOMAIN got[v] = 1 .. L
      /\ DOMAIN got'[v] = 1 .. L + 1
      /\ \A i \in 1 .. L : got'[v][i] = got[v][i]
      /\ got'[v][L + 1].n = n
      /\ Packets(v)' = Packets(v) \cup {L + 1}
      /\ Packets(v) \subseteq 1 .. L
      /\ VideoHeaders(v)' = VideoHeaders(v) /\ VideoHeaders(v) \subseteq 1 .. L
  BY GivenOneMore
<1> HIDE DEF L
<1>2. Count' = Count
  BY DEF Count
<1>3. Keyframes(joinedAt[v])' = Keyframes(joinedAt[v])
  BY DEF Keyframes
<1>4. \A i \in 1 .. L + 1 : i \in 1 .. L \/ i = L + 1
  BY <1>1
<1>5. GivenInv(v)'
  <2>1. \A i \in Packets(v)' : got'[v][i].n <= Count'
    BY <1>1, <1>2 DEF GivenInv
  <2>2. ASSUME NEW i \in DOMAIN got'[v], NEW j \in DOMAIN got'[v], i < j, i \in Packets(v)'
        PROVE  j \in Packets(v)'
    <3>1. CASE j = L + 1
      BY <1>1, <3>1
    <3>2. CASE j \in 1 .. L
      <4>1. i \in 1 .. L /\ i \in Packets(v)
        BY <1>1, <1>4, <2>2, <3>2
      <4>2. QED
        BY <1>1, <2>2, <3>2, <4>1 DEF GivenInv
    <3>3. QED
      BY <1>1, <1>4, <2>2, <3>1, <3>2
  <2>3. ASSUME NEW i \in Packets(v)', NEW j \in Packets(v)', i < j
        PROVE  got'[v][i].n <= got'[v][j].n
    <3>1. i \in Packets(v) /\ i \in 1 .. L
      BY <1>1, <2>3
    <3>2. CASE j = L + 1
      BY <1>1, <3>1, <3>2
    <3>3. CASE j \in Packets(v)
      BY <1>1, <2>3, <3>1, <3>3 DEF GivenInv
    <3>4. QED
      BY <1>1, <3>2, <3>3
  <2>4. joinedAt'[v] <= Count'
    BY <1>2 DEF GivenInv
  <2>5. QED
    BY <2>1, <2>2, <2>3, <2>4 DEF GivenInv
<1>6. HeaderInv(v)'
  BY <1>1 DEF HeaderInv
<1>7. StartInv(v)'
  <2>1. ASSUME NEW i \in Packets(v)', \A j \in Packets(v)' : i <= j, Keyframes(joinedAt[v])' # {}
        PROVE  published'[got'[v][i].n].kind = "key"
    <3>1. CASE Packets(v) = {}
      BY <1>1, <1>3, <2>1, <3>1
    <3>2. CASE Packets(v) # {}
      <4>1. i \in Packets(v) /\ i \in 1 .. L
        BY <1>1, <2>1, <3>2
      <4>2. QED
        BY <1>1, <1>3, <2>1, <4>1 DEF StartInv
    <3>3. QED
      BY <3>1, <3>2
  <2>2. QED
    BY <1>1, <2>1 DEF StartInv
<1>8. QED
  BY <1>5, <1>6, <1>7

\* A packet is cached.  No viewer of the publisher's loop is in AddConsumer, and if
\* another one walks the cache the program has raced.
LEMMA OnPacketStep ==
    ASSUME IInv, NEW kind \in PacketKinds, OnPacket(kind)
    PROVE  IInv'
<1> DEFINE p == [kind |-> kind, header |-> header["videoHeader"]]
<1>1. /\ ~raced /\ publisher = "idle" /\ Joining \cap local = {}
      /\ Count < MaxPackets
      /\ published' = Append(published, p)
      /\ gop' = Cached(kind, Count + 1) /\ publisher' = "dispatch"
      /\ raced' = (In("cache") # {})
      /\ UNCHANGED <<header, consumers, got, local, phase, next, joinedAt>>
  BY DEF OnPacket, PublisherMayCall, viewerVars, Count
<1>2. /\ published \in Seq(PublishedPackets) /\ header \in [HeaderKinds -> 0 .. MaxHeaders]
      /\ gop \in Seq(1 .. MaxPackets)
  BY DEF IInv, TypeOK
<1>3. header["videoHeader"] \in 0 .. MaxHeaders
  BY <1>2 DEF HeaderKinds
<1>4. p \in PublishedPackets /\ p.kind = kind /\ p.header = header["videoHeader"]
  BY <1>3 DEF PublishedPackets
<1> HIDE DEF p
<1>5. PICK n, m : n = Count /\ m = n + 1
  OBVIOUS
<1>6. n \in Nat /\ m = n + 1 /\ \A k \in 0 .. n : HasLatest(k)
  BY <1>2, <1>5 DEF IInv, CacheInv, Count
<1>7. /\ Count' = m /\ HasLatest(m)'
      /\ kind = "key" => GopStart(m)' = n + 1
      /\ kind # "key" => GopStart(m)' = GopStart(n)
  BY <1>1, <1>2, <1>4, <1>5, <1>6, NextPacketsGroup
<1>8. ASSUME NEW k \in 0 .. n
      PROVE  /\ Keyframes(k)' = Keyframes(k) /\ GopLength(k)' = GopLength(k)
             /\ HasLatest(k)'
  BY <1>1, <1>2, <1>4, <1>5, <1>6, KeyframesStable
<1>9. \A i \in 1 .. n : published'[i] = published[i]
  BY <1>1, <1>2, <1>4, <1>5 DEF Count
<1>10. published'[n + 1] = p
  BY <1>1, <1>2, <1>4, <1>5 DEF Count
<1>11. CacheInv' /\ gop' \in Seq(1 .. MaxPackets) /\ Len(gop') <= MaxGop
  <2> DEFINE start == GopStart(n)
  <2>1. start \in Nat /\ GopLength(n) \in Nat /\ GopLength(n) = n - start + 1
    <3>1. CASE n = 0
      <4>1. Keyframes(0) = {}
        BY DEF Keyframes
      <4>2. QED
        BY <3>1, <4>1 DEF GopStart, GopLength
    <3>2. CASE n # 0
      BY <1>6, <3>2, GopLengthBounds
    <3>3. QED
      BY <3>1, <3>2
  <2>2. /\ \A i \in 1 .. Len(gop) : gop[i] = start + i - 1
        /\ Len(gop) = IF GopLength(n) < MaxGop THEN GopLength(n) ELSE MaxGop
        /\ Len(gop) \in Nat
    <3>1. DOMAIN gop = 1 .. Len(gop) /\ Len(gop) \in Nat
      BY <1>2
    <3>2. QED
      BY <1>5, <3>1 DEF IInv, CacheInv
  <2>3. GopLength(m)' = n + 1 - GopStart(m)' + 1
    <3>1. m # 0
      BY <1>6
    <3>2. GopLength(m)' = m - GopStart(m)' + 1
      BY <3>1 DEF GopLength
    <3>3. GopStart(m)' \in Int
      BY <1>6, <1>7, <2>1 DEF start
    <3>4. QED
      BY <1>6, <3>2, <3>3
  <2> HIDE DEF start
  <2>4. n + 1 \in 1 .. MaxPackets
    BY <1>1, <1>5, <1>6
  <2>5. /\ \A i \in 1 .. Len(gop') : gop'[i] = GopStart(m)' + i - 1
        /\ Len(gop') = IF GopLength(m)' < MaxGop THEN GopLength(m)' ELSE MaxGop
        /\ gop' \in Seq(1 .. MaxPackets)
    <3>1. CASE kind = "key"
      <4>1. gop' = <<n + 1>>
        BY <1>1, <1>5, <3>1 DEF Cached
      <4>2. Len(gop') = 1 /\ gop'[1] = n + 1 /\ gop' \in Seq(1 .. MaxPackets)
        BY <2>4, <4>1
      <4>3. GopLength(m)' = 1 /\ GopStart(m)' = n + 1
        BY <1>6, <1>7, <2>3, <3>1
      <4>4. QED
        BY <1>6, <4>2, <4>3
    <3>2. CASE kind # "key" /\ Len(gop) < MaxGop
      <4>1. gop' = Append(gop, n + 1)
        BY <1>1, <1>5, <3>2 DEF Cached
      <4>2. /\ Len(gop') = Len(gop) + 1 /\ gop'[Len(gop) + 1] = n + 1
            /\ \A i \in 1 .. Len(gop) : gop'[i] = gop[i]
            /\ gop' \in Seq(1 .. MaxPackets)
        BY <1>2, <2>4, <4>1
      <4>3. Len(gop) = n - start + 1
        BY <2>1, <2>2, <3>2
      <4>4. GopStart(m)' = start /\ GopLength(m)' = n + 1 - start + 1
        BY <1>7, <2>3, <3>2 DEF start
      <4>5. \A i \in 1 .. Len(gop) + 1 : i \in 1 .. Len(gop) \/ i = Len(gop) + 1
        BY <2>2
      <4>6. \A i \in 1 .. Len(gop') : gop'[i] = start + i - 1
        <5>1. gop'[Len(gop) + 1] = start + (Len(gop) + 1) - 1
          BY <1>6, <2>1, <4>2, <4>3
        <5>2. \A i \in 1 .. Len(gop) : gop'[i] = start + i - 1
          BY <2>2, <4>2
        <5>3. QED
          BY <4>2, <4>5, <5>1, <5>2
      <4>7. Len(gop') = IF GopLength(m)' < MaxGop THEN GopLength(m)' ELSE MaxGop
        BY SMTT(30), <1>6, <2>1, <2>2, <3>2, <4>2, <4>3, <4>4
      <4>8. QED
        BY <4>2, <4>4, <4>6, <4>7
    <3>3. CASE kind # "key" /\ ~ (Len(gop) < MaxGop)
      <4>1. gop' = gop
        BY <1>1, <1>5, <3>3 DEF Cached
      <4>2. GopStart(m)' = start /\ GopLength(m)' = n + 1 - start + 1
        BY <1>7, <2>3, <3>3 DEF start
      <4>3. Len(gop) = MaxGop /\ MaxGop <= GopLength(n)
        BY <2>1, <2>2, <3>3
      <4>4. Len(gop') = IF GopLength(m)' < MaxGop THEN GopLength(m)' ELSE MaxGop
        BY <1>6, <2>1, <4>1, <4>2, <4>3
      <4>5. QED
        BY <1>2, <2>2, <4>1, <4>2, <4>4
    <3>4. QED
      BY <3>1, <3>2, <3>3
  <2>6. Len(gop') <= MaxGop /\ DOMAIN gop' = 1 .. Len(gop')
    <3>1. GopLength(m)' \in Int
      <4>1. GopStart(m)' \in Int
        BY <1>6, <1>7, <2>1 DEF start
      <4>2. QED
        BY <1>6, <2>3, <4>1
    <3>2. QED
      BY <2>5, <3>1
  <2>7. \A k \in 0 .. n + 1 : HasLatest(k)'
    <3>1. \A k \in 0 .. n + 1 : k \in 0 .. n \/ k = n + 1
      BY <1>6
    <3>2. \A k \in 0 .. n : HasLatest(k)'
      BY <1>8
    <3>3. QED
      BY <1>6, <1>7, <3>1, <3>2
  <2>8. GopStart(Count)' = GopStart(m)' /\ GopLength(Count)' = GopLength(m)'
    BY <1>7
  <2>9. QED
    BY <1>6, <1>7, <2>5, <2>6, <2>7, <2>8 DEF CacheInv
<1>12. TypeOK'
  <2>1. published' \in Seq(PublishedPackets) /\ Len(published') <= MaxPackets
    BY <1>1, <1>2, <1>4, <1>5, <1>6 DEF Count
  <2>2. raced' \in BOOLEAN
    BY <1>1
  <2>3. QED
    BY <1>1, <1>11, <2>1, <2>2 DEF IInv, TypeOK
<1>13. PublisherInv'
  <2>1. \A k \in 1 .. n + 1 : k \in 1 .. n \/ k = n + 1
    BY <1>6
  <2>2. \A k \in 1 .. n : published'[k].header <= header["videoHeader"]
    BY <1>5, <1>9 DEF IInv, PublisherInv
  <2>3. published'[n + 1].header <= header["videoHeader"]
    BY <1>3, <1>4, <1>10
  <2>4. \A k \in 1 .. Count' : published'[k].header <= header'["videoHeader"]
    <3>1. header'["videoHeader"] = header["videoHeader"]
      BY <1>1
    <3>2. QED
      BY <1>6, <1>7, <2>1, <2>2, <2>3, <3>1
  <2>5. Count' > 0
    BY <1>6, <1>7
  <2>6. QED
    BY <2>4, <2>5 DEF PublisherInv
<1>14. ListInv' /\ LoopInv'
  BY <1>1, ListSame DEF IInv, LoopInv, Joining, In
<1>15. ASSUME NEW v \in Viewers PROVE ViewerInv(v)'
  <2>1. ViewerInv(v) /\ TypeOK
    BY DEF IInv
  <2>2. joinedAt[v] \in 0 .. n /\ joinedAt'[v] = joinedAt[v]
    BY <1>1, <1>5, <2>1 DEF ViewerInv, GivenInv, TypeOK
  <2>3. Keyframes(joinedAt[v])' = Keyframes(joinedAt[v])
        /\ GopLength(joinedAt[v])' = GopLength(joinedAt[v])
    <3>1. PICK k \in 0 .. n : k = joinedAt[v]
      BY <2>2
    <3>2. Keyframes(k)' = Keyframes(k) /\ GopLength(k)' = GopLength(k)
      BY <1>8
    <3>3. QED
      BY <2>2, <3>1, <3>2
  <2>4. Packets(v)' = Packets(v)
    BY <1>1 DEF Packets
  <2>5. \A i \in Packets(v) : got[v][i].n \in 1 .. n
    BY <1>5, <2>1, PacketsType DEF ViewerInv, GivenInv
  <2>6. GivenInv(v)'
    BY <1>1, <1>5, <1>6, <1>7, <2>1, <2>2, <2>4, <2>5 DEF ViewerInv, GivenInv
  <2>7. WalkInv(v)'
    BY <1>1 DEF WalkInv, In
  <2>8. StartInv(v)'
    BY <1>1, <1>9, <2>1, <2>3, <2>4, <2>5 DEF ViewerInv, StartInv
  <2>9. HeaderInv(v)'
    <3>1. \A k \in 1 .. joinedAt[v] : k \in 1 .. n
      BY <1>6, <2>2
    <3>2. QED
      BY <1>1, <1>9, <2>1, <2>2, <3>1 DEF ViewerInv, HeaderInv, VideoHeaders
  <2>10. LocalInv(v)'
    <3>1. v \in local => phase[v] # "joining"
      BY <1>1 DEF Joining, In
    <3>2. Current' = Current
      BY <1>1, <1>5, <1>6, <1>7 DEF Current
    <3>3. QED
      BY <1>1, <2>1, <2>3, <2>4, <3>1, <3>2 DEF ViewerInv, LocalInv, LastIs
  <2>11. QED
    BY <2>6, <2>7, <2>8, <2>9, <2>10 DEF ViewerInv
<1>16. QED
  BY <1>11, <1>12, <1>13, <1>14, <1>15 DEF IInv

\* The viewers in the list get the packet under way, which is the newest.
LEMMA DispatchStep ==
    ASSUME IInv, Dispatch
    PROVE  IInv'
<1>1. /\ publisher = "dispatch" /\ publisher' = "idle" /\ ~raced
      /\ got' = [v \in Viewers |->
                    IF InList(v) THEN Append(got[v], Packet(Count)) ELSE got[v]]
      /\ UNCHANGED <<published, header, gop, consumers, raced, local, phase, next, joinedAt>>
  BY DEF Dispatch, viewerVars, Count
<1>2. TypeOK /\ Count \in 1 .. MaxPackets /\ Count' = Count
  <2>1. TypeOK /\ PublisherInv
    BY DEF IInv
  <2>2. Count' = Count
    BY <1>1 DEF Count
  <2>3. Count \in 0 .. MaxPackets
    BY <2>1 DEF TypeOK, Count
  <2>4. Count > 0
    BY <1>1, <2>1, <2>3 DEF PublisherInv
  <2>5. QED
    BY <2>1, <2>2, <2>3, <2>4
<1>3. Packet(Count) \in Items
  BY <1>2 DEF Packet, Items
<1>4. TypeOK'
  <2>1. got' \in [Viewers -> Seq(Items)]
    BY <1>1, <1>2, <1>3 DEF TypeOK
  <2>2. QED
    BY <1>1, <1>2, <2>1 DEF TypeOK
<1>5. CacheInv' /\ ListInv'
  BY <1>1, CacheSame, ListSame DEF IInv
<1>6. PublisherInv' /\ LoopInv'
  BY <1>1, <1>2 DEF IInv, PublisherInv, LoopInv, Joining, In
<1>7. ASSUME NEW v \in Viewers PROVE ViewerInv(v)'
  <2>1. ViewerInv(v) /\ (InList(v) <=> phase[v] = "in")
    BY DEF IInv, ListInv
  <2>2. CASE phase[v] # "in"
    <3>1. got'[v] = got[v]
      BY <1>1, <2>1, <2>2
    <3>2. ~ (v \in local /\ phase[v] \in {"joining", "in"})
      BY <1>1, <2>2 DEF IInv, LoopInv, Joining, In
    <3>3. QED
      BY <1>1, <1>2, <2>1, <3>1, <3>2, ViewerSame
  <2>3. CASE phase[v] = "in"
    <3> DEFINE L == Len(got[v])
    <3>1. got'[v] = Append(got[v], Packet(Count))
      BY <1>1, <2>1, <2>3
    <3>2. PICK n \in 1 .. MaxPackets : n = Count
      BY <1>2
    <3>3. /\ L \in Nat /\ DOMAIN got[v] = 1 .. L
          /\ Len(got'[v]) = L + 1 /\ DOMAIN got'[v] = 1 .. L + 1
          /\ \A i \in 1 .. L : got'[v][i] = got[v][i]
          /\ got'[v][L + 1].n = n
          /\ Packets(v)' = Packets(v) \cup {L + 1}
          /\ Packets(v) \subseteq 1 .. L
      BY <1>2, <3>1, <3>2, GivenOneMore
    <3>4. \A i \in Packets(v) : got[v][i].n <= n
      BY <2>1, <3>2 DEF ViewerInv, GivenInv
    <3>5. Packets(v) = {} => Keyframes(joinedAt[v]) = {}
      <4>1. Packets(v) = {} => joinedAt[v] = 0
        BY <1>2, <2>1, <2>3 DEF ViewerInv, StartInv, TypeOK
      <4>2. Keyframes(0) = {}
        BY DEF Keyframes
      <4>3. QED
        BY <4>1, <4>2
    <3>6. GivenInv(v)' /\ HeaderInv(v)' /\ StartInv(v)'
      BY <1>1, <1>2, <2>1, <2>3, <3>1, <3>2, <3>4, <3>5, OneMorePacket DEF ViewerInv
    <3>7. WalkInv(v)'
      BY <1>1, <2>3 DEF WalkInv
    <3>8. LocalInv(v)'
      <4> SUFFICES ASSUME v \in local, GopLength(joinedAt[v])' <= MaxGop
                   PROVE  /\ \A i \in Packets(v)' : i + 1 \in DOMAIN got'[v] =>
                                 got'[v][i + 1].n = got'[v][i].n + 1
                          /\ LastIs(v, Current)'
        BY <1>1 DEF LocalInv
      <4>1. GopLength(joinedAt[v]) <= MaxGop
        <5>1. Keyframes(joinedAt[v])' = Keyframes(joinedAt[v]) /\ joinedAt'[v] = joinedAt[v]
          BY <1>1 DEF Keyframes
        <5>2. GopLength(joinedAt[v])' = GopLength(joinedAt[v])
          BY <5>1 DEF GopLength, GopStart
        <5>3. QED
          BY <5>2
      <4>2. /\ \A i \in Packets(v) : i + 1 \in DOMAIN got[v] => got[v][i + 1].n = got[v][i].n + 1
            /\ LastIs(v, n - 1)
        BY <1>1, <2>1, <2>3, <3>2, <4>1 DEF ViewerInv, LocalInv, Current
      <4>3. ASSUME NEW i \in Packets(v)', i + 1 \in DOMAIN got'[v]
            PROVE  got'[v][i + 1].n = got'[v][i].n + 1
        <5>1. i \in Packets(v) /\ i \in 1 .. L
          BY <3>3, <4>3
        <5>2. CASE i + 1 \in 1 .. L
          BY <3>3, <4>2, <5>1, <5>2
        <5>3. CASE i = L
          <6>1. got[v][L].n = n - 1
            BY <4>2, <5>1, <5>3 DEF LastIs
          <6>2. QED
            BY <3>2, <3>3, <5>1, <5>3, <6>1
        <5>4. QED
          BY <3>3, <5>1, <5>2, <5>3
      <4>4. LastIs(v, Current)'
        <5>1. Current' = n /\ n # 0
          BY <1>1, <1>2, <3>2 DEF Current
        <5>2. LastIs(v, n)'
          BY <3>3, <5>1 DEF LastIs
        <5>3. QED
          BY <5>1, <5>2 DEF LastIs
      <4>5. QED
        BY <4>3, <4>4
    <3>9. QED
      BY <3>6, <3>7, <3>8 DEF ViewerInv
  <2>4. QED
    BY <2>2, <2>3
<1>8. QED
  BY <1>4, <1>5, <1>6, <1>7 DEF IInv

-----------------------------------------------------------------------------
(* The viewers' steps *)

\* A step of v leaves the other viewers alone.
LEMMA OthersSame ==
    ASSUME IInv, NEW v \in Viewers, UNCHANGED <<local, published, header, gop, publisher, raced>>,
           \A w \in Viewers \ {v} : /\ got'[w] = got[w] /\ phase'[w] = phase[w]
                                    /\ next'[w] = next[w] /\ joinedAt'[w] = joinedAt[w],
           ViewerInv(v)'
    PROVE  \A w \in Viewers : ViewerInv(w)'
<1>1. ASSUME NEW w \in Viewers, w # v PROVE ViewerInv(w)'
  <2>1. got'[w] = got[w] /\ phase'[w] = phase[w] /\ next'[w] = next[w] /\ joinedAt'[w] = joinedAt[w]
    BY <1>1
  <2>2. QED
    BY <2>1, ViewerSame DEF IInv
<1>2. QED
  BY <1>1

\* A viewer comes in with nothing.
LEMMA AddConsumerStep ==
    ASSUME IInv, NEW v \in Viewers, AddConsumer(v)
    PROVE  IInv'
<1>1. /\ ~raced /\ phase[v] = "out"
      /\ v \in local => publisher = "idle" /\ Joining \cap local = {}
      /\ phase' = [phase EXCEPT ![v] = "headers"]
      /\ joinedAt' = [joinedAt EXCEPT ![v] = Count]
      /\ UNCHANGED <<local, published, header, gop, publisher, consumers, got, next, raced>>
  BY DEF AddConsumer, ViewerMayCall, Listed, Count
<1>2. TypeOK /\ Count \in 0 .. MaxPackets /\ Count' = Count
  <2>1. TypeOK
    BY DEF IInv
  <2>2. Count' = Count
    BY <1>1 DEF Count
  <2>3. Count \in 0 .. MaxPackets
    BY <2>1 DEF TypeOK, Count
  <2>4. QED
    BY <2>1, <2>2, <2>3
<1>3. phase'[v] = "headers" /\ joinedAt'[v] = Count
      /\ \A w \in Viewers \ {v} : phase'[w] = phase[w] /\ joinedAt'[w] = joinedAt[w]
  BY <1>1, <1>2 DEF TypeOK
<1>4. TypeOK'
  BY <1>1, <1>2 DEF TypeOK, Phases
<1>5. CacheInv' /\ PublisherInv'
  BY <1>1, <1>2, CacheSame DEF IInv, PublisherInv
<1>6. ListInv'
  BY <1>1, <1>3 DEF IInv, ListInv, InList
<1>7. LoopInv'
  <2> SUFFICES ASSUME NEW w \in local' \cap Joining'
               PROVE  publisher' = "idle" /\ joinedAt'[w] = Count'
    BY DEF LoopInv
  <2>1. CASE w = v
    BY <1>1, <1>2, <1>3, <2>1
  <2>2. CASE w # v
    <3>1. w \in Viewers /\ phase'[w] = phase[w] /\ joinedAt'[w] = joinedAt[w]
      BY <1>3, <2>2 DEF Joining, In
    <3>2. w \in local \cap Joining
      BY <1>1, <3>1 DEF Joining, In
    <3>3. QED
      BY <1>1, <1>2, <3>1, <3>2 DEF IInv, LoopInv
  <2>3. QED
    BY <2>1, <2>2
<1>8. ViewerInv(v)'
  <2>1. got'[v] = <<>> /\ next'[v] = 1
    BY <1>1 DEF IInv, ViewerInv, GivenInv
  <2>2. Packets(v)' = {} /\ VideoHeaders(v)' = {}
    BY <2>1 DEF Packets, VideoHeaders
  <2>3. GivenInv(v)'
    BY <1>2, <1>3, <2>1, <2>2 DEF GivenInv
  <2>4. WalkInv(v)' /\ StartInv(v)' /\ HeaderInv(v)' /\ LocalInv(v)'
    BY <1>3, <2>2 DEF WalkInv, StartInv, HeaderInv, LocalInv
  <2>5. QED
    BY <2>3, <2>4 DEF ViewerInv
<1>9. QED
  BY <1>1, <1>3, <1>4, <1>5, <1>6, <1>7, <1>8, OthersSame DEF IInv

HeaderItems == [kind : HeaderKinds, n : 1 .. MaxHeaders]

LEMMA SeqOfSubset ==
    ASSUME NEW S, NEW T, S \subseteq T
    PROVE  \A s \in Seq(S) : s \in Seq(T)
OBVIOUS

\* One header of the kind, the stored one, or none.
LEMMA StoredType ==
    ASSUME TypeOK, NEW k \in HeaderKinds
    PROVE  /\ Stored(k) \in Seq(HeaderItems) /\ Len(Stored(k)) \in 0 .. 1
           /\ \A i \in 1 .. Len(Stored(k)) : Stored(k)[i].kind = k /\ Stored(k)[i].n = header[k]
<1>1. header[k] \in 0 .. MaxHeaders
  BY DEF TypeOK
<1>2. CASE header[k] = 0
  BY <1>2 DEF Stored
<1>3. CASE header[k] # 0
  <2>1. Header(k) \in HeaderItems
    BY <1>1, <1>3 DEF Header, HeaderItems
  <2>2. QED
    BY <1>3, <2>1 DEF Stored, Header
<1>4. QED
  BY <1>2, <1>3

\* Where in three sequences, one after the other, an item comes from.
LEMMA ThreeParts ==
    ASSUME NEW S, NEW a \in Seq(S), NEW b \in Seq(S), NEW c \in Seq(S),
           NEW j \in 1 .. Len(a \o b \o c)
    PROVE  \/ j \in 1 .. Len(a) /\ (a \o b \o c)[j] = a[j]
           \/ j - Len(a) \in 1 .. Len(b) /\ (a \o b \o c)[j] = b[j - Len(a)]
           \/ \E k \in 1 .. Len(c) : (a \o b \o c)[j] = c[k]
<1>1. PICK la \in Nat, lb \in Nat, lc \in Nat :
          la = Len(a) /\ lb = Len(b) /\ lc = Len(c)
  OBVIOUS
<1>2. /\ a \o b \in Seq(S) /\ Len(a \o b) = la + lb
      /\ \A i \in 1 .. la + lb : (a \o b)[i] = IF i <= la THEN a[i] ELSE b[i - la]
  BY <1>1, ConcatProperties
<1>3. /\ Len(a \o b \o c) = la + lb + lc
      /\ \A i \in 1 .. la + lb + lc :
            (a \o b \o c)[i] = IF i <= la + lb THEN (a \o b)[i] ELSE c[i - (la + lb)]
  BY <1>1, <1>2, ConcatProperties
<1>4. j \in 1 .. la + lb + lc
  BY <1>3
<1>5. CASE j <= la
  BY <1>1, <1>2, <1>3, <1>4, <1>5
<1>6. CASE la < j /\ j <= la + lb
  BY <1>1, <1>2, <1>3, <1>4, <1>6
<1>7. CASE la + lb < j
  <2>1. j - (la + lb) \in 1 .. lc /\ (a \o b \o c)[j] = c[j - (la + lb)]
    BY <1>3, <1>4, <1>7
  <2>2. QED
    BY <1>1, <2>1
<1>8. QED
  BY <1>1, <1>4, <1>5, <1>6, <1>7

\* The headers that are stored, the video header among them, and no packet.
LEMMA SendHeadersStep ==
    ASSUME IInv, NEW v \in Viewers, SendHeaders(v)
    PROVE  IInv'
<1> DEFINE a == Stored("metadata")
           b == Stored("videoHeader")
           c == Stored("audioHeader")
<1>1. /\ ~raced /\ phase[v] = "headers"
      /\ phase' = [phase EXCEPT ![v] = "cache"]
      /\ got' = [got EXCEPT ![v] = got[v] \o a \o b \o c]
      /\ UNCHANGED <<local, published, header, gop, publisher, consumers, next, joinedAt, raced>>
  BY DEF SendHeaders
<1>2. TypeOK /\ ViewerInv(v) /\ Count' = Count
  BY <1>1 DEF IInv, Count
<1>3. /\ a \in Seq(HeaderItems) /\ b \in Seq(HeaderItems) /\ c \in Seq(HeaderItems)
      /\ \A i \in 1 .. Len(a) : a[i].kind = "metadata"
      /\ Len(b) \in 0 .. 1 /\ \A i \in 1 .. Len(b) : b[i].n = header["videoHeader"]
      /\ \A i \in 1 .. Len(c) : c[i].kind = "audioHeader"
  BY <1>2, StoredType DEF HeaderKinds
<1>4. header["videoHeader"] \in 0 .. MaxHeaders
      /\ (header["videoHeader"] # 0 => b = <<Header("videoHeader")>>)
  BY <1>2 DEF TypeOK, HeaderKinds, Stored
<1> HIDE DEF a, b, c
<1>5. got[v] = <<>> /\ next[v] = 1
  BY <1>1, <1>2 DEF ViewerInv, GivenInv
<1>6. got'[v] = a \o b \o c /\ phase'[v] = "cache"
      /\ \A w \in Viewers \ {v} : got'[w] = got[w] /\ phase'[w] = phase[w]
  <2>1. <<>> \o a \o b \o c = a \o b \o c
    BY <1>3
  <2>2. QED
    BY <1>1, <1>2, <1>5, <2>1 DEF TypeOK
<1>7. a \o b \o c \in Seq(HeaderItems)
  BY <1>3
<1>8. \A i \in DOMAIN got'[v] : got'[v][i] \in HeaderItems
  BY <1>6, <1>7
<1>9. Packets(v)' = {}
  BY <1>8 DEF Packets, HeaderItems, HeaderKinds
<1>10. TypeOK'
  <2>1. \A s \in Seq(HeaderItems) : s \in Seq(Items)
    <3>1. HeaderItems \subseteq Items
      BY DEF Items, HeaderItems
    <3>2. QED
      BY <3>1, SeqOfSubset, Zenon
  <2>2. got' \in [Viewers -> Seq(Items)]
    <3>1. \A w \in Viewers : got'[w] \in Seq(Items)
      BY <1>2, <1>6, <1>7, <2>1 DEF TypeOK
    <3>2. got' = [w \in Viewers |-> got'[w]]
      BY <1>1, <1>2 DEF TypeOK
    <3>3. QED
      BY <3>1, <3>2
  <2>3. phase' \in [Viewers -> Phases]
    BY <1>1, <1>2 DEF TypeOK, Phases
  <2>4. QED
    BY <1>1, <1>2, <2>2, <2>3 DEF TypeOK
<1>11. CacheInv' /\ PublisherInv'
  BY <1>1, <1>2, CacheSame DEF IInv, PublisherInv
<1>12. ListInv'
  <2>1. \A w \in Viewers : phase'[w] = "in" <=> phase[w] = "in"
    BY <1>1, <1>6
  <2>2. QED
    BY <1>1, <2>1 DEF IInv, ListInv, InList
<1>13. LoopInv'
  <2>1. Joining' = Joining
    BY <1>1, <1>6 DEF Joining, In
  <2>2. QED
    BY <1>1, <1>2, <2>1 DEF IInv, LoopInv
<1>14. ViewerInv(v)'
  <2>1. GivenInv(v)'
    BY <1>1, <1>2, <1>6, <1>9 DEF ViewerInv, GivenInv
  <2>2. WalkInv(v)'
    <3>1. Len(gop) \in Nat
      BY <1>2 DEF TypeOK
    <3>2. QED
      BY <1>1, <1>5, <1>9, <3>1 DEF WalkInv, LastIs
  <2>3. StartInv(v)' /\ LocalInv(v)'
    BY <1>6, <1>9 DEF StartInv, LocalInv
  <2>4. HeaderInv(v)'
    <3>1. ASSUME NEW j \in VideoHeaders(v)'
          PROVE  j = Len(a) + 1 /\ got'[v][j].n = header["videoHeader"]
      <4>1. j \in 1 .. Len(a \o b \o c) /\ (a \o b \o c)[j].kind = "videoHeader"
        BY <1>6, <1>7, <3>1 DEF VideoHeaders
      <4>2. /\ ~ (j \in 1 .. Len(a) /\ (a \o b \o c)[j] = a[j])
            /\ ~ \E k \in 1 .. Len(c) : (a \o b \o c)[j] = c[k]
        BY <1>3, <4>1
      <4>3. j - Len(a) \in 1 .. Len(b) /\ (a \o b \o c)[j] = b[j - Len(a)]
        BY <1>3, <4>1, <4>2, ThreeParts
      <4>4. j - Len(a) = 1 /\ Len(a) \in Nat
        BY <1>3, <4>3
      <4>5. j = Len(a) + 1
        BY <4>1, <4>4
      <4>6. got'[v][j] = b[1] /\ 1 \in 1 .. Len(b)
        BY <1>6, <4>3, <4>4
      <4>7. b[1].n = header["videoHeader"]
        BY <1>3, <4>6
      <4>8. QED
        BY <4>5, <4>6, <4>7
    <3>2. ASSUME NEW n \in 1 .. joinedAt[v], published[n].header > 0
          PROVE  \E j \in VideoHeaders(v)' : got'[v][j].n >= published[n].header
      <4>1. n \in 1 .. Count
        BY <1>2 DEF ViewerInv, GivenInv, TypeOK, Count
      <4>2. published[n].header <= header["videoHeader"]
        BY <4>1 DEF IInv, PublisherInv
      <4>3. published[n].header \in Nat
        <5>1. published[n] \in PublishedPackets
          BY <1>2, <4>1, PacketAt DEF TypeOK
        <5>2. QED
          BY <5>1 DEF PublishedPackets
      <4>4. header["videoHeader"] # 0
        BY <1>4, <3>2, <4>2, <4>3
      <4>5. b = <<Header("videoHeader")>>
        BY <1>4, <4>4
      <4>6. Len(a) + 1 \in 1 .. Len(a \o b \o c)
            /\ (a \o b \o c)[Len(a) + 1] = Header("videoHeader")
        BY <1>3, <4>5
      <4>7. Len(a) + 1 \in DOMAIN got'[v] /\ got'[v][Len(a) + 1] = Header("videoHeader")
        BY <1>6, <1>7, <4>6
      <4>8. Len(a) + 1 \in VideoHeaders(v)'
        BY <4>7 DEF VideoHeaders, Header
      <4>9. QED
        BY <1>4, <4>2, <4>3, <4>7, <4>8 DEF Header
    <3>3. \A j \in VideoHeaders(v)' : got'[v][j].n <= header'["videoHeader"]
      <4>1. header'["videoHeader"] = header["videoHeader"]
        BY <1>1
      <4>2. header["videoHeader"] <= header["videoHeader"]
        BY <1>4
      <4>3. QED
        BY <3>1, <4>1, <4>2
    <3>4. \A j, k \in VideoHeaders(v)' : j = k
      BY <3>1
    <3>5. QED
      BY <1>1, <3>2, <3>3, <3>4 DEF HeaderInv
  <2>5. QED
    BY <2>1, <2>2, <2>3, <2>4 DEF ViewerInv
<1>15. QED
  BY <1>1, <1>6, <1>10, <1>11, <1>12, <1>13, <1>14, OthersSame DEF IInv

\* The cache holds packets that were published.
LEMMA CachedPackets ==
    ASSUME IInv, NEW i \in 1 .. Len(gop)
    PROVE  /\ Count > 0 /\ GopStart(Count) \in Nat
           /\ gop[i] = GopStart(Count) + i - 1 /\ gop[i] \in 1 .. Count
<1>1. TypeOK /\ Count \in Nat /\ DOMAIN gop = 1 .. Len(gop) /\ Len(gop) \in Nat
  BY DEF IInv, TypeOK, Count
<1>2. PICK n : n = Count
  OBVIOUS
<1>3. n \in Nat /\ HasLatest(n)
  BY <1>1, <1>2 DEF IInv, CacheInv
<1>4. /\ gop[i] = GopStart(n) + i - 1 /\ GopStart(n) \in Nat
      /\ Len(gop) = IF GopLength(n) < MaxGop THEN GopLength(n) ELSE MaxGop
  BY <1>1, <1>2, <1>3, GopLengthBounds DEF IInv, CacheInv
<1>5. n > 0
  <2>1. n = 0 => GopLength(n) = 0
    BY DEF GopLength
  <2>2. QED
    BY <1>1, <1>3, <1>4, <2>1
<1>6. GopLength(n) = n - GopStart(n) + 1 /\ i <= GopLength(n) /\ GopLength(n) \in Nat
  <2>1. GopLength(n) = n - GopStart(n) + 1 /\ GopLength(n) \in Nat
    BY <1>3, <1>5, GopLengthBounds
  <2>2. QED
    BY <1>1, <1>4, <2>1
<1>7. gop[i] \in 1 .. MaxPackets
  BY <1>1, SeqElement DEF TypeOK
<1>8. QED
  BY <1>2, <1>3, <1>4, <1>5, <1>6, <1>7

\* The next cached packet: it follows the one before it, the first is the keyframe.
LEMMA SendCachedStep ==
    ASSUME IInv, NEW v \in Viewers, SendCached(v)
    PROVE  IInv'
<1>1. /\ ~raced /\ phase[v] = "cache" /\ next[v] <= Len(gop)
      /\ got' = [got EXCEPT ![v] = Append(got[v], Packet(gop[next[v]]))]
      /\ next' = [next EXCEPT ![v] = next[v] + 1]
      /\ UNCHANGED <<local, published, header, gop, publisher, consumers, phase, joinedAt, raced>>
  BY DEF SendCached
<1>2. TypeOK /\ ViewerInv(v) /\ Count' = Count /\ Count \in 0 .. MaxPackets
  <2>1. TypeOK /\ ViewerInv(v)
    BY DEF IInv
  <2>2. published' = published
    BY <1>1
  <2>3. Count' = Count
    BY <2>2 DEF Count
  <2>4. Len(published) \in 0 .. MaxPackets
    BY <2>1 DEF TypeOK
  <2>5. QED
    BY <2>1, <2>3, <2>4 DEF Count
<1>3. next[v] \in Nat /\ next[v] > 0 /\ next[v] \in 1 .. Len(gop)
  BY <1>1, <1>2 DEF TypeOK
<1>4. PICK n : n = gop[next[v]]
  OBVIOUS
<1>5. n = GopStart(Count) + next[v] - 1 /\ n \in 1 .. Count /\ GopStart(Count) \in Nat /\ Count > 0
  BY <1>3, <1>4, CachedPackets
<1>6. n \in 1 .. MaxPackets
  BY <1>2, <1>5
<1>7. got'[v] = Append(got[v], Packet(n)) /\ next'[v] = next[v] + 1
      /\ \A w \in Viewers \ {v} : got'[w] = got[w] /\ next'[w] = next[w]
  BY <1>1, <1>2, <1>4 DEF TypeOK
<1> DEFINE L == Len(got[v])
<1>8. /\ L \in Nat /\ DOMAIN got[v] = 1 .. L
      /\ Len(got'[v]) = L + 1 /\ DOMAIN got'[v] = 1 .. L + 1
      /\ \A i \in 1 .. L : got'[v][i] = got[v][i]
      /\ got'[v][L + 1].n = n
      /\ Packets(v)' = Packets(v) \cup {L + 1}
      /\ Packets(v) \subseteq 1 .. L
  BY <1>2, <1>6, <1>7, GivenOneMore
<1> HIDE DEF L
<1>9. Packets(v) = {} \/ (next[v] # 1 /\ L \in Packets(v) /\ got[v][L].n = n - 1)
  <2>1. CASE next[v] = 1
    BY <1>1, <1>2, <2>1 DEF ViewerInv, WalkInv, LastIs
  <2>2. CASE next[v] # 1
    <3>1. next[v] - 1 \in 1 .. Len(gop)
      BY <1>3, <2>2
    <3>2. gop[next[v] - 1] = GopStart(Count) + (next[v] - 1) - 1 /\ gop[next[v] - 1] \in 1 .. Count
      BY <3>1, CachedPackets
    <3>3. LastIs(v, gop[next[v] - 1])
      BY <1>1, <1>2, <2>2 DEF ViewerInv, WalkInv
    <3>4. gop[next[v] - 1] # 0 /\ gop[next[v] - 1] = n - 1
      BY <1>3, <1>5, <3>2
    <3>5. QED
      BY <2>2, <3>3, <3>4 DEF LastIs, L
  <2>3. QED
    BY <2>1, <2>2
<1>10. \A i \in Packets(v) : got[v][i].n <= n
  <2> SUFFICES ASSUME NEW i \in Packets(v) PROVE got[v][i].n <= n
    OBVIOUS
  <2>1. L \in Packets(v) /\ got[v][L].n = n - 1 /\ i \in 1 .. L
    BY <1>8, <1>9
  <2>2. got[v][i].n \in 1 .. MaxPackets
    BY <1>2, PacketsType
  <2>3. CASE i = L
    BY <1>6, <2>1, <2>3
  <2>4. CASE i < L
    <3>1. got[v][i].n <= got[v][L].n
      BY <1>2, <2>1, <2>4 DEF ViewerInv, GivenInv
    <3>2. QED
      BY <1>6, <2>1, <2>2, <3>1
  <2>5. QED
    BY <1>8, <2>1, <2>3, <2>4
<1>11. Packets(v) = {} /\ Keyframes(joinedAt[v]) # {} => published[n].kind = "key"
  <2> SUFFICES ASSUME Packets(v) = {}, Keyframes(joinedAt[v]) # {}
               PROVE  published[n].kind = "key"
    OBVIOUS
  <2>1. next[v] = 1
    <3>1. CASE next[v] = 1
      BY <3>1
    <3>2. CASE next[v] # 1
      <4>1. next[v] - 1 \in 1 .. Len(gop)
        BY <1>3, <3>2
      <4>2. gop[next[v] - 1] \in 1 .. Count /\ LastIs(v, gop[next[v] - 1])
        BY <1>1, <1>2, <3>2, <4>1, CachedPackets DEF ViewerInv, WalkInv
      <4>3. QED
        BY <4>2 DEF LastIs
    <3>3. QED
      BY <3>1, <3>2
  <2>2. n = GopStart(Count)
    BY <1>5, <2>1
  <2>3. joinedAt[v] \in 0 .. Count
    BY <1>2 DEF ViewerInv, GivenInv, TypeOK
  <2>4. Keyframes(Count) # {}
    BY <1>2, <2>3 DEF Keyframes
  <2>5. PICK k : k = Count
    OBVIOUS
  <2>6. k \in Nat /\ HasLatest(k) /\ Keyframes(k) # {}
    BY <1>2, <2>4, <2>5 DEF IInv, CacheInv
  <2>7. GopStart(k) \in Keyframes(k)
    BY <2>6, GopStartIsLatest
  <2>8. QED
    BY <2>2, <2>5, <2>7 DEF Keyframes
<1>12. GivenInv(v)' /\ HeaderInv(v)' /\ StartInv(v)'
  <2>1. phase'[v] = phase[v] /\ joinedAt'[v] = joinedAt[v] /\ UNCHANGED <<published, header>>
        /\ phase[v] \notin {"out", "headers"}
    BY <1>1
  <2>2. n <= Count /\ GivenInv(v) /\ HeaderInv(v) /\ StartInv(v)
    BY <1>2, <1>5 DEF ViewerInv
  <2>3. QED
    BY <1>2, <1>6, <1>7, <1>10, <1>11, <2>1, <2>2, OneMorePacket
<1>13. WalkInv(v)'
  <2>1. next'[v] # 1 /\ next'[v] - 1 = next[v] /\ next'[v] <= Len(gop) + 1
    <3>1. Len(gop) \in Nat
      BY <1>2 DEF TypeOK
    <3>2. QED
      BY <1>3, <1>7, <3>1
  <2>2. gop'[next'[v] - 1] = n /\ n # 0
    <3>1. gop' = gop
      BY <1>1
    <3>2. gop'[next'[v] - 1] = n
      BY <1>4, <2>1, <3>1
    <3>3. n # 0
      BY <1>6
    <3>4. QED
      BY <3>2, <3>3
  <2>3. L + 1 \in Packets(v)' /\ got'[v][L + 1].n = n /\ Len(got'[v]) = L + 1
    BY <1>8
  <2>4. LastIs(v, n)'
    BY <2>2, <2>3 DEF LastIs
  <2>5. LastIs(v, IF next[v] = 1 THEN 0 ELSE gop[next[v] - 1])'
    BY <2>1, <2>2, <2>4 DEF LastIs
  <2>6. QED
    BY <1>1, <2>1, <2>5 DEF WalkInv
<1>14. LocalInv(v)'
  <2> SUFFICES ASSUME v \in local, GopLength(joinedAt[v])' <= MaxGop
               PROVE  \A i \in Packets(v)' : i + 1 \in DOMAIN got'[v] =>
                          got'[v][i + 1].n = got'[v][i].n + 1
    BY <1>1 DEF LocalInv
  <2>1. GopLength(joinedAt[v]) <= MaxGop
    <3>1. Keyframes(joinedAt[v])' = Keyframes(joinedAt[v]) /\ joinedAt'[v] = joinedAt[v]
      BY <1>1 DEF Keyframes
    <3>2. GopLength(joinedAt[v])' = GopLength(joinedAt[v])
      BY <3>1 DEF GopLength, GopStart
    <3>3. QED
      BY <3>2
  <2>2. \A i \in Packets(v) : i + 1 \in DOMAIN got[v] => got[v][i + 1].n = got[v][i].n + 1
    BY <1>2, <2>1 DEF ViewerInv, LocalInv
  <2>3. ASSUME NEW i \in Packets(v)', i + 1 \in DOMAIN got'[v]
        PROVE  got'[v][i + 1].n = got'[v][i].n + 1
    <3>1. i \in Packets(v) /\ i \in 1 .. L
      BY <1>8, <2>3
    <3>2. CASE i + 1 \in 1 .. L
      BY <1>8, <2>2, <3>1, <3>2
    <3>3. CASE i = L
      BY <1>6, <1>8, <1>9, <3>1, <3>3
    <3>4. QED
      BY <1>8, <3>1, <3>2, <3>3
  <2>4. QED
    BY <2>3
<1>15. TypeOK'
  <2>1. Packet(n) \in Items
    BY <1>6 DEF Packet, Items
  <2>2. Append(got[v], Packet(n)) \in Seq(Items)
    BY <1>2, <2>1 DEF TypeOK
  <2>3. got' \in [Viewers -> Seq(Items)]
    BY <1>1, <1>2, <1>4, <2>2 DEF TypeOK
  <2>4. next' \in [Viewers -> Nat \ {0}]
    BY SMTT(30), <1>1, <1>2, <1>3 DEF TypeOK
  <2>5. QED
    BY <1>1, <1>2, <2>3, <2>4 DEF TypeOK
<1>16. CacheInv' /\ PublisherInv' /\ ListInv' /\ LoopInv'
  BY <1>1, <1>2, CacheSame, ListSame, LoopSame DEF IInv, PublisherInv
<1>17. ViewerInv(v)'
  BY <1>12, <1>13, <1>14 DEF ViewerInv
<1>18. QED
  BY <1>1, <1>7, <1>15, <1>16, <1>17, OthersSame DEF IInv

\* The walk is over: a viewer of the publisher's loop has the newest packet, if the
\* cache held the whole group, and one that came to a stream has a packet.
LEMMA CacheSentStep ==
    ASSUME IInv, NEW v \in Viewers, CacheSent(v)
    PROVE  IInv'
<1>1. /\ ~raced /\ phase[v] = "cache" /\ next[v] > Len(gop)
      /\ phase' = [phase EXCEPT ![v] = "joining"]
      /\ UNCHANGED <<local, published, header, gop, publisher, consumers, got, next, joinedAt, raced>>
  BY DEF CacheSent
<1>2. TypeOK /\ ViewerInv(v) /\ Count' = Count /\ Count \in Nat
  <2>1. TypeOK /\ ViewerInv(v)
    BY DEF IInv
  <2>2. Count' = Count
    BY <1>1 DEF Count
  <2>3. Count \in Nat
    BY <2>1 DEF TypeOK, Count
  <2>4. QED
    BY <2>1, <2>2, <2>3
<1>3. phase'[v] = "joining" /\ \A w \in Viewers \ {v} : phase'[w] = phase[w]
  BY <1>1, <1>2 DEF TypeOK
<1>4. TypeOK'
  BY <1>1, <1>2 DEF TypeOK, Phases
<1>5. CacheInv' /\ PublisherInv'
  BY <1>1, <1>2, CacheSame DEF IInv, PublisherInv
<1>6. ListInv'
  BY <1>1, <1>3 DEF IInv, ListInv, InList
<1>7. LoopInv'
  <2>1. Joining' = Joining
    BY <1>1, <1>3 DEF Joining, In
  <2>2. QED
    BY <1>1, <1>2, <2>1 DEF IInv, LoopInv
<1>8. next[v] = Len(gop) + 1 /\ Len(gop) \in Nat
      /\ LastIs(v, IF Len(gop) = 0 THEN 0 ELSE gop[Len(gop)])
  <2>1. next[v] \in Nat /\ Len(gop) \in Nat /\ next[v] <= Len(gop) + 1
        /\ LastIs(v, IF next[v] = 1 THEN 0 ELSE gop[next[v] - 1])
    BY <1>1, <1>2 DEF ViewerInv, WalkInv, TypeOK
  <2>2. next[v] = Len(gop) + 1
    BY <1>1, <2>1
  <2>3. next[v] - 1 = Len(gop) /\ (next[v] = 1 <=> Len(gop) = 0)
    BY <2>1, <2>2
  <2>4. QED
    BY <2>1, <2>2, <2>3
<1>9. /\ Len(gop) = IF GopLength(Count) < MaxGop THEN GopLength(Count) ELSE MaxGop
      /\ GopLength(Count) \in Nat /\ (Count = 0 => GopLength(Count) = 0)
      /\ Count > 0 => GopLength(Count) > 0 /\ GopLength(Count) = Count - GopStart(Count) + 1
      /\ GopStart(Count) \in Nat
  <2>1. PICK n : n = Count
    OBVIOUS
  <2>2. n \in Nat /\ HasLatest(n)
    BY <1>2, <2>1 DEF IInv, CacheInv
  <2>3. /\ GopStart(n) \in Nat /\ GopLength(n) \in 0 .. n
        /\ n > 0 => GopLength(n) > 0 /\ GopLength(n) = n - GopStart(n) + 1
    BY <2>2, GopLengthBounds
  <2>4. n = 0 => GopLength(n) = 0
    BY DEF GopLength
  <2>5. Len(gop) = IF GopLength(n) < MaxGop THEN GopLength(n) ELSE MaxGop
    BY <2>1 DEF IInv, CacheInv
  <2>6. QED
    BY <2>1, <2>2, <2>3, <2>4, <2>5
<1>10. Packets(v)' = Packets(v) /\ Keyframes(joinedAt[v])' = Keyframes(joinedAt[v])
       /\ joinedAt'[v] = joinedAt[v]
  BY <1>1 DEF Packets, Keyframes
<1>11. GopLength(joinedAt[v])' = GopLength(joinedAt[v])
  BY <1>10 DEF GopLength, GopStart
<1>12. ViewerInv(v)'
  <2>1. GivenInv(v)'
    BY <1>1, <1>2, <1>3, <1>10 DEF ViewerInv, GivenInv
  <2>2. WalkInv(v)'
    BY <1>3 DEF WalkInv
  <2>3. StartInv(v)'
    <3>1. joinedAt[v] > 0 => Packets(v) # {}
      <4> SUFFICES ASSUME joinedAt[v] > 0 PROVE Packets(v) # {}
        OBVIOUS
      <4>1. Count > 0
        BY <1>2 DEF ViewerInv, GivenInv, TypeOK
      <4>2. Len(gop) \in 1 .. Len(gop)
        BY <1>8, <1>9, <4>1
      <4>3. gop[Len(gop)] \in 1 .. Count
        BY <4>2, CachedPackets
      <4>4. LastIs(v, gop[Len(gop)]) /\ gop[Len(gop)] # 0
        BY <1>8, <4>2, <4>3
      <4>5. QED
        BY <4>4 DEF LastIs
    <3>2. QED
      BY <1>1, <1>2, <1>10, <3>1 DEF ViewerInv, StartInv
  <2>4. HeaderInv(v)'
    BY <1>1, <1>2 DEF ViewerInv, HeaderInv, VideoHeaders
  <2>5. LocalInv(v)'
    <3> SUFFICES ASSUME v \in local, GopLength(joinedAt[v]) <= MaxGop
                 PROVE  /\ \A i \in Packets(v) : i + 1 \in DOMAIN got[v] =>
                               got[v][i + 1].n = got[v][i].n + 1
                        /\ LastIs(v, Current)'
      BY <1>1, <1>10, <1>11 DEF LocalInv
    <3>1. \A i \in Packets(v) : i + 1 \in DOMAIN got[v] => got[v][i + 1].n = got[v][i].n + 1
      BY <1>2 DEF ViewerInv, LocalInv
    <3>2. publisher = "idle" /\ joinedAt[v] = Count
      BY <1>1 DEF IInv, LoopInv, Joining, In
    <3>3. Current' = Count
      BY <1>1, <1>2, <3>2 DEF Current
    <3>4. Len(gop) = GopLength(Count)
      BY <1>9, <3>2
    <3>5. LastIs(v, Count)
      <4>1. CASE Count = 0
        BY <1>8, <1>9, <3>4, <4>1
      <4>2. CASE Count # 0
        <5>1. Len(gop) \in 1 .. Len(gop) /\ Len(gop) # 0
          BY <1>2, <1>8, <1>9, <3>4, <4>2
        <5>2. gop[Len(gop)] = GopStart(Count) + Len(gop) - 1
          BY <5>1, CachedPackets
        <5>3. gop[Len(gop)] = Count
          BY <1>2, <1>9, <3>4, <4>2, <5>2
        <5>4. QED
          BY <1>8, <5>1, <5>3
      <4>3. QED
        BY <4>1, <4>2
    <3>6. QED
      BY <1>1, <1>10, <3>1, <3>3, <3>5 DEF LastIs
  <2>6. QED
    BY <2>1, <2>2, <2>3, <2>4, <2>5 DEF ViewerInv
<1>13. QED
  BY <1>1, <1>3, <1>4, <1>5, <1>6, <1>7, <1>12, OthersSame DEF IInv

\* A viewer that is not in the list enters it.
LEMMA JoinStep ==
    ASSUME IInv, NEW v \in Viewers, Join(v)
    PROVE  IInv'
<1>1. /\ ~raced /\ phase[v] = "joining"
      /\ phase' = [phase EXCEPT ![v] = "in"]
      /\ consumers' = Append(consumers, v)
      /\ UNCHANGED <<local, published, header, gop, publisher, got, next, joinedAt, raced>>
  BY DEF Join, Listed
<1>2. TypeOK /\ ViewerInv(v) /\ Count' = Count
  BY <1>1 DEF IInv, Count
<1>3. phase'[v] = "in" /\ \A w \in Viewers \ {v} : phase'[w] = phase[w]
  BY <1>1, <1>2 DEF TypeOK
<1>4. TypeOK'
  BY <1>1, <1>2 DEF TypeOK, Phases
<1>5. CacheInv' /\ PublisherInv'
  BY <1>1, <1>2, CacheSame DEF IInv, PublisherInv
<1>6. ListInv'
  <2> DEFINE L == Len(consumers)
  <2>1. /\ L \in Nat /\ DOMAIN consumers = 1 .. L /\ DOMAIN consumers' = 1 .. L + 1
        /\ consumers'[L + 1] = v /\ \A i \in 1 .. L : consumers'[i] = consumers[i]
    BY <1>1, <1>2 DEF TypeOK
  <2> HIDE DEF L
  <2>2. \A i \in 1 .. L + 1 : i \in 1 .. L \/ i = L + 1
    BY <2>1
  <2>3. \A i \in 1 .. L : consumers[i] # v
    BY <1>1, <2>1 DEF IInv, ListInv, InList
  <2>4. ASSUME NEW w \in Viewers PROVE InList(w)' <=> phase'[w] = "in"
    <3>1. CASE w = v
      <4>1. L + 1 \in 1 .. L + 1
        BY <2>1
      <4>2. QED
        BY <1>3, <2>1, <3>1, <4>1 DEF InList
    <3>2. CASE w # v
      <4>1. InList(w)' <=> InList(w)
        BY <2>1, <2>2, <3>2 DEF InList
      <4>2. QED
        BY <1>3, <3>2, <4>1 DEF IInv, ListInv
    <3>3. QED
      BY <3>1, <3>2
  <2>5. ASSUME NEW i \in DOMAIN consumers', NEW j \in DOMAIN consumers', consumers'[i] = consumers'[j]
        PROVE  i = j
    BY <2>1, <2>2, <2>3, <2>5 DEF IInv, ListInv
  <2>6. QED
    BY <2>4, <2>5 DEF ListInv
<1>7. LoopInv'
  <2>1. Joining' \subseteq Joining
    BY <1>1, <1>3 DEF Joining, In
  <2>2. QED
    BY <1>1, <1>2, <2>1 DEF IInv, LoopInv
<1>8. Packets(v)' = Packets(v) /\ Keyframes(joinedAt[v])' = Keyframes(joinedAt[v])
       /\ joinedAt'[v] = joinedAt[v] /\ Current' = Current
  BY <1>1, <1>2 DEF Packets, Keyframes, Current
<1>9. GopLength(joinedAt[v])' = GopLength(joinedAt[v])
  BY <1>8 DEF GopLength, GopStart
<1>10. ViewerInv(v)'
  <2>1. GivenInv(v)'
    BY <1>1, <1>2, <1>3, <1>8 DEF ViewerInv, GivenInv
  <2>2. WalkInv(v)'
    BY <1>3 DEF WalkInv
  <2>3. StartInv(v)'
    BY <1>1, <1>2, <1>8 DEF ViewerInv, StartInv
  <2>4. HeaderInv(v)'
    BY <1>1, <1>2 DEF ViewerInv, HeaderInv, VideoHeaders
  <2>5. LocalInv(v)'
    BY <1>1, <1>2, <1>8, <1>9 DEF ViewerInv, LocalInv, LastIs
  <2>6. QED
    BY <2>1, <2>2, <2>3, <2>4, <2>5 DEF ViewerInv
<1>11. QED
  BY <1>1, <1>3, <1>4, <1>5, <1>6, <1>7, <1>10, OthersSame DEF IInv

\* Erasing position k: the positions before it stay, those after it move down.
LEMMA WithoutPositions ==
    ASSUME TypeOK, NEW k \in DOMAIN consumers
    PROVE  LET L == Len(consumers)
           IN  /\ L \in Nat /\ DOMAIN consumers = 1 .. L /\ k \in 1 .. L
               /\ Without(k) \in Seq(Viewers) /\ DOMAIN Without(k) = 1 .. L - 1
               /\ \A i \in 1 .. L - 1 :
                      Without(k)[i] = consumers[IF i < k THEN i ELSE i + 1]
<1> DEFINE L == Len(consumers)
           a == SubSeq(consumers, 1, k - 1)
           b == SubSeq(consumers, k + 1, L)
<1>1. consumers \in Seq(Viewers) /\ L \in Nat /\ DOMAIN consumers = 1 .. L /\ k \in 1 .. L
  BY SMTT(30) DEF TypeOK
<1>2. a \in Seq(Viewers) /\ Len(a) = k - 1 /\ \A i \in 1 .. k - 1 : a[i] = consumers[i]
  BY <1>1
<1>3. b \in Seq(Viewers) /\ Len(b) = L - k /\ \A i \in 1 .. L - k : b[i] = consumers[k + i]
  BY <1>1
<1>4. Without(k) = a \o b
  BY DEF Without, RemoveAt
<1> HIDE DEF a, b, L
<1>5. /\ a \o b \in Seq(Viewers) /\ Len(a \o b) = L - 1
      /\ \A i \in 1 .. L - 1 : (a \o b)[i] = IF i <= k - 1 THEN a[i] ELSE b[i - (k - 1)]
  <2>1. /\ a \o b \in Seq(Viewers) /\ Len(a \o b) = Len(a) + Len(b)
        /\ \A i \in 1 .. Len(a) + Len(b) :
              (a \o b)[i] = IF i <= Len(a) THEN a[i] ELSE b[i - Len(a)]
    BY <1>2, <1>3, ConcatProperties
  <2>2. Len(a) + Len(b) = L - 1
    BY <1>1, <1>2, <1>3
  <2>3. QED
    BY <1>2, <2>1, <2>2
<1>6. ASSUME NEW i \in 1 .. L - 1
      PROVE  (a \o b)[i] = consumers[IF i < k THEN i ELSE i + 1]
  <2>1. CASE i < k
    <3>1. i \in 1 .. k - 1
      BY <1>1, <2>1
    <3>2. QED
      BY <1>1, <1>2, <1>5, <2>1, <3>1
  <2>2. CASE ~ (i < k)
    <3>1. (a \o b)[i] = b[i - (k - 1)]
      BY <1>1, <1>5, <2>2
    <3>2. i - (k - 1) \in 1 .. L - k /\ k + (i - (k - 1)) = i + 1
      BY <1>1, <2>2
    <3>3. QED
      BY <1>3, <2>2, <3>1, <3>2
  <2>3. QED
    BY <2>1, <2>2
<1>7. DOMAIN (a \o b) = 1 .. L - 1
  BY <1>5
<1>8. QED
  BY <1>1, <1>4, <1>5, <1>6, <1>7 DEF L

\* A viewer in the list leaves it, and the others stay.
LEMMA RemoveConsumerStep ==
    ASSUME IInv, NEW v \in Viewers, RemoveConsumer(v)
    PROVE  IInv'
<1>1. /\ ~raced /\ phase[v] = "in"
      /\ phase' = [phase EXCEPT ![v] = "gone"]
      /\ UNCHANGED <<local, published, header, gop, publisher, got, next, joinedAt, raced>>
  BY DEF RemoveConsumer, ViewerMayCall
<1>2. PICK k \in DOMAIN consumers : consumers[k] = v /\ consumers' = Without(k)
  BY DEF RemoveConsumer
<1>3. TypeOK /\ ViewerInv(v) /\ Count' = Count
  BY <1>1 DEF IInv, Count
<1>4. phase'[v] = "gone" /\ \A w \in Viewers \ {v} : phase'[w] = phase[w]
  BY <1>1, <1>3 DEF TypeOK
<1> DEFINE L == Len(consumers)
<1>5. /\ L \in Nat /\ DOMAIN consumers = 1 .. L /\ k \in 1 .. L
      /\ consumers' \in Seq(Viewers) /\ DOMAIN consumers' = 1 .. L - 1
      /\ \A i \in 1 .. L - 1 : consumers'[i] = consumers[IF i < k THEN i ELSE i + 1]
  BY <1>2, <1>3, WithoutPositions
<1> HIDE DEF L
<1>6. TypeOK'
  BY <1>1, <1>3, <1>5 DEF TypeOK, Phases
<1>7. CacheInv' /\ PublisherInv'
  BY <1>1, <1>3, CacheSame DEF IInv, PublisherInv
<1>8. ListInv'
  <2>1. \A i, j \in 1 .. L : consumers[i] = consumers[j] => i = j
    BY <1>5 DEF IInv, ListInv
  <2>2. ASSUME NEW i \in 1 .. L - 1
        PROVE  \E m \in 1 .. L : m # k /\ consumers'[i] = consumers[m]
    <3>1. (IF i < k THEN i ELSE i + 1) \in 1 .. L /\ (IF i < k THEN i ELSE i + 1) # k
      BY <1>5
    <3>2. QED
      BY <1>5, <3>1
  <2>3. ASSUME NEW m \in 1 .. L, m # k
        PROVE  \E i \in 1 .. L - 1 : consumers'[i] = consumers[m]
    <3>1. CASE m < k
      <4>1. m \in 1 .. L - 1
        BY <1>5, <3>1
      <4>2. QED
        BY <1>5, <3>1, <4>1
    <3>2. CASE m > k
      <4>1. m - 1 \in 1 .. L - 1 /\ ~ (m - 1 < k) /\ (m - 1) + 1 = m
        BY <1>5, <3>2
      <4>2. consumers'[m - 1] = consumers[m]
        BY <1>5, <4>1
      <4>3. QED
        BY <4>1, <4>2
    <3>3. QED
      BY <1>5, <2>3, <3>1, <3>2
  <2>4. ASSUME NEW w \in Viewers PROVE InList(w)' <=> phase'[w] = "in"
    <3>1. CASE w = v
      <4>1. ~ InList(w)'
        BY <1>2, <1>5, <2>1, <2>2, <3>1 DEF InList
      <4>2. QED
        BY <1>4, <3>1, <4>1
    <3>2. CASE w # v
      <4>1. InList(w) <=> \E m \in 1 .. L : m # k /\ consumers[m] = w
        BY <1>2, <1>5, <3>2 DEF InList
      <4>2. InList(w)' <=> \E i \in 1 .. L - 1 : consumers'[i] = w
        BY <1>5 DEF InList
      <4>3. InList(w)' <=> InList(w)
        BY <2>2, <2>3, <4>1, <4>2
      <4>4. QED
        BY <1>4, <3>2, <4>3 DEF IInv, ListInv
    <3>3. QED
      BY <3>1, <3>2
  <2>5. ASSUME NEW i \in 1 .. L - 1, NEW j \in 1 .. L - 1, consumers'[i] = consumers'[j]
        PROVE  i = j
    <3>1. /\ (IF i < k THEN i ELSE i + 1) \in 1 .. L
          /\ (IF j < k THEN j ELSE j + 1) \in 1 .. L
      BY <1>5
    <3>2. (IF i < k THEN i ELSE i + 1) = (IF j < k THEN j ELSE j + 1)
      BY <1>5, <2>1, <2>5, <3>1
    <3>3. QED
      BY <1>5, <3>2
  <2>6. QED
    BY <1>5, <2>4, <2>5 DEF ListInv
<1>9. LoopInv'
  <2>1. Joining' \subseteq Joining
    BY <1>1, <1>4 DEF Joining, In
  <2>2. QED
    BY <1>1, <1>3, <2>1 DEF IInv, LoopInv
<1>10. Packets(v)' = Packets(v) /\ Keyframes(joinedAt[v])' = Keyframes(joinedAt[v])
       /\ joinedAt'[v] = joinedAt[v]
  BY <1>1 DEF Packets, Keyframes
<1>11. GopLength(joinedAt[v])' = GopLength(joinedAt[v])
  BY <1>10 DEF GopLength, GopStart
<1>12. ViewerInv(v)'
  <2>1. GivenInv(v)'
    BY <1>1, <1>3, <1>4, <1>10 DEF ViewerInv, GivenInv
  <2>2. WalkInv(v)'
    BY <1>4 DEF WalkInv
  <2>3. StartInv(v)'
    BY <1>1, <1>3, <1>10 DEF ViewerInv, StartInv
  <2>4. HeaderInv(v)'
    BY <1>1, <1>3 DEF ViewerInv, HeaderInv, VideoHeaders
  <2>5. LocalInv(v)'
    BY <1>1, <1>3, <1>4, <1>10, <1>11 DEF ViewerInv, LocalInv
  <2>6. QED
    BY <2>1, <2>2, <2>3, <2>4, <2>5 DEF ViewerInv
<1>13. QED
  BY <1>1, <1>4, <1>6, <1>7, <1>8, <1>9, <1>12, OthersSame DEF IInv

-----------------------------------------------------------------------------
(* The specification *)

LEMMA NextKeepsIInv == IInv /\ [Next]_vars => IInv'
<1> SUFFICES ASSUME IInv, [Next]_vars PROVE IInv'
  OBVIOUS
<1>1. CASE \E k \in SentHeaders : SetHeader(k)
  BY <1>1, SetHeaderStep
<1>2. CASE \E kind \in PacketKinds : OnPacket(kind)
  BY <1>2, OnPacketStep
<1>3. CASE Dispatch
  BY <1>3, DispatchStep
<1>4. CASE \E v \in Viewers : \/ AddConsumer(v) \/ SendHeaders(v) \/ SendCached(v)
                              \/ CacheSent(v) \/ Join(v) \/ RemoveConsumer(v)
  <2>1. PICK v \in Viewers : \/ AddConsumer(v) \/ SendHeaders(v) \/ SendCached(v)
                             \/ CacheSent(v) \/ Join(v) \/ RemoveConsumer(v)
    BY <1>4
  <2>2. CASE AddConsumer(v)
    BY <2>2, AddConsumerStep
  <2>3. CASE SendHeaders(v)
    BY <2>3, SendHeadersStep
  <2>4. CASE SendCached(v)
    BY <2>4, SendCachedStep
  <2>5. CASE CacheSent(v)
    BY <2>5, CacheSentStep
  <2>6. CASE Join(v)
    BY <2>6, JoinStep
  <2>7. CASE RemoveConsumer(v)
    BY <2>7, RemoveConsumerStep
  <2>8. QED
    BY <2>1, <2>2, <2>3, <2>4, <2>5, <2>6, <2>7
<1>5. CASE UNCHANGED vars
  <2>1. UNCHANGED <<local, published, header, gop, publisher, consumers, phase, next, got, joinedAt, raced>>
    BY <1>5 DEF vars
  <2>2. TypeOK' /\ CacheInv' /\ PublisherInv' /\ ListInv' /\ LoopInv'
    BY <2>1, CacheSame, ListSame, LoopSame DEF IInv, TypeOK, PublisherInv, Count
  <2>3. \A v \in Viewers : ViewerInv(v)'
    BY <2>1, ViewerSame DEF IInv
  <2>4. QED
    BY <2>2, <2>3 DEF IInv
<1>6. QED
  BY <1>1, <1>2, <1>3, <1>4, <1>5 DEF Next

LEMMA Invariance == Spec => []IInv
BY InitIInv, NextKeepsIInv, PTL DEF Spec

\* The state of the stream and of its viewers is well formed, whatever is published,
\* joins and leaves.
THEOREM TypeCorrect == Spec => []TypeOK
<1>1. IInv => TypeOK
  BY DEF IInv
<1>2. QED
  BY <1>1, Invariance, PTL

\* The cache is the run of packets that begins at the latest keyframe, as much of it
\* as fits, for any size of the cache.
THEOREM GroupIsCached == Spec => []GopFromLatestKeyframe
<1>1. IInv => GopFromLatestKeyframe
  <2> SUFFICES ASSUME IInv PROVE GopFromLatestKeyframe
    OBVIOUS
  <2>1. gop \in Seq(1 .. MaxPackets) /\ Len(gop) \in Nat /\ DOMAIN gop = 1 .. Len(gop)
    BY DEF IInv, TypeOK
  <2>2. \A i \in 1 .. Len(gop) : gop[i] = GopStart(Count) + i - 1 /\ GopStart(Count) \in Nat
    BY CachedPackets
  <2>3. Sequel(gop)
    <3>1. ASSUME NEW i \in 1 .. Len(gop) - 1 PROVE gop[i + 1] = gop[i] + 1
      <4>1. i \in 1 .. Len(gop) /\ i + 1 \in 1 .. Len(gop)
        BY <2>1
      <4>2. QED
        BY <2>2, <4>1
    <3>2. QED
      BY <3>1 DEF Sequel
  <2>4. gop # <<>> => Head(gop) = GopStart(Count)
    <3>1. gop # <<>> => 1 \in 1 .. Len(gop) /\ Head(gop) = gop[1]
      BY <2>1
    <3>2. QED
      BY <2>2, <3>1
  <2>5. QED
    BY <2>3, <2>4 DEF IInv, CacheInv, GopFromLatestKeyframe, Count
<1>2. QED
  BY <1>1, Invariance, PTL

\* A viewer on the publisher's event loop gets the cached group and then every live
\* packet, once each, for any number of viewers on any loops.
THEOREM LocalUnbroken == Spec => []LocalViewerUnbroken
<1>1. IInv => LocalViewerUnbroken
  <2> SUFFICES ASSUME IInv, NEW v \in local, GopLength(joinedAt[v]) <= MaxGop
               PROVE  Unbroken(v)
    BY DEF LocalViewerUnbroken
  <2>1. v \in Viewers /\ TypeOK
    BY DEF IInv, TypeOK
  <2>2. ViewerInv(v)
    BY <2>1 DEF IInv
  <2>3. DOMAIN got[v] = 1 .. Len(got[v]) /\ Len(got[v]) \in Nat /\ Packets(v) \subseteq 1 .. Len(got[v])
    BY <2>1 DEF TypeOK, Packets
  <2>4. ASSUME NEW i \in Packets(v), NEW j \in Packets(v), Adjacent(v, i, j)
        PROVE  got[v][j].n = got[v][i].n + 1
    <3>1. i < j /\ i + 1 \in 1 .. Len(got[v]) /\ i < i + 1
      BY <2>3, <2>4 DEF Adjacent
    <3>2. i + 1 \in Packets(v)
      BY <2>2, <2>3, <3>1 DEF ViewerInv, GivenInv
    <3>3. i + 1 = j
      <4>1. i + 1 <= i \/ j <= i + 1
        BY <2>4, <3>2 DEF Adjacent
      <4>2. QED
        BY <2>3, <3>1, <4>1
    <3>4. QED
      BY <2>2, <2>3, <3>1, <3>3 DEF ViewerInv, LocalInv
  <2>5. ASSUME phase[v] = "in", publisher = "idle", published # <<>>
        PROVE  \E i \in Packets(v) :
                   got[v][i].n = Count /\ \A j \in Packets(v) : j <= i
    <3>1. Current = Count /\ Count # 0
      BY <2>1, <2>5 DEF Current, Count, TypeOK
    <3>2. LastIs(v, Count)
      BY <2>2, <2>5, <3>1 DEF ViewerInv, LocalInv
    <3>3. QED
      BY <2>3, <3>1, <3>2 DEF LastIs
  <2>6. QED
    BY <2>4, <2>5 DEF Unbroken, Count
<1>2. QED
  BY <1>1, Invariance, PTL

\* The first packet a viewer gets is a keyframe, on whatever loop it is, up to the
\* first data race.
THEOREM StartsAtKeyframe == Spec => []ViewerStartsAtKeyframe
<1>1. IInv => ViewerStartsAtKeyframe
  BY DEF IInv, ViewerInv, StartInv, ViewerStartsAtKeyframe
<1>2. QED
  BY <1>1, Invariance, PTL

\* No viewer gets an older packet after a newer one, on whatever loop it is, up to the
\* first data race.
THEOREM InOrder == Spec => []ViewerInOrder
<1>1. IInv => ViewerInOrder
  BY DEF IInv, ViewerInv, GivenInv, ViewerInOrder
<1>2. QED
  BY <1>1, Invariance, PTL

\* A viewer can decode a keyframe that SendGopCache gives it, while that keyframe's
\* video header is the stored one: the latest video header it was given before the
\* keyframe is exactly that one.
THEOREM KeyframesDecodable == Spec => []StoredHeaderKeyframesDecodable
<1>1. IInv => StoredHeaderKeyframesDecodable
  <2> SUFFICES ASSUME IInv, NEW v \in Viewers, NEW i \in CachedKeyframes(v),
                      NeededHeader(v, i) = header["videoHeader"]
               PROVE  Decodable(v, i)
    BY DEF StoredHeaderKeyframesDecodable
  <2>1. PICK n : n = got[v][i].n
    OBVIOUS
  <2>2. TypeOK /\ ViewerInv(v) /\ i \in Packets(v) /\ n <= joinedAt[v]
        /\ published[n].header > 0 /\ published[n].header = header["videoHeader"]
    BY <2>1 DEF IInv, CachedKeyframes, NeededHeader
  <2>3. i \in 1 .. Len(got[v]) /\ DOMAIN got[v] = 1 .. Len(got[v]) /\ Len(got[v]) \in Nat
    BY <2>2, PacketsType DEF TypeOK
  <2>4. n \in 1 .. joinedAt[v]
    BY <2>1, <2>2, PacketsType DEF TypeOK
  <2>5. phase[v] \notin {"out", "headers"}
    BY <2>2, <2>3 DEF ViewerInv, GivenInv
  <2>6. PICK j \in VideoHeaders(v) : got[v][j].n >= published[n].header
    BY <2>2, <2>4, <2>5 DEF ViewerInv, HeaderInv
  <2>7. got[v][j].n = header["videoHeader"]
    <3>1. header["videoHeader"] \in Nat
      BY <2>2 DEF TypeOK, HeaderKinds
    <3>2. got[v][j].n <= header["videoHeader"]
      BY <2>2 DEF ViewerInv, HeaderInv
    <3>3. QED
      BY <2>2, <2>6, <3>1, <3>2, VideoHeaderType
  <2>8. j \notin Packets(v) /\ j \in DOMAIN got[v] /\ got[v][j].kind = "videoHeader"
    BY DEF Packets, VideoHeaders
  <2>9. j \in 1 .. i - 1
    <3>1. ~ (i < j) /\ i # j
      BY <2>2, <2>3, <2>8 DEF ViewerInv, GivenInv
    <3>2. QED
      BY <2>3, <2>8, <3>1
  <2>10. got[v][j] = [kind |-> "videoHeader", n |-> NeededHeader(v, i)]
    <3>1. got[v][j] \in Items
      BY <2>2, <2>8 DEF TypeOK
    <3>2. got[v][j] = [kind |-> got[v][j].kind, n |-> got[v][j].n]
      BY <3>1 DEF Items
    <3>3. QED
      BY <2>7, <2>8, <3>2
  <2>11. ASSUME NEW k \in j + 1 .. i - 1 PROVE got[v][k].kind # "videoHeader"
    <3>1. k \in DOMAIN got[v] /\ k # j
      BY <2>3, <2>9
    <3>2. QED
      BY <2>2, <3>1 DEF ViewerInv, HeaderInv, VideoHeaders
  <2>12. QED
    BY <2>9, <2>10, <2>11 DEF Decodable
<1>2. QED
  BY <1>1, Invariance, PTL

\* Nothing is given to a viewer after RemoveConsumer has returned.
THEOREM NothingAfterRemove == Spec => NoDeliveryAfterRemove
<1> DEFINE A == \A v \in Viewers : phase[v] = "gone" => got'[v] = got[v]
<1>1. IInv /\ [Next]_vars => [A]_vars
  <2> SUFFICES ASSUME IInv, Next, NEW v \in Viewers, phase[v] = "gone"
               PROVE  got'[v] = got[v]
    OBVIOUS
  <2>1. ~ InList(v) /\ got \in [Viewers -> Seq(Items)]
    BY DEF IInv, ListInv, TypeOK
  <2>2. CASE Dispatch
    BY <2>1, <2>2 DEF Dispatch
  <2>3. ASSUME NEW w \in Viewers, SendHeaders(w) PROVE got'[v] = got[v]
    BY <2>1, <2>3 DEF SendHeaders
  <2>4. ASSUME NEW w \in Viewers, SendCached(w) PROVE got'[v] = got[v]
    BY <2>1, <2>4 DEF SendCached
  <2>5. CASE UNCHANGED got
    BY <2>5
  <2>6. QED
    BY <2>2, <2>3, <2>4, <2>5
       DEF Next, SetHeader, OnPacket, AddConsumer, CacheSent, Join, RemoveConsumer
<1>2. QED
  BY <1>1, Invariance, PTL DEF Spec, NoDeliveryAfterRemove
=============================================================================
