----------------------------- MODULE MediaSource -----------------------------
(***************************************************************************)
(* One published stream and its viewers (media/base/MediaSource.cpp), used *)
(* as MediaSourceMgr.h shows: the publisher calls SetMetaData,             *)
(* SetVideoHeader, SetAudioHeader, OnAudio and OnVideo, a viewer calls     *)
(* AddConsumer and later RemoveConsumer, each on the event loop that its   *)
(* connection was given.  The `local' viewers were given the publisher's.  *)
(*                                                                         *)
(* m_mutex guards m_consumers only.  A call is split where another thread  *)
(* may come in: OnAudio and OnVideo between the cache and dispatch,        *)
(* AddConsumer within SendGopCache and before the lock.  Changing a header *)
(* while SendGopCache reads the headers, or the cache while it walks the   *)
(* cache, is undefined behaviour: `raced' records it and the model stops.  *)
(*                                                                         *)
(* A packet is its position in the published stream; a header is its kind  *)
(* and version.                                                            *)
(***************************************************************************)
EXTENDS Integers, Sequences, FiniteSets, SequencesExt

CONSTANTS
    Viewers,
    MaxGop,        \* kMaxGopCacheSize
    MaxPackets,    \* bound on the published packets
    SentHeaders,   \* the kinds of header the publisher sets
    MaxHeaders     \* bound on the versions of each header

HeaderKinds == {"metadata", "videoHeader", "audioHeader"}
PacketKinds == {"key", "inter", "audio"}

ASSUME MediaSourceAssumption ==
    /\ SentHeaders \subseteq HeaderKinds
    /\ MaxGop \in Nat \ {0}
    /\ MaxPackets \in Nat /\ MaxHeaders \in Nat

VARIABLES
    local,       \* the viewers on the publisher's event loop
    published,   \* ghost: the packets given to OnAudio and OnVideo, in order
    header,      \* the version of each stored header, 0 when there is none
    gop,         \* m_gop_cache: positions in published
    publisher,   \* "idle", or "dispatch" between the cache and dispatch
    consumers,   \* m_consumers
    phase,       \* per viewer: where it is, see Phases
    next,        \* per viewer: the index of the cached packet to send next
    got,         \* per viewer: what OnPacket was called with, in order
    joinedAt,    \* ghost, per viewer: how much was published at AddConsumer
    raced        \* two threads touched the cache or a header at once

vars == <<local, published, header, gop, publisher, consumers, phase, next, got, joinedAt, raced>>
viewerVars == <<local, phase, next, joinedAt>>

Packet(n) == [kind |-> "packet", n |-> n]
Header(k) == [kind |-> k, n |-> header[k]]

Init ==
    /\ local \in SUBSET Viewers
    /\ published = <<>>
    /\ header = [k \in HeaderKinds |-> 0]
    /\ gop = <<>>
    /\ publisher = "idle"
    /\ consumers = <<>>
    /\ phase = [v \in Viewers |-> "out"]
    /\ next = [v \in Viewers |-> 1]
    /\ got = [v \in Viewers |-> <<>>]
    /\ joinedAt = [v \in Viewers |-> 0]
    /\ raced = FALSE

\* A viewer is outside, in AddConsumer (reading the headers, walking the cache, or
\* about to take the lock), in the list, or has been removed from it.
Phases == {"out", "headers", "cache", "joining", "in", "gone"}
In(p) == {v \in Viewers : phase[v] = p}
Joining == In("headers") \cup In("cache") \cup In("joining")

\* On one event loop a call runs to its end before the next begins.
PublisherMayCall == ~raced /\ publisher = "idle" /\ Joining \cap local = {}
ViewerMayCall(v) ==
    ~raced /\ (v \in local => publisher = "idle" /\ Joining \cap local = {})

-----------------------------------------------------------------------------
(* The publisher *)

\* SetMetaData, SetVideoHeader, SetAudioHeader: the header is stored, no viewer
\* that is already there is told.
SetHeader(k) ==
    /\ PublisherMayCall
    /\ header[k] < MaxHeaders
    /\ header' = [header EXCEPT ![k] = @ + 1]
    /\ raced' = (In("headers") # {})
    /\ UNCHANGED <<published, gop, publisher, consumers, got, viewerVars>>

\* Mutant: the cache has no limit.
Cached_Unbounded(kind, n) == Append(IF kind = "key" THEN <<>> ELSE gop, n)

\* Mutant: a keyframe does not clear the cache.
Cached_NoClear(kind, n) ==
    IF Len(gop) < MaxGop THEN Append(gop, n) ELSE gop

\* Mutant: audio is not cached.
Cached_NoAudio(kind, n) ==
    LET kept == IF kind = "key" THEN <<>> ELSE gop
    IN  IF Len(kept) < MaxGop /\ kind # "audio" THEN Append(kept, n) ELSE kept

\* The cache after packet n: a keyframe clears it, a full one takes nothing.
Cached(kind, n) ==
    LET kept == IF kind = "key" THEN <<>> ELSE gop
    IN  IF Len(kept) < MaxGop THEN Append(kept, n) ELSE kept

\* OnAudio and OnVideo up to dispatch.
OnPacket(kind) ==
    /\ PublisherMayCall
    /\ Len(published) < MaxPackets
    /\ published' = Append(published, [kind |-> kind, header |-> header["videoHeader"]])
    /\ gop' = Cached(kind, Len(published) + 1)
    /\ publisher' = "dispatch"
    /\ raced' = (In("cache") # {})
    /\ UNCHANGED <<header, consumers, got, viewerVars>>

InList(v) == \E i \in DOMAIN consumers : consumers[i] = v

\* dispatch, under the lock.
Dispatch ==
    /\ ~raced
    /\ publisher = "dispatch"
    /\ publisher' = "idle"
    /\ got' = [v \in Viewers |->
                  IF InList(v) THEN Append(got[v], Packet(Len(published))) ELSE got[v]]
    /\ UNCHANGED <<published, header, gop, consumers, raced, viewerVars>>

-----------------------------------------------------------------------------
(* A viewer *)

Stored(k) == IF header[k] = 0 THEN <<>> ELSE <<Header(k)>>

\* Mutant: the viewer enters the list before SendGopCache, not after it.
Listed_First(v, at) == IF at = "start" THEN Append(consumers, v) ELSE consumers

\* The list at the start and at the end of AddConsumer.
Listed(v, at) == IF at = "end" THEN Append(consumers, v) ELSE consumers

\* AddConsumer calls SendGopCache before it takes the lock.
AddConsumer(v) ==
    /\ ViewerMayCall(v)
    /\ phase[v] = "out"
    /\ phase' = [phase EXCEPT ![v] = "headers"]
    /\ joinedAt' = [joinedAt EXCEPT ![v] = Len(published)]
    /\ consumers' = Listed(v, "start")
    /\ UNCHANGED <<local, published, header, gop, publisher, got, next, raced>>

\* Mutant: the video header is left out.
SendHeaders_NoVideo(v) ==
    /\ ~raced
    /\ phase[v] = "headers"
    /\ phase' = [phase EXCEPT ![v] = "cache"]
    /\ got' = [got EXCEPT ![v] = @ \o Stored("metadata") \o Stored("audioHeader")]
    /\ UNCHANGED <<local, published, header, gop, publisher, consumers, next, joinedAt, raced>>

\* SendGopCache sends the headers that are stored.
SendHeaders(v) ==
    /\ ~raced
    /\ phase[v] = "headers"
    /\ phase' = [phase EXCEPT ![v] = "cache"]
    /\ got' = [got EXCEPT ![v] = @ \o Stored("metadata") \o Stored("videoHeader")
                                     \o Stored("audioHeader")]
    /\ UNCHANGED <<local, published, header, gop, publisher, consumers, next, joinedAt, raced>>

\* SendGopCache sends the next cached packet.
SendCached(v) ==
    /\ ~raced
    /\ phase[v] = "cache"
    /\ next[v] <= Len(gop)
    /\ got' = [got EXCEPT ![v] = Append(@, Packet(gop[next[v]]))]
    /\ next' = [next EXCEPT ![v] = @ + 1]
    /\ UNCHANGED <<local, published, header, gop, publisher, consumers, phase, joinedAt, raced>>

\* SendGopCache has sent everything and returns; the lock is not yet held.
CacheSent(v) ==
    /\ ~raced
    /\ phase[v] = "cache"
    /\ next[v] > Len(gop)
    /\ phase' = [phase EXCEPT ![v] = "joining"]
    /\ UNCHANGED <<local, published, header, gop, publisher, consumers, got, next, joinedAt, raced>>

\* AddConsumer takes the lock and adds the viewer to the list.
Join(v) ==
    /\ ~raced
    /\ phase[v] = "joining"
    /\ phase' = [phase EXCEPT ![v] = "in"]
    /\ consumers' = Listed(v, "end")
    /\ UNCHANGED <<local, published, header, gop, publisher, got, next, joinedAt, raced>>

\* Mutant: the last viewer is erased, not the one that was found.
Without_Last(i) == SubSeq(consumers, 1, Len(consumers) - 1)

Without(i) == RemoveAt(consumers, i)

\* RemoveConsumer, under the lock: the first entry that is v is erased.
RemoveConsumer(v) ==
    /\ ViewerMayCall(v)
    /\ phase[v] = "in"
    /\ phase' = [phase EXCEPT ![v] = "gone"]
    /\ \E i \in DOMAIN consumers :
        /\ consumers[i] = v /\ \A j \in 1 .. i - 1 : consumers[j] # v
        /\ consumers' = Without(i)
    /\ UNCHANGED <<local, published, header, gop, publisher, got, next, joinedAt, raced>>

Next ==
    \/ \E k \in SentHeaders : SetHeader(k)
    \/ \E kind \in PacketKinds : OnPacket(kind)
    \/ Dispatch
    \/ \E v \in Viewers :
        \/ AddConsumer(v) \/ SendHeaders(v) \/ SendCached(v) \/ CacheSent(v)
        \/ Join(v) \/ RemoveConsumer(v)

Spec == Init /\ [][Next]_vars

-----------------------------------------------------------------------------

PublishedPackets == [kind : PacketKinds, header : 0 .. MaxHeaders]
Items == [kind : {"packet"}, n : 1 .. MaxPackets] \cup [kind : HeaderKinds, n : 1 .. MaxHeaders]

TypeOK ==
    /\ local \subseteq Viewers
    /\ published \in Seq(PublishedPackets)
    /\ Len(published) <= MaxPackets
    /\ header \in [HeaderKinds -> 0 .. MaxHeaders]
    /\ gop \in Seq(1 .. MaxPackets) /\ Len(gop) <= MaxGop
    /\ publisher \in {"idle", "dispatch"}
    /\ consumers \in Seq(Viewers)
    /\ phase \in [Viewers -> Phases]
    /\ next \in [Viewers -> Nat \ {0}]
    /\ got \in [Viewers -> Seq(Items)]
    /\ joinedAt \in [Viewers -> 0 .. MaxPackets]
    /\ raced \in BOOLEAN

Keyframes(n) == {i \in 1 .. n : published[i].kind = "key"}

\* Where the group of pictures of packet n begins: at the latest keyframe, at the
\* first packet when there was none.
GopStart(n) ==
    IF Keyframes(n) = {} THEN 1
    ELSE CHOOSE i \in Keyframes(n) : \A j \in Keyframes(n) : j <= i

\* How many packets the group has had by then.
GopLength(n) == IF n = 0 THEN 0 ELSE n - GopStart(n) + 1

Sequel(s) == \A i \in 1 .. Len(s) - 1 : s[i + 1] = s[i] + 1

\* The cache is the unbroken run of packets that begins at the latest keyframe, all
\* of it or as much as fits, at every moment between two calls or within one
\* (OnVideo clears and appends, OnAudio appends).
GopFromLatestKeyframe ==
    /\ Sequel(gop)
    /\ gop # <<>> => Head(gop) = GopStart(Len(published))
    /\ Len(gop) = IF GopLength(Len(published)) < MaxGop
                  THEN GopLength(Len(published)) ELSE MaxGop

\* Where in got[v] the packets are.
Packets(v) == {i \in DOMAIN got[v] : got[v][i].kind = "packet"}

\* Packet j is the next after packet i.
Adjacent(v, i, j) == i < j /\ \A k \in Packets(v) : k <= i \/ j <= k

\* What v has been given has no gap and no repetition and, while v is in the list
\* and no packet is under way, reaches the current packet.
Unbroken(v) ==
    /\ \A i, j \in Packets(v) : Adjacent(v, i, j) => got[v][j].n = got[v][i].n + 1
    /\ phase[v] = "in" /\ publisher = "idle" /\ published # <<>> =>
           \E i \in Packets(v) :
               got[v][i].n = Len(published) /\ \A j \in Packets(v) : j <= i

\* A viewer on the publisher's event loop gets the cached group of pictures and
\* then every live packet, once each, if the cache held the whole group when it
\* joined (AddConsumer, SendGopCache, dispatch).
LocalViewerUnbroken ==
    \A v \in local : GopLength(joinedAt[v]) <= MaxGop => Unbroken(v)

\* The same of every viewer, as MediaSource.h and MediaSource.cpp describe joining.
ViewerUnbroken ==
    \A v \in Viewers : GopLength(joinedAt[v]) <= MaxGop => Unbroken(v)

\* A viewer never gets an older packet after a newer one, on whatever loop it is: until
\* two threads touch the cache or a header at once, where the behaviour ends.
ViewerInOrder ==
    \A v \in Viewers : \A i, j \in Packets(v) : i < j => got[v][i].n <= got[v][j].n

\* The first packet a viewer gets is a keyframe, if any was published when it
\* called AddConsumer: it can decode at once.
ViewerStartsAtKeyframe ==
    \A v \in Viewers : \A i \in Packets(v) :
        (\A j \in Packets(v) : i <= j) /\ Keyframes(joinedAt[v]) # {} =>
            published[got[v][i].n].kind = "key"

\* Where in got[v] the keyframes are that were published before v called AddConsumer,
\* after a video header.
CachedKeyframes(v) ==
    {i \in Packets(v) :
        LET n == got[v][i].n
        IN  n <= joinedAt[v] /\ published[n].kind = "key" /\ published[n].header > 0}

\* The video header that packet i of v was encoded with.
NeededHeader(v, i) == published[got[v][i].n].header

\* The latest video header that v was given before packet i is the one it needs.
Decodable(v, i) ==
    \E j \in 1 .. i - 1 :
        /\ got[v][j] = [kind |-> "videoHeader", n |-> NeededHeader(v, i)]
        /\ \A k \in j + 1 .. i - 1 : got[v][k].kind # "videoHeader"

\* A viewer can decode every keyframe that SendGopCache gives it as soon as it gets
\* it, as MediaSource.cpp says of what a viewer is given when it joins.
CachedKeyframesDecodable ==
    \A v \in Viewers : \A i \in CachedKeyframes(v) : Decodable(v, i)

\* The same of a keyframe whose header is still the stored one: SetVideoHeader has
\* not been called since it was published.
StoredHeaderKeyframesDecodable ==
    \A v \in Viewers : \A i \in CachedKeyframes(v) :
        NeededHeader(v, i) = header["videoHeader"] => Decodable(v, i)

\* Nothing reaches a viewer that has been removed.
NoDeliveryAfterRemove ==
    [][\A v \in Viewers : phase[v] = "gone" => got'[v] = got[v]]_vars

=============================================================================
