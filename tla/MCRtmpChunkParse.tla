-------------------------- MODULE MCRtmpChunkParse --------------------------
(***************************************************************************)
(* Three chunk streams, with basic headers of one, two and three bytes.    *)
(* Stream 3 carries media in every format and two chunks per message; on   *)
(* stream 64 the peer changes or tries to change the chunk size and sends  *)
(* empty messages, with deltas that wrap around and timestamps that are    *)
(* extended or not; every message of stream 321 has an extended timestamp, *)
(* repeated in its second chunk.                                           *)
(***************************************************************************)
EXTENDS RtmpChunkParse, TLC

MCTimestamps == 3 :> {0, 1} @@ 64 :> {1, 7} @@ 321 :> {6}
MCLengths    == 3 :> {2} @@ 64 :> {0} @@ 321 :> {2}
MCChunkSizes == 3 :> {} @@ 64 :> {0, 2} @@ 321 :> {}
MCFmts       == 3 :> {0, 1, 2, 3} @@ 64 :> {0, 1, 2} @@ 321 :> {0, 3}

\* One chunk stream that only sends media, with formats 0 and 1.
MCNoSizes    == 3 :> {}
MCFmts01     == 3 :> {0, 1}

\* A delta that needs an extended timestamp, on messages of one byte.
MCDeltaTimestamps  == 3 :> {0, 6}
MCDeltaLengths     == 3 :> {1}

\* Extended timestamps and a small delta between them, on messages of two chunks.
MCStickyTimestamps == 3 :> {5, 6}
MCStickyLengths    == 3 :> {2}

\* The peer of the three streams is one the theorems are about, the other two are not.
ASSUME MCRegular == Regular <=> Csids = {3, 64, 321}

=============================================================================
