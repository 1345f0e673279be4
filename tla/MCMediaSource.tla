--------------------------- MODULE MCMediaSource ---------------------------
(***************************************************************************)
(* Two interchangeable viewers of a stream of a few packets.               *)
(***************************************************************************)
EXTENDS MediaSource, TLC

Symmetry == Permutations(Viewers)

=============================================================================
