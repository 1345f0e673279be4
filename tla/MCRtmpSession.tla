---------------------------- MODULE MCRtmpSession ----------------------------
(***************************************************************************)
(* The session with handshake packets of two units, so that both C0C1 and  *)
(* C2 can arrive in pieces and together with what follows them.            *)
(***************************************************************************)
EXTENDS RtmpSession

=============================================================================
