----------------------------- MODULE MCMsgBuffer -----------------------------
(***************************************************************************)
(* The receive buffer on a small instance.  The code has the default size  *)
(* and the read-ahead both 4096; here both are 3, and the stream is long   *)
(* enough to fill, compact and grow the buffer more than once.             *)
(***************************************************************************)
EXTENDS MsgBuffer

=============================================================================
