--------------------------- MODULE MCTcpConnection ---------------------------
(***************************************************************************)
(* Two foreign threads and the loop's thread, each sending twice: enough   *)
(* for a message to be queued behind a write in progress, behind a posted  *)
(* task, and behind another message of the same sender.                    *)
(***************************************************************************)
EXTENDS TcpConnection

=============================================================================
