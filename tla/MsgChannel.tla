----------------------------- MODULE MsgChannel -----------------------------
(***************************************************************************)
(* What TcpConnection::Send promises its callers: a channel that takes     *)
(* whole messages, gives them to the peer one at a time in the order they  *)
(* were accepted, and gives the peer nothing once it is shut.              *)
(***************************************************************************)
EXTENDS Sequences

CONSTANT Msg

VARIABLES
    backlog,     \* accepted, not yet given to the peer
    delivered,   \* given to the peer
    open         \* the channel has not been shut

vars == <<backlog, delivered, open>>

Init ==
    /\ backlog = <<>>
    /\ delivered = <<>>
    /\ open = TRUE

Accept(m) ==
    /\ backlog' = Append(backlog, m)
    /\ UNCHANGED <<delivered, open>>

Deliver ==
    /\ open
    /\ backlog # <<>>
    /\ delivered' = Append(delivered, Head(backlog))
    /\ backlog' = Tail(backlog)
    /\ open' = open

Shut ==
    /\ open
    /\ open' = FALSE
    /\ UNCHANGED <<backlog, delivered>>

Next == Deliver \/ Shut \/ \E m \in Msg : Accept(m)

Spec == Init /\ [][Next]_vars

=============================================================================
