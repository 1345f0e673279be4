---------------------------- MODULE TcpConnection ----------------------------
(***************************************************************************)
(* One TcpConnection on its event loop: the loop thread runs completion    *)
(* handlers and posted tasks one at a time, other threads call Send at any *)
(* moment, and the kernel completes reads and writes on its own.           *)
(*                                                                         *)
(* A handler is split where it calls out: the message callback may send,   *)
(* close, and take as long as it likes while other threads and the kernel  *)
(* go on.  A message is <<sender, n>>, the n-th message of its sender.     *)
(***************************************************************************)
EXTENDS TcpConnectionOps, Naturals

CONSTANTS
    Others,      \* the threads that call Send and are not the loop's
    Loop,        \* the loop's own thread
    MaxSends     \* bound on the messages of one sender

ASSUME TcpConnectionAssumption ==
    /\ Loop \notin Others
    /\ MaxSends \in Nat

Senders == Others \cup {Loop}
Msg == Senders \X (1 .. MaxSends)

VARIABLES
    conn,     \* the connection
    posted,   \* Send tasks that asio::post has queued for the loop
    loop,     \* what the loop thread is in: "idle" or a callback of conn
    nsent,    \* how often each thread has called Send
    wire      \* the messages the socket has taken, in order

vars == <<conn, posted, loop, nsent, wire>>

LoopStates == {"idle", "message_cb", "write_complete_cb"}

Init ==
    /\ conn = Start(NewConnection)
    /\ posted = <<>>
    /\ loop = "idle"
    /\ nsent = [t \in Senders |-> 0]
    /\ wire = <<>>

-----------------------------------------------------------------------------

\* Send on a thread that is not the loop's: RunInLoop posts the task.
SendFromOther(t) ==
    /\ nsent[t] < MaxSends
    /\ nsent' = [nsent EXCEPT ![t] = @ + 1]
    /\ posted' = Append(posted, <<t, nsent[t] + 1>>)
    /\ UNCHANGED <<conn, loop, wire>>

\* Send on the loop's thread, from a callback of this connection or from another
\* handler of the same loop: RunInLoop runs the task at once.
SendFromLoop ==
    /\ nsent[Loop] < MaxSends
    /\ nsent' = [nsent EXCEPT ![Loop] = @ + 1]
    /\ conn' = SendInLoop(conn, <<Loop, nsent[Loop] + 1>>)
    /\ UNCHANGED <<posted, loop, wire>>

\* The loop runs the oldest posted task.
RunPosted ==
    /\ loop = "idle"
    /\ posted # <<>>
    /\ conn' = SendInLoop(conn, Head(posted))
    /\ posted' = Tail(posted)
    /\ UNCHANGED <<loop, nsent, wire>>

\* The read handler with bytes: it enters the message callback.
ReadHandler ==
    /\ loop = "idle"
    /\ conn.rd = "ready"
    /\ conn' = [conn EXCEPT !.rd = "none"]
    /\ loop' = "message_cb"
    /\ UNCHANGED <<posted, nsent, wire>>

\* The message callback closes the connection (RtmpContext::onMessage).
CloseInCallback ==
    /\ loop = "message_cb"
    /\ ~conn.closed
    /\ conn' = Close(conn)
    /\ UNCHANGED <<posted, loop, nsent, wire>>

\* Mutant: a message callback that closed nothing is not followed by doRead.
MessageCbReturn_NoRead ==
    /\ loop = "message_cb"
    /\ loop' = "idle"
    /\ UNCHANGED <<conn, posted, nsent, wire>>

\* The message callback returns and the read handler starts the next read.
MessageCbReturn ==
    /\ loop = "message_cb"
    /\ conn' = DoRead(conn)
    /\ loop' = "idle"
    /\ UNCHANGED <<posted, nsent, wire>>

\* The read handler with an error.
ReadErrorHandler ==
    /\ loop = "idle"
    /\ conn.rd = "err"
    /\ conn' = ReadFailed(conn)
    /\ UNCHANGED <<posted, loop, nsent, wire>>

\* The write handler; a drained queue enters the write-complete callback.
WriteHandler ==
    /\ loop = "idle"
    /\ conn.wr = "ok"
    /\ conn' = WriteDone(conn)
    /\ loop' = IF conn'.queue = <<>> THEN "write_complete_cb" ELSE "idle"
    /\ UNCHANGED <<posted, nsent, wire>>

WriteCompleteCbReturn ==
    /\ loop = "write_complete_cb"
    /\ loop' = "idle"
    /\ UNCHANGED <<conn, posted, nsent, wire>>

\* The write handler with an error.
WriteErrorHandler ==
    /\ loop = "idle"
    /\ conn.wr = "err"
    /\ conn' = WriteFailed(conn)
    /\ UNCHANGED <<posted, loop, nsent, wire>>

\* The socket has taken the whole buffer.
KernelWrites ==
    /\ conn.wr = "pending"
    /\ conn' = [conn EXCEPT !.wr = "ok"]
    /\ wire' = Append(wire, conn.wbuf)
    /\ UNCHANGED <<posted, loop, nsent>>

\* The peer reset the connection.
KernelWriteFails ==
    /\ conn.wr = "pending"
    /\ conn' = [conn EXCEPT !.wr = "err"]
    /\ UNCHANGED <<posted, loop, nsent, wire>>

\* Bytes arrived for the outstanding read.
KernelReads ==
    /\ conn.rd = "armed"
    /\ conn' = [conn EXCEPT !.rd = "ready"]
    /\ UNCHANGED <<posted, loop, nsent, wire>>

\* The peer closed or reset the connection.
KernelReadFails ==
    /\ conn.rd = "armed"
    /\ conn' = [conn EXCEPT !.rd = "err"]
    /\ UNCHANGED <<posted, loop, nsent, wire>>

Next ==
    \/ \E t \in Others : SendFromOther(t)
    \/ SendFromLoop \/ RunPosted
    \/ ReadHandler \/ CloseInCallback \/ MessageCbReturn \/ ReadErrorHandler
    \/ WriteHandler \/ WriteCompleteCbReturn \/ WriteErrorHandler
    \/ KernelWrites \/ KernelWriteFails \/ KernelReads \/ KernelReadFails

Spec == Init /\ [][Next]_vars

\* The loop keeps running and takes completed operations and posted tasks from
\* one FIFO queue, so a handler that is ready is not passed over forever; a
\* callback returns; the socket of a connected peer takes the buffer or fails.
Fairness ==
    /\ SF_vars(RunPosted)
    /\ SF_vars(ReadHandler \/ ReadErrorHandler)
    /\ SF_vars(WriteHandler \/ WriteErrorHandler)
    /\ WF_vars(MessageCbReturn)
    /\ WF_vars(WriteCompleteCbReturn)
    /\ WF_vars(KernelWrites \/ KernelWriteFails)

FairSpec == Spec /\ Fairness

-----------------------------------------------------------------------------

TypeOK ==
    /\ conn \in Connection(Msg)
    /\ posted \in Seq(Msg)
    /\ loop \in LoopStates
    /\ nsent \in [Senders -> 0 .. MaxSends]
    /\ wire \in Seq(Msg)

\* At most one async_write is in progress, and the string its buffer points into
\* is the front of m_write_queue for as long as it is, so asio never reads a
\* string that pop_front released (doWrite passes asio::buffer of *front).
WriteBufferPinned ==
    /\ ~conn.overlap
    /\ conn.wr # "none" => conn.queue # <<>> /\ conn.wbuf = Head(conn.queue)

\* No lost wake-up: while an open connection has messages queued, a write is in
\* progress that will drain them (Send starts one only into an empty queue).
NoLostWakeup ==
    ~conn.closed /\ conn.queue # <<>> => conn.wr # "none"

\* An open connection is never deaf: outside the message callback a read is in
\* progress, so a message or the peer's close is always noticed.
NeverDeaf ==
    ~conn.closed /\ loop # "message_cb" => conn.rd # "none"

\* The messages Send has taken, in the order in which the socket takes them.
Log == wire \o Backlog(conn) \o posted

\* Every message that was sent is in the log once, those of one sender in the order
\* it sent them, and the log has no other: none is lost, doubled or overtaken on its
\* way through the posted tasks, the write queue and the socket.
SenderOrder ==
    /\ \A i \in DOMAIN Log : Log[i][2] <= nsent[Log[i][1]]
    /\ \A i, j \in DOMAIN Log : i < j /\ Log[i][1] = Log[j][1] => Log[i][2] < Log[j][2]
    /\ \A t \in Senders : \A n \in 1 .. nsent[t] : \E i \in DOMAIN Log : Log[i] = <<t, n>>

\* The connection implements the abstract channel: accepted messages reach the
\* peer whole, in order, once, and never after Close.
Channel == INSTANCE MsgChannel WITH
    backlog <- Backlog(conn), delivered <- wire, open <- ~conn.closed

ChannelSpec == Channel!Spec

\* A message handed to Send by another thread is taken by the socket, unless the
\* connection closes.
SentIsWritten ==
    \A t \in Others : \A n \in 1 .. MaxSends :
        nsent[t] >= n ~>
            (conn.closed \/ \E i \in DOMAIN wire : wire[i] = <<t, n>>)

\* After Close every operation in progress completes and none is started, so the
\* handlers' references to the connection are given up.
ClosedQuiesces ==
    conn.closed ~> [](conn.rd = "none" /\ conn.wr = "none" /\ loop = "idle")

=============================================================================
