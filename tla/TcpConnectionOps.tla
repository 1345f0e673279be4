-------------------------- MODULE TcpConnectionOps --------------------------
(***************************************************************************)
(* What the methods of network::TcpConnection do to the connection's state *)
(* (network/net/TcpConnection.cpp).  All of them run on the thread of the  *)
(* connection's event loop, so a method is a function from a connection to *)
(* a connection; the modules that use it decide who calls it and when.     *)
(*                                                                         *)
(* A connection is a record                                                *)
(*   queue    m_write_queue, the messages not yet popped                   *)
(*   writing  m_writing                                                    *)
(*   closed   m_closed                                                     *)
(*   wr       the asio::async_write in progress:                           *)
(*              "none"     there is none                                   *)
(*              "pending"  the socket has not taken all of the buffer      *)
(*              "ok" / "err"  complete, its handler waits in the loop      *)
(*   wbuf     the buffer that write was given                              *)
(*   rd       the async_read_some in progress: "none", "armed" (nothing    *)
(*            read yet), "ready" (bytes read, handler waits), "err"        *)
(*   overlap  ghost: an async_write was started while one was in progress  *)
(***************************************************************************)
EXTENDS Sequences

WriteStates == {"none", "pending", "ok", "err"}
ReadStates  == {"none", "armed", "ready", "err"}

\* A value of wbuf when no write has been started.
NoBuffer == <<>>

Connection(Msg) ==
    [queue : Seq(Msg), writing : BOOLEAN, closed : BOOLEAN,
     wr : WriteStates, wbuf : Msg \cup {NoBuffer}, rd : ReadStates,
     overlap : BOOLEAN]

\* A connection that has been constructed and not started.
NewConnection ==
    [queue |-> <<>>, writing |-> FALSE, closed |-> FALSE, wr |-> "none",
     wbuf |-> NoBuffer, rd |-> "none", overlap |-> FALSE]

\* Mutant: the read is started again without looking at the socket, as if a
\* closed socket kept it waiting.
DoRead_IgnoreClosed(c) == [c EXCEPT !.rd = "armed"]

\* doRead: on a closed socket asio completes the read with an error.
DoRead(c) == [c EXCEPT !.rd = IF c.closed THEN "err" ELSE "armed"]

Start(c) == DoRead(c)

\* Mutant: the write is started with a buffer that was never set.
DoWrite_NoBuffer(c) ==
    IF c.queue = <<>> \/ c.closed
    THEN [c EXCEPT !.writing = FALSE]
    ELSE [c EXCEPT !.writing = TRUE, !.wr = "pending"]

\* doWrite
DoWrite(c) ==
    IF c.queue = <<>> \/ c.closed
    THEN [c EXCEPT !.writing = FALSE]
    ELSE [c EXCEPT !.writing = TRUE,
                   !.wr = "pending",
                   !.wbuf = Head(c.queue),
                   !.overlap = @ \/ c.wr # "none"]

\* Mutant: Send starts a write whenever none is marked as running.
SendInLoop_NoGuard(c, m) ==
    DoWrite([c EXCEPT !.queue = Append(@, m)])

\* Mutant: Send leaves the first message to a later one.
SendInLoop_NoKick(c, m) ==
    LET q == [c EXCEPT !.queue = Append(@, m)]
    IN  IF c.queue # <<>> /\ ~c.writing THEN DoWrite(q) ELSE q

\* The task Send hands to RunInLoop.
SendInLoop(c, m) ==
    LET q == [c EXCEPT !.queue = Append(@, m)]
    IN  IF c.queue = <<>> /\ ~c.writing THEN DoWrite(q) ELSE q

\* Mutant: Close leaves the socket open.
Close_KeepSocket(c) == [c EXCEPT !.closed = TRUE]

\* Close: closing the socket aborts what has not completed; what has completed
\* keeps its result.  A second Close does nothing.
Close(c) ==
    IF c.closed THEN c
    ELSE [c EXCEPT !.closed = TRUE,
                   !.wr = IF @ = "pending" THEN "err" ELSE @,
                   !.rd = IF @ = "armed" THEN "err" ELSE @]

\* Mutant: the handler starts the next write before it pops the message it wrote.
WriteDone_NoPop(c) ==
    DoWrite([c EXCEPT !.wr = "none"])

\* The handler of a successful write, up to the write-complete callback, which
\* runs when the queue is empty afterwards.
WriteDone(c) ==
    LET p == [c EXCEPT !.queue = Tail(@), !.wr = "none"]
    IN  IF p.queue = <<>> THEN [p EXCEPT !.writing = FALSE] ELSE DoWrite(p)

\* Mutant: the end of the peer's stream is not taken as a reason to close.
ReadFailed_KeepOpen(c) == [c EXCEPT !.rd = "none"]

\* The handler of a failed write or read.
WriteFailed(c) == Close([c EXCEPT !.wr = "none"])
ReadFailed(c)  == Close([c EXCEPT !.rd = "none"])

\* The messages accepted and not yet taken by the socket.
Backlog(c) == IF c.wr = "ok" THEN Tail(c.queue) ELSE c.queue

=============================================================================
