----------------------- MODULE TcpConnectionOpsProofs -----------------------
(***************************************************************************)
(* What the methods of TcpConnection keep true of a connection, whatever   *)
(* its messages are and whoever calls them.                                *)
(*                                                                         *)
(* What Send tests is m_writing, what matters is whether a write is in     *)
(* progress; the invariant ties the two together while the connection is   *)
(* open, and records what Close leaves behind when it is not.              *)
(***************************************************************************)
EXTENDS TcpConnectionOps, TLAPS

\* The buffer of the write in progress is the front of the queue.
Pinned(c) ==
    /\ ~c.overlap
    /\ c.wr # "none" => c.queue # <<>> /\ c.wbuf = Head(c.queue)

\* m_writing says whether a write is in progress; it may outlive the write only
\* on a closed connection, whose failed write never cleared it.
WritingFlag(c) ==
    /\ c.wr # "none" => c.writing
    /\ ~c.closed /\ c.writing => c.wr # "none"

\* A queued message of an open connection has a write in progress before it.
Awake(c) == ~c.closed /\ c.queue # <<>> => c.wr # "none"

\* Close aborted what had not completed.
Aborted(c) == c.closed => c.wr # "pending" /\ c.rd # "armed"

ConnInv(Msg, c) ==
    /\ c \in Connection(Msg)
    /\ Pinned(c)
    /\ WritingFlag(c)
    /\ Awake(c)
    /\ Aborted(c)

\* doWrite on a connection with no write in progress keeps the invariant, and
\* repairs the two parts Send and the write handler break before they call it.
LEMMA DoWriteInv ==
  ASSUME NEW Msg, NEW c \in Connection(Msg), c.wr = "none", ~c.overlap, Aborted(c)
  PROVE  /\ ConnInv(Msg, DoWrite(c))
         /\ Backlog(DoWrite(c)) = c.queue
         /\ DoWrite(c).queue = c.queue
         /\ DoWrite(c).closed = c.closed
         /\ DoWrite(c).rd = c.rd
<1>1. CASE c.queue = <<>> \/ c.closed
  BY <1>1 DEF DoWrite, ConnInv, Connection, Pinned, WritingFlag, Awake, Aborted,
     Backlog, WriteStates, ReadStates
<1>2. CASE ~(c.queue = <<>> \/ c.closed)
  <2>1. Head(c.queue) \in Msg
    BY <1>2 DEF Connection
  <2> QED BY <1>2, <2>1 DEF DoWrite, ConnInv, Connection, Pinned, WritingFlag, Awake,
     Aborted, Backlog, WriteStates, ReadStates
<1> QED BY <1>1, <1>2

\* The task Send runs on the loop keeps the invariant and accepts the message at
\* the end of the backlog.
LEMMA SendInLoopInv ==
  ASSUME NEW Msg, NEW c, ConnInv(Msg, c), NEW m \in Msg
  PROVE  /\ ConnInv(Msg, SendInLoop(c, m))
         /\ Backlog(SendInLoop(c, m)) = Append(Backlog(c), m)
         /\ SendInLoop(c, m).closed = c.closed
         /\ SendInLoop(c, m).rd = c.rd
<1> DEFINE q == [c EXCEPT !.queue = Append(c.queue, m)]
<1>1. /\ c \in Connection(Msg) /\ c.queue \in Seq(Msg)
      /\ Append(c.queue, m) \in Seq(Msg) /\ Append(c.queue, m) # <<>>
  BY DEF ConnInv, Connection
<1>2. q \in Connection(Msg) /\ q.queue = Append(c.queue, m)
      /\ q.wr = c.wr /\ q.closed = c.closed /\ q.rd = c.rd /\ q.overlap = c.overlap
      /\ q.writing = c.writing /\ q.wbuf = c.wbuf
  BY <1>1 DEF Connection
<1>3. CASE c.queue = <<>> /\ ~c.writing
  <2>1. c.wr = "none" /\ Backlog(c) = c.queue
    BY <1>3 DEF ConnInv, WritingFlag, Backlog
  <2>2. SendInLoop(c, m) = DoWrite(q)
    BY <1>3 DEF SendInLoop
  <2>3. ~q.overlap /\ Aborted(q)
    BY <1>2 DEF ConnInv, Pinned, Aborted
  <2> HIDE DEF q
  <2> QED BY <1>2, <2>1, <2>2, <2>3, DoWriteInv
<1>4. CASE ~(c.queue = <<>> /\ ~c.writing)
  <2>1. SendInLoop(c, m) = q
    BY <1>4 DEF SendInLoop
  <2>2. c.queue # <<>> => Head(q.queue) = Head(c.queue)
                          /\ Tail(q.queue) = Append(Tail(c.queue), m)
    BY <1>1, <1>2
  <2> HIDE DEF q
  <2>3. Pinned(q) /\ WritingFlag(q) /\ Aborted(q)
    BY <1>1, <1>2, <2>2 DEF ConnInv, Pinned, WritingFlag, Aborted
  <2>4. Awake(q)
    BY <1>2, <1>4 DEF ConnInv, WritingFlag, Awake
  <2>5. Backlog(q) = Append(Backlog(c), m)
    BY <1>2, <2>2 DEF ConnInv, Pinned, Backlog
  <2> QED BY <1>2, <2>1, <2>3, <2>4, <2>5 DEF ConnInv
<1> QED BY <1>3, <1>4

\* Close keeps the invariant and the backlog, and closes.
LEMMA CloseInv ==
  ASSUME NEW Msg, NEW c \in Connection(Msg), Pinned(c), Aborted(c), c.wr # "none" => c.writing
  PROVE  /\ ConnInv(Msg, Close(c))
         /\ Close(c).queue = c.queue
         /\ Backlog(Close(c)) = Backlog(c)
         /\ Close(c).closed
         /\ c.rd = "none" => Close(c).rd = "none"
  BY DEF Close, ConnInv, Connection, Pinned, WritingFlag, Awake, Aborted, Backlog,
     WriteStates, ReadStates

\* The handler of a successful write keeps the invariant and the backlog.
LEMMA WriteDoneInv ==
  ASSUME NEW Msg, NEW c, ConnInv(Msg, c), c.wr = "ok"
  PROVE  /\ ConnInv(Msg, WriteDone(c))
         /\ Backlog(WriteDone(c)) = Backlog(c)
         /\ WriteDone(c).closed = c.closed
         /\ WriteDone(c).rd = c.rd
<1> DEFINE p == [c EXCEPT !.queue = Tail(c.queue), !.wr = "none"]
<1>1. c \in Connection(Msg) /\ c.queue \in Seq(Msg) /\ c.queue # <<>>
  BY DEF ConnInv, Connection, Pinned
<1>2. Tail(c.queue) \in Seq(Msg)
  BY <1>1
<1>3. p \in Connection(Msg) /\ p.queue = Tail(c.queue) /\ p.wr = "none"
      /\ p.closed = c.closed /\ p.rd = c.rd /\ p.overlap = c.overlap
  BY <1>1, <1>2 DEF Connection, WriteStates
<1>4. Backlog(c) = p.queue
  BY <1>3 DEF Backlog
<1>5. ~p.overlap /\ Aborted(p)
  BY <1>3 DEF ConnInv, Pinned, Aborted
<1>6. WriteDone(c) = IF p.queue = <<>> THEN [p EXCEPT !.writing = FALSE] ELSE DoWrite(p)
  BY DEF WriteDone
<1> HIDE DEF p
<1>7. CASE p.queue = <<>>
  BY <1>3, <1>4, <1>5, <1>6, <1>7 DEF ConnInv, Connection, Pinned, WritingFlag, Awake,
     Aborted, Backlog
<1>8. CASE p.queue # <<>>
  BY <1>3, <1>4, <1>5, <1>6, <1>8, DoWriteInv
<1> QED BY <1>7, <1>8

-----------------------------------------------------------------------------
(* The reads, the failures and the kernel's steps *)

\* A read that is taken, and one that is started, leave the writes alone.
LEMMA ReadTakenInv ==
  ASSUME NEW Msg, NEW c, ConnInv(Msg, c), NEW d, d = [c EXCEPT !.rd = "none"]
  PROVE  ConnInv(Msg, d) /\ Backlog(d) = Backlog(c) /\ d.closed = c.closed
BY DEF ConnInv, Connection, Pinned, WritingFlag, Awake, Aborted, Backlog, ReadStates

LEMMA DoReadInv ==
  ASSUME NEW Msg, NEW c, ConnInv(Msg, c)
  PROVE  /\ ConnInv(Msg, DoRead(c)) /\ Backlog(DoRead(c)) = Backlog(c)
         /\ DoRead(c).closed = c.closed /\ DoRead(c).rd # "none"
<1> DEFINE d == [c EXCEPT !.rd = IF c.closed THEN "err" ELSE "armed"]
<1>1. DoRead(c) = d
  BY DEF DoRead
<1>2. ConnInv(Msg, d) /\ Backlog(d) = Backlog(c) /\ d.closed = c.closed /\ d.rd # "none"
  BY DEF ConnInv, Connection, Pinned, WritingFlag, Awake, Aborted, Backlog, ReadStates
<1> QED BY <1>1, <1>2

\* A failed read or write closes the connection and keeps the backlog.
LEMMA ReadFailedInv ==
  ASSUME NEW Msg, NEW c, ConnInv(Msg, c)
  PROVE  ConnInv(Msg, ReadFailed(c)) /\ Backlog(ReadFailed(c)) = Backlog(c)
         /\ ReadFailed(c).closed
<1> DEFINE d == [c EXCEPT !.rd = "none"]
<1>1. d \in Connection(Msg) /\ Pinned(d) /\ Aborted(d) /\ (d.wr # "none" => d.writing)
      /\ Backlog(d) = Backlog(c)
  BY DEF ConnInv, Connection, Pinned, WritingFlag, Aborted, Backlog, ReadStates
<1>2. ReadFailed(c) = Close(d)
  BY DEF ReadFailed
<1> HIDE DEF d
<1> QED BY <1>1, <1>2, CloseInv

LEMMA WriteFailedInv ==
  ASSUME NEW Msg, NEW c, ConnInv(Msg, c), c.wr = "err"
  PROVE  ConnInv(Msg, WriteFailed(c)) /\ Backlog(WriteFailed(c)) = Backlog(c)
         /\ WriteFailed(c).closed
<1> DEFINE d == [c EXCEPT !.wr = "none"]
<1>1. d \in Connection(Msg) /\ Pinned(d) /\ Aborted(d) /\ (d.wr # "none" => d.writing)
      /\ Backlog(d) = Backlog(c)
  BY DEF ConnInv, Connection, Pinned, WritingFlag, Aborted, Backlog, WriteStates
<1>2. WriteFailed(c) = Close(d)
  BY DEF WriteFailed
<1> HIDE DEF d
<1> QED BY <1>1, <1>2, CloseInv

\* The socket takes the front of the backlog, or fails and takes nothing.
LEMMA WrittenInv ==
  ASSUME NEW Msg, NEW c, ConnInv(Msg, c), c.wr = "pending", NEW d, d = [c EXCEPT !.wr = "ok"]
  PROVE  /\ c.queue \in Seq(Msg) /\ c.queue # <<>> /\ c.wbuf = Head(c.queue) /\ c.wbuf \in Msg
         /\ Backlog(c) = c.queue /\ Backlog(d) = Tail(c.queue)
         /\ ConnInv(Msg, d) /\ ~c.closed /\ d.closed = c.closed /\ d.rd = c.rd
<1>1. c.queue \in Seq(Msg) /\ c.queue # <<>> /\ c.wbuf = Head(c.queue)
      /\ ~c.closed /\ c.closed \in BOOLEAN
  BY DEF ConnInv, Connection, Pinned, Aborted
<1>2. c.wbuf \in Msg
  BY <1>1
<1>3. ConnInv(Msg, d) /\ Backlog(d) = Tail(c.queue) /\ Backlog(c) = c.queue
      /\ d.closed = c.closed /\ d.rd = c.rd
  BY DEF ConnInv, Connection, Pinned, WritingFlag, Awake, Aborted, Backlog, WriteStates
<1> QED BY <1>1, <1>2, <1>3

LEMMA WriteErrorInv ==
  ASSUME NEW Msg, NEW c, ConnInv(Msg, c), c.wr = "pending", NEW d, d = [c EXCEPT !.wr = "err"]
  PROVE  ConnInv(Msg, d) /\ Backlog(d) = Backlog(c) /\ d.closed = c.closed /\ d.rd = c.rd
BY DEF ConnInv, Connection, Pinned, WritingFlag, Awake, Aborted, Backlog, WriteStates

\* A read completes.
LEMMA ReadCompleteInv ==
  ASSUME NEW Msg, NEW c, ConnInv(Msg, c), c.rd = "armed", NEW r \in {"ready", "err"},
         NEW d, d = [c EXCEPT !.rd = r]
  PROVE  ConnInv(Msg, d) /\ Backlog(d) = Backlog(c) /\ d.closed = c.closed /\ d.rd # "none"
BY DEF ConnInv, Connection, Pinned, WritingFlag, Awake, Aborted, Backlog, ReadStates

=============================================================================
