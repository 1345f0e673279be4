------------------------- MODULE TcpConnectionProofs -------------------------
(***************************************************************************)
(* For any set of sending threads and any number of messages, a connection *)
(* never overlaps writes, never loses the wake-up of its write queue, and  *)
(* implements the abstract channel.                                        *)
(*                                                                         *)
(* None of these is inductive alone; ConnInv of TcpConnectionOpsProofs is  *)
(* what each method of the connection keeps.                               *)
(***************************************************************************)
EXTENDS TcpConnection, TcpConnectionOpsProofs, SequenceTheorems

\* The inductive invariant.
Inv ==
    /\ TypeOK
    /\ ConnInv(Msg, conn)
    /\ NeverDeaf

USE TcpConnectionAssumption

\* A message that is sent next is a message.
LEMMA NextMsg ==
  ASSUME TypeOK, NEW t \in Senders, nsent[t] < MaxSends
  PROVE  /\ <<t, nsent[t] + 1>> \in Msg
         /\ [nsent EXCEPT ![t] = @ + 1] \in [Senders -> 0 .. MaxSends]
<1>1. nsent[t] \in 0 .. MaxSends
  BY DEF TypeOK
<1> QED BY <1>1 DEF Msg, TypeOK

\* The initial state satisfies the invariant.
LEMMA InitInv == Init => Inv
<1> SUFFICES ASSUME Init PROVE Inv
  OBVIOUS
<1>1. conn = [queue |-> <<>>, writing |-> FALSE, closed |-> FALSE, wr |-> "none",
              wbuf |-> NoBuffer, rd |-> "armed", overlap |-> FALSE]
  BY DEF Init, Start, DoRead, NewConnection
<1>2. ConnInv(Msg, conn)
  BY <1>1 DEF ConnInv, Connection, Pinned, WritingFlag, Awake, Aborted, WriteStates,
     ReadStates
<1>3. TypeOK
  BY <1>2 DEF Init, TypeOK, ConnInv, LoopStates
<1> QED BY <1>1, <1>2, <1>3 DEF Inv, NeverDeaf, Init

\* What a step of the connection does to the abstract channel.
ChannelStep == [Channel!Next]_(Channel!vars)

\* What the loop has accepted, in order.
Accepted == wire \o Backlog(conn)

\* What a step does to the messages on their way: another thread posts one, the loop
\* sends one of its own or takes a posted one, and nothing else moves any.
LogStep ==
  \/ UNCHANGED <<Accepted, posted, nsent>>
  \/ \E t \in Others : SendFromOther(t) /\ UNCHANGED Accepted
  \/ SendFromLoop /\ Accepted' = Append(Accepted, <<Loop, nsent[Loop] + 1>>)
  \/ RunPosted /\ Accepted' = Append(Accepted, Head(posted))

\* Accepting at the end of the backlog accepts at the end; the socket taking the
\* front of the backlog changes nothing.
LEMMA AcceptedAlgebra ==
  ASSUME NEW w \in Seq(Msg), NEW q \in Seq(Msg)
  PROVE  /\ \A m \in Msg : w \o Append(q, m) = Append(w \o q, m)
         /\ q # <<>> => Append(w, Head(q)) \o Tail(q) = w \o q
<1>1. ASSUME NEW m \in Msg PROVE w \o Append(q, m) = Append(w \o q, m)
  OBVIOUS
<1>2. ASSUME q # <<>> PROVE Append(w, Head(q)) \o Tail(q) = w \o q
  BY <1>2
<1> QED BY <1>1, <1>2

\* Every step, or a stutter, preserves the invariant, is a step of the abstract
\* channel or leaves it alone, and moves the messages in one of those ways.
LEMMA StepInv ==
  ASSUME Inv, [Next]_vars
  PROVE  Inv' /\ ChannelStep /\ LogStep
<1> USE DEF Inv
<1> DEFINE Same == UNCHANGED <<Backlog(conn), wire, conn.closed>>
<1>a. /\ Same => ChannelStep
      /\ Same /\ UNCHANGED <<posted, nsent>> => LogStep
  BY DEF ChannelStep, Channel!vars, LogStep, Accepted
<1>b. ASSUME NEW m \in Msg, Backlog(conn)' = Append(Backlog(conn), m),
             UNCHANGED <<wire, conn.closed>>
      PROVE  ChannelStep
  BY <1>b DEF ChannelStep, Channel!Next, Channel!Accept
<1>c. ASSUME ~conn.closed, conn'.closed, UNCHANGED <<wire, Backlog(conn), posted, nsent>>
      PROVE  ChannelStep /\ LogStep
  BY <1>c DEF ChannelStep, Channel!Next, Channel!Shut, LogStep, Accepted
<1>d. Backlog(conn) \in Seq(Msg) /\ wire \in Seq(Msg)
  BY DEF TypeOK, ConnInv, Connection, Pinned, Backlog
<1>1. ASSUME NEW t \in Others, SendFromOther(t)
      PROVE  Inv' /\ ChannelStep /\ LogStep
  <2>1. <<t, nsent[t] + 1>> \in Msg
        /\ [nsent EXCEPT ![t] = @ + 1] \in [Senders -> 0 .. MaxSends]
    BY <1>1, NextMsg DEF SendFromOther, Senders
  <2>2. TypeOK'
    BY <1>1, <2>1 DEF SendFromOther, TypeOK
  <2>3. UNCHANGED <<conn, loop, wire>> /\ Same
    BY <1>1 DEF SendFromOther, Backlog
  <2>4. LogStep
    BY <1>1, <2>3 DEF LogStep, Accepted
  <2> QED BY <1>a, <2>2, <2>3, <2>4 DEF NeverDeaf
<1>2. CASE SendFromLoop
  <2> DEFINE m == <<Loop, nsent[Loop] + 1>>
  <2>1. m \in Msg /\ [nsent EXCEPT ![Loop] = @ + 1] \in [Senders -> 0 .. MaxSends]
    BY <1>2, NextMsg DEF SendFromLoop, Senders
  <2>2. conn' = SendInLoop(conn, m) /\ UNCHANGED <<posted, loop, wire>>
    BY <1>2 DEF SendFromLoop
  <2> HIDE DEF m
  <2>3. ConnInv(Msg, conn') /\ conn'.closed = conn.closed /\ conn'.rd = conn.rd
        /\ Backlog(conn') = Append(Backlog(conn), m)
    BY <2>1, <2>2, SendInLoopInv
  <2>4. TypeOK'
    BY <1>2, <2>1, <2>2, <2>3 DEF SendFromLoop, TypeOK, ConnInv
  <2>5. ChannelStep
    BY <1>b, <2>1, <2>2, <2>3
  <2>6. LogStep
    <3>1. Accepted' = Append(Accepted, m)
      BY <1>d, <2>1, <2>2, <2>3, AcceptedAlgebra DEF Accepted
    <3> QED BY <1>2, <3>1 DEF LogStep, m
  <2> QED BY <2>2, <2>3, <2>4, <2>5, <2>6 DEF NeverDeaf
<1>3. CASE RunPosted
  <2>1. Head(posted) \in Msg /\ Tail(posted) \in Seq(Msg)
    BY <1>3 DEF RunPosted, TypeOK
  <2>2. ConnInv(Msg, conn') /\ conn'.closed = conn.closed /\ conn'.rd = conn.rd
        /\ Backlog(conn') = Append(Backlog(conn), Head(posted))
    BY <1>3, <2>1, SendInLoopInv DEF RunPosted
  <2>3. TypeOK'
    BY <1>3, <2>1, <2>2 DEF RunPosted, TypeOK, ConnInv
  <2>4. ChannelStep
    BY <1>3, <1>b, <2>1, <2>2 DEF RunPosted
  <2>5. LogStep
    <3>1. Accepted' = Append(Accepted, Head(posted))
      BY <1>3, <1>d, <2>1, <2>2, AcceptedAlgebra DEF Accepted, RunPosted
    <3> QED BY <1>3, <3>1 DEF LogStep
  <2> QED BY <1>3, <2>2, <2>3, <2>4, <2>5 DEF RunPosted, NeverDeaf
<1>4. CASE ReadHandler
  <2>1. conn' = [conn EXCEPT !.rd = "none"] /\ loop' = "message_cb"
        /\ UNCHANGED <<posted, nsent, wire>>
    BY <1>4 DEF ReadHandler
  <2>2. ConnInv(Msg, conn') /\ Backlog(conn') = Backlog(conn) /\ conn'.closed = conn.closed
    BY <2>1, ReadTakenInv
  <2>3. TypeOK'
    BY <2>1, <2>2 DEF TypeOK, ConnInv, LoopStates
  <2> QED BY <1>a, <2>1, <2>2, <2>3 DEF NeverDeaf
<1>5. CASE CloseInCallback
  <2>1. conn' = Close(conn) /\ loop = "message_cb" /\ ~conn.closed
        /\ UNCHANGED <<posted, loop, nsent, wire>>
    BY <1>5 DEF CloseInCallback
  <2>2. ConnInv(Msg, conn') /\ Backlog(conn') = Backlog(conn) /\ conn'.closed
    BY <2>1, CloseInv DEF ConnInv, WritingFlag
  <2>3. TypeOK'
    BY <2>1, <2>2 DEF TypeOK, ConnInv
  <2> QED BY <1>c, <2>1, <2>2, <2>3 DEF NeverDeaf
<1>6. CASE MessageCbReturn
  <2>1. conn' = DoRead(conn) /\ loop' = "idle" /\ UNCHANGED <<posted, nsent, wire>>
    BY <1>6 DEF MessageCbReturn
  <2>2. ConnInv(Msg, conn') /\ Backlog(conn') = Backlog(conn) /\ conn'.closed = conn.closed
        /\ conn'.rd # "none"
    BY <2>1, DoReadInv
  <2>3. TypeOK'
    BY <2>1, <2>2 DEF TypeOK, ConnInv, LoopStates
  <2> QED BY <1>a, <2>1, <2>2, <2>3 DEF NeverDeaf
<1>7. CASE ReadErrorHandler
  <2>1. conn' = ReadFailed(conn) /\ UNCHANGED <<posted, loop, nsent, wire>>
    BY <1>7 DEF ReadErrorHandler
  <2>2. ConnInv(Msg, conn') /\ Backlog(conn') = Backlog(conn) /\ conn'.closed
    BY <2>1, ReadFailedInv
  <2>3. TypeOK'
    BY <2>1, <2>2 DEF TypeOK, ConnInv
  <2>4. CASE conn.closed
    <3>1. conn'.closed = conn.closed
      BY <2>2, <2>3, <2>4 DEF TypeOK, Connection
    <3> QED BY <1>a, <2>1, <2>2, <2>3, <3>1 DEF NeverDeaf
  <2>5. CASE ~conn.closed
    BY <1>c, <2>1, <2>2, <2>3, <2>5 DEF NeverDeaf
  <2> QED BY <2>4, <2>5
<1>8. CASE WriteHandler
  <2>1. conn' = WriteDone(conn) /\ conn.wr = "ok" /\ loop = "idle"
        /\ loop' \in {"idle", "write_complete_cb"} /\ UNCHANGED <<posted, nsent, wire>>
    BY <1>8 DEF WriteHandler
  <2>2. ConnInv(Msg, conn') /\ Backlog(conn') = Backlog(conn) /\ conn'.closed = conn.closed
        /\ conn'.rd = conn.rd
    BY <2>1, WriteDoneInv
  <2>3. TypeOK'
    BY <2>1, <2>2 DEF TypeOK, ConnInv, LoopStates
  <2> QED BY <1>a, <2>1, <2>2, <2>3 DEF NeverDeaf
<1>9. CASE WriteCompleteCbReturn
  <2>1. TypeOK'
    BY <1>9 DEF WriteCompleteCbReturn, TypeOK, LoopStates
  <2> QED BY <1>9, <1>a, <2>1 DEF WriteCompleteCbReturn, NeverDeaf, Backlog
<1>10. CASE WriteErrorHandler
  <2>1. conn' = WriteFailed(conn) /\ UNCHANGED <<posted, loop, nsent, wire>> /\ conn.wr = "err"
    BY <1>10 DEF WriteErrorHandler
  <2>2. ConnInv(Msg, conn') /\ Backlog(conn') = Backlog(conn) /\ conn'.closed
    BY <2>1, WriteFailedInv
  <2>3. TypeOK'
    BY <2>1, <2>2 DEF TypeOK, ConnInv
  <2>4. CASE conn.closed
    <3>1. conn'.closed = conn.closed
      BY <2>2, <2>3, <2>4 DEF TypeOK, Connection
    <3> QED BY <1>a, <2>1, <2>2, <2>3, <3>1 DEF NeverDeaf
  <2>5. CASE ~conn.closed
    BY <1>c, <2>1, <2>2, <2>3, <2>5 DEF NeverDeaf
  <2> QED BY <2>4, <2>5
<1>11. CASE KernelWrites
  <2>1. conn' = [conn EXCEPT !.wr = "ok"] /\ conn.wr = "pending"
        /\ wire' = Append(wire, conn.wbuf) /\ UNCHANGED <<posted, loop, nsent>>
    BY <1>11 DEF KernelWrites
  <2>2. /\ conn.queue \in Seq(Msg) /\ conn.queue # <<>> /\ conn.wbuf = Head(conn.queue)
        /\ conn.wbuf \in Msg
        /\ Backlog(conn) = conn.queue /\ Backlog(conn') = Tail(conn.queue)
        /\ ConnInv(Msg, conn') /\ ~conn.closed /\ conn'.closed = conn.closed /\ conn'.rd = conn.rd
    BY <2>1, WrittenInv
  <2>3. TypeOK'
    BY <2>1, <2>2 DEF TypeOK, ConnInv
  <2>4. ChannelStep
    BY <2>1, <2>2 DEF ChannelStep, Channel!Next, Channel!Deliver, ConnInv, Connection
  <2>5. LogStep
    <3>1. UNCHANGED Accepted
      BY <1>d, <2>1, <2>2, AcceptedAlgebra DEF Accepted
    <3> QED BY <2>1, <3>1 DEF LogStep
  <2> QED BY <2>1, <2>2, <2>3, <2>4, <2>5 DEF NeverDeaf
<1>12. CASE KernelWriteFails
  <2>1. conn' = [conn EXCEPT !.wr = "err"] /\ conn.wr = "pending"
        /\ UNCHANGED <<posted, loop, nsent, wire>>
    BY <1>12 DEF KernelWriteFails
  <2>2. ConnInv(Msg, conn') /\ Backlog(conn') = Backlog(conn) /\ conn'.closed = conn.closed
        /\ conn'.rd = conn.rd
    BY <2>1, WriteErrorInv
  <2>3. TypeOK'
    BY <2>1, <2>2 DEF TypeOK, ConnInv
  <2> QED BY <1>a, <2>1, <2>2, <2>3 DEF NeverDeaf
<1>13. CASE KernelReads \/ KernelReadFails
  <2>1. conn' \in {[conn EXCEPT !.rd = "ready"], [conn EXCEPT !.rd = "err"]}
        /\ conn.rd = "armed" /\ UNCHANGED <<posted, loop, nsent, wire>>
    BY <1>13 DEF KernelReads, KernelReadFails
  <2>2. ConnInv(Msg, conn') /\ Backlog(conn') = Backlog(conn) /\ conn'.closed = conn.closed
        /\ conn'.rd # "none"
    BY <2>1, ReadCompleteInv
  <2>3. TypeOK'
    BY <2>1, <2>2 DEF TypeOK, ConnInv
  <2> QED BY <1>a, <2>1, <2>2, <2>3 DEF NeverDeaf
<1>14. CASE UNCHANGED vars
  <2>1. TypeOK'
    BY <1>14 DEF vars, TypeOK
  <2> QED BY <1>14, <1>a, <2>1 DEF vars, NeverDeaf, Backlog
<1> QED
  BY <1>1, <1>2, <1>3, <1>4, <1>5, <1>6, <1>7, <1>8, <1>9, <1>10, <1>11, <1>12, <1>13,
     <1>14 DEF Next

\* The connection's state has its type for any set of senders.
THEOREM ConnectionTypeCorrect == Spec => []TypeOK
<1>1. Inv => TypeOK
  BY DEF Inv
<1> QED BY InitInv, StepInv, <1>1, PTL DEF Spec

\* Writes never overlap and the buffer of a write outlives it.
THEOREM ConnectionBufferPinned == Spec => []WriteBufferPinned
<1>1. Inv => WriteBufferPinned
  BY DEF Inv, ConnInv, Pinned, WriteBufferPinned
<1> QED BY InitInv, StepInv, <1>1, PTL DEF Spec

\* A queued message of an open connection always has a write in progress.
THEOREM ConnectionNoLostWakeup == Spec => []NoLostWakeup
<1>1. Inv => NoLostWakeup
  BY DEF Inv, ConnInv, Awake, NoLostWakeup
<1> QED BY InitInv, StepInv, <1>1, PTL DEF Spec

\* An open connection always has a read in progress or is in its callback.
THEOREM ConnectionNeverDeaf == Spec => []NeverDeaf
<1>1. Inv => NeverDeaf
  BY DEF Inv
<1> QED BY InitInv, StepInv, <1>1, PTL DEF Spec

\* The connection implements the abstract channel: whole messages, in order,
\* each once, none after Close.
THEOREM ConnectionImplementsChannel == Spec => ChannelSpec
<1>1. Init => Channel!Init
  BY DEF Init, Channel!Init, Start, DoRead, NewConnection, Backlog
<1>2. Inv /\ [Next]_vars => ChannelStep
  BY StepInv
<1> QED BY InitInv, StepInv, <1>1, <1>2, PTL
    DEF Spec, ChannelSpec, Channel!Spec, ChannelStep

-----------------------------------------------------------------------------
(* The order of each sender's messages *)

\* A log that holds count[t] messages of each sender t, in order.
InOrder(log, count) ==
  /\ \A i \in DOMAIN log : log[i][2] <= count[log[i][1]]
  /\ \A i, j \in DOMAIN log : i < j /\ log[i][1] = log[j][1] => log[i][2] < log[j][2]
  /\ \A t \in Senders : \A n \in 1 .. count[t] : \E i \in DOMAIN log : log[i] = <<t, n>>

\* The loop's own messages are never posted, so one that overtakes the posted tasks
\* overtakes no message of its sender.
OrderInv ==
  /\ InOrder(Accepted \o posted, nsent)
  /\ \A i \in DOMAIN posted : posted[i][1] \in Others

LEMMA MsgParts ==
  ASSUME NEW m \in Msg
  PROVE  m[1] \in Senders /\ m[2] \in 1 .. MaxSends /\ m = <<m[1], m[2]>>
BY DEF Msg

LEMMA Insertion ==
  ASSUME NEW s \in Seq(Msg), NEW u \in Seq(Msg), NEW m \in Msg
  PROVE  /\ s \o u \in Seq(Msg) /\ Append(s, m) \o u \in Seq(Msg)
         /\ Len(s) \in Nat /\ Len(u) \in Nat
         /\ DOMAIN (s \o u) = 1 .. Len(s) + Len(u)
         /\ DOMAIN (Append(s, m) \o u) = 1 .. Len(s) + Len(u) + 1
         /\ \A i \in 1 .. Len(s) : (Append(s, m) \o u)[i] = (s \o u)[i]
         /\ (Append(s, m) \o u)[Len(s) + 1] = m
         /\ \A i \in Len(s) + 1 .. Len(s) + Len(u) :
              (Append(s, m) \o u)[i + 1] = (s \o u)[i] /\ (s \o u)[i] = u[i - Len(s)]
<1>1. Append(s, m) \in Seq(Msg) /\ Len(Append(s, m)) = Len(s) + 1
      /\ Append(s, m)[Len(s) + 1] = m /\ \A i \in 1 .. Len(s) : Append(s, m)[i] = s[i]
  OBVIOUS
<1>2. /\ s \o u \in Seq(Msg) /\ Len(s \o u) = Len(s) + Len(u)
      /\ \A i \in 1 .. Len(s) + Len(u) : (s \o u)[i] = IF i <= Len(s) THEN s[i] ELSE u[i - Len(s)]
  BY ConcatProperties
<1>3. /\ Append(s, m) \o u \in Seq(Msg) /\ Len(Append(s, m) \o u) = Len(s) + 1 + Len(u)
      /\ \A i \in 1 .. Len(s) + 1 + Len(u) :
            (Append(s, m) \o u)[i] = IF i <= Len(s) + 1 THEN Append(s, m)[i] ELSE u[i - (Len(s) + 1)]
  BY <1>1, ConcatProperties
<1>4. Len(s) \in Nat /\ Len(u) \in Nat
  OBVIOUS
<1>5. ASSUME NEW i \in 1 .. Len(s) PROVE (Append(s, m) \o u)[i] = (s \o u)[i]
  BY <1>1, <1>2, <1>3, <1>4
<1>6. (Append(s, m) \o u)[Len(s) + 1] = m
  BY <1>1, <1>3, <1>4
<1>7. ASSUME NEW i \in Len(s) + 1 .. Len(s) + Len(u)
      PROVE  (Append(s, m) \o u)[i + 1] = (s \o u)[i] /\ (s \o u)[i] = u[i - Len(s)]
  <2>1. i \in 1 .. Len(s) + Len(u) /\ ~ (i <= Len(s)) /\ i + 1 \in 1 .. Len(s) + 1 + Len(u)
        /\ ~ (i + 1 <= Len(s) + 1) /\ i + 1 - (Len(s) + 1) = i - Len(s)
    BY <1>4
  <2> QED BY <1>2, <1>3, <2>1
<1> QED BY <1>2, <1>3, <1>4, <1>5, <1>6, <1>7

\* A sender's next message, put where none of its messages comes after it, keeps
\* every sender's order.
LEMMA InsertKeepsOrder ==
  ASSUME TypeOK, NEW s \in Seq(Msg), NEW u \in Seq(Msg), NEW t \in Senders,
         nsent[t] < MaxSends, nsent' = [nsent EXCEPT ![t] = @ + 1],
         \A i \in DOMAIN u : u[i][1] # t, InOrder(s \o u, nsent)
  PROVE  InOrder(Append(s, <<t, nsent[t] + 1>>) \o u, nsent')
<1> DEFINE m == <<t, nsent[t] + 1>>
           A == s \o u
           B == Append(s, m) \o u
           L == Len(s)
           N == Len(s) + Len(u)
<1>1. /\ m \in Msg /\ m[1] = t /\ m[2] = nsent[t] + 1
      /\ nsent[t] \in Nat /\ \A x \in Senders : nsent[x] \in Nat
      /\ nsent'[t] = nsent[t] + 1 /\ \A x \in Senders \ {t} : nsent'[x] = nsent[x]
  BY NextMsg DEF TypeOK
<1>2. /\ A \in Seq(Msg) /\ B \in Seq(Msg) /\ L \in Nat /\ N \in Nat /\ L <= N
      /\ DOMAIN A = 1 .. N /\ DOMAIN B = 1 .. N + 1
      /\ \A i \in 1 .. L : B[i] = A[i]
      /\ B[L + 1] = m
      /\ \A i \in L + 1 .. N : B[i + 1] = A[i] /\ A[i] = u[i - L] /\ i - L \in DOMAIN u
  BY SMTT(30), <1>1, Insertion
<1>3. ASSUME NEW i \in 1 .. N
      PROVE  A[i][1] \in Senders /\ A[i][2] \in Nat /\ A[i][2] <= nsent[A[i][1]]
             /\ (i > L => A[i][1] # t)
  <2>1. A[i] \in Msg
    BY <1>2
  <2>2. i > L => A[i][1] # t
    BY <1>2
  <2> QED BY <1>2, <2>1, <2>2, MsgParts DEF InOrder
<1>8. /\ \A i, j \in 1 .. N : i < j /\ A[i][1] = A[j][1] => A[i][2] < A[j][2]
      /\ \A x \in Senders : \A n \in 1 .. nsent[x] : \E i \in 1 .. N : A[i] = <<x, n>>
  BY ZenonT(30), <1>2 DEF InOrder
<1>9. m = <<t, nsent[t] + 1>> /\ L + 1 \in 1 .. N + 1
  BY <1>2
<1> HIDE DEF m, A, B, L, N
\* Where an element of the new log was in the old one.
<1> DEFINE Old(i) == IF i <= L THEN i ELSE i - 1
<1>4. ASSUME NEW i \in 1 .. N + 1, i # L + 1
      PROVE  Old(i) \in 1 .. N /\ B[i] = A[Old(i)]
  <2>1. CASE i <= L
    BY <1>2, <2>1
  <2>2. CASE ~ (i <= L)
    <3>1. i - 1 \in L + 1 .. N /\ (i - 1) + 1 = i
      BY <1>2, <1>4, <2>2
    <3>2. B[i] = A[i - 1]
      BY <1>2, <3>1
    <3> QED BY <1>2, <2>2, <3>1, <3>2
  <2> QED BY <2>1, <2>2
<1>5. ASSUME NEW i \in 1 .. N + 1 PROVE B[i][2] <= nsent'[B[i][1]]
  <2>1. CASE i = L + 1
    BY <1>1, <1>2, <2>1
  <2>2. CASE i # L + 1
    <3>1. PICK k \in 1 .. N : B[i] = A[k]
      BY <1>4, <2>2
    <3>2. A[k][1] \in Senders /\ A[k][2] \in Nat /\ A[k][2] <= nsent[A[k][1]]
      BY <1>3
    <3>3. nsent[A[k][1]] \in Nat /\ nsent'[A[k][1]] \in Nat /\ nsent[A[k][1]] <= nsent'[A[k][1]]
      BY <1>1, <3>2
    <3> QED BY <3>1, <3>2, <3>3
  <2> QED BY <2>1, <2>2
<1>6. ASSUME NEW i \in 1 .. N + 1, NEW j \in 1 .. N + 1, i < j, B[i][1] = B[j][1]
      PROVE  B[i][2] < B[j][2]
  <2>1. CASE i = L + 1
    <3>1. j # L + 1 /\ Old(j) \in 1 .. N /\ B[j] = A[Old(j)] /\ Old(j) > L
      BY <1>2, <1>4, <1>6, <2>1
    <3>2. A[Old(j)][1] # t
      BY <1>3, <3>1
    <3> QED BY <1>1, <1>2, <1>6, <2>1, <3>1, <3>2
  <2>2. CASE j = L + 1
    <3>1. i # L + 1 /\ Old(i) \in 1 .. N /\ B[i] = A[Old(i)]
      BY <1>2, <1>4, <1>6, <2>2
    <3>2. PICK k \in 1 .. N : B[i] = A[k]
      BY <3>1
    <3>3. A[k][1] = t /\ A[k][2] \in Nat /\ A[k][2] <= nsent[t]
      BY <1>1, <1>2, <1>3, <1>6, <2>2, <3>2
    <3> QED BY <1>1, <1>2, <2>2, <3>2, <3>3
  <2>3. CASE i # L + 1 /\ j # L + 1
    <3>1. Old(i) \in 1 .. N /\ B[i] = A[Old(i)] /\ Old(j) \in 1 .. N /\ B[j] = A[Old(j)]
      BY <1>4, <2>3
    <3>2. Old(i) < Old(j)
      BY <1>2, <1>6, <2>3
    <3>3. PICK k \in 1 .. N, l \in 1 .. N : k < l /\ B[i] = A[k] /\ B[j] = A[l]
      BY <3>1, <3>2
    <3> QED BY <1>6, <1>8, <3>3
  <2> QED BY <2>1, <2>2, <2>3
<1>7. ASSUME NEW x \in Senders, NEW n \in 1 .. nsent'[x]
      PROVE  \E i \in 1 .. N + 1 : B[i] = <<x, n>>
  <2>1. CASE x = t /\ n = nsent[t] + 1
    BY <1>2, <1>9, <2>1
  <2>2. CASE ~ (x = t /\ n = nsent[t] + 1)
    <3>1. n \in 1 .. nsent[x]
      BY <1>1, <2>2
    <3>2. PICK k \in 1 .. N : A[k] = <<x, n>>
      BY <1>8, <3>1
    <3>3. CASE k <= L
      <4>1. k \in 1 .. L /\ k \in 1 .. N + 1
        BY <1>2, <3>3
      <4> QED BY <1>2, <3>2, <4>1
    <3>4. CASE ~ (k <= L)
      <4>1. k \in L + 1 .. N /\ k + 1 \in 1 .. N + 1
        BY <1>2, <3>4
      <4> QED BY <1>2, <3>2, <4>1
    <3> QED BY <3>3, <3>4
  <2> QED BY <2>1, <2>2
<1>10. InOrder(B, nsent')
  <2>1. DOMAIN B = 1 .. N + 1
    BY <1>2
  <2>2. \A i \in DOMAIN B : B[i][2] <= nsent'[B[i][1]]
    BY <1>5, <2>1
  <2>3. \A i, j \in DOMAIN B : i < j /\ B[i][1] = B[j][1] => B[i][2] < B[j][2]
    BY <1>6, <2>1
  <2>4. \A x \in Senders : \A n \in 1 .. nsent'[x] : \E i \in DOMAIN B : B[i] = <<x, n>>
    BY <1>7, <2>1
  <2> QED BY <2>2, <2>3, <2>4 DEF InOrder
<1> QED BY <1>10 DEF B, m

\* Every step keeps the order.
LEMMA OrderStep ==
  ASSUME Inv, OrderInv, [Next]_vars
  PROVE  OrderInv'
<1>1. TypeOK /\ LogStep /\ Inv'
  BY StepInv DEF Inv
<1>2. Accepted \in Seq(Msg) /\ posted \in Seq(Msg)
  BY DEF Accepted, Inv, TypeOK, ConnInv, Connection, Pinned, Backlog
<1>3. CASE UNCHANGED <<Accepted, posted, nsent>>
  BY ZenonT(30), <1>3 DEF OrderInv, InOrder
<1>4. ASSUME NEW t \in Others, SendFromOther(t), UNCHANGED Accepted
      PROVE  OrderInv'
  <2> DEFINE m == <<t, nsent[t] + 1>>
  <2>1. /\ nsent[t] < MaxSends /\ nsent' = [nsent EXCEPT ![t] = @ + 1]
        /\ posted' = Append(posted, m) /\ t \in Senders
    BY <1>4 DEF SendFromOther, Senders
  <2>2. m \in Msg /\ m[1] = t
    BY <1>1, <2>1, NextMsg
  <2>3. InOrder(Append(Accepted \o posted, m) \o <<>>, nsent')
    <3>1. Accepted \o posted \in Seq(Msg) /\ <<>> \in Seq(Msg)
          /\ (Accepted \o posted) \o <<>> = Accepted \o posted
      BY <1>2
    <3>2. \A i \in DOMAIN <<>> : <<>>[i][1] # t
      OBVIOUS
    <3>3. InOrder((Accepted \o posted) \o <<>>, nsent)
      BY <3>1 DEF OrderInv
    <3> QED BY <1>1, <2>1, <3>1, <3>2, <3>3, InsertKeepsOrder
  <2>4. Append(Accepted \o posted, m) \o <<>> = Accepted \o Append(posted, m)
    <3>1. Accepted \o Append(posted, m) = Append(Accepted \o posted, m)
      BY <1>2, <2>2, AcceptedAlgebra
    <3>2. Append(Accepted \o posted, m) \in Seq(Msg)
      BY <1>2, <2>2
    <3> HIDE DEF m
    <3> QED BY <3>1, <3>2, ConcatEmptySeq
  <2>5. \A i \in DOMAIN posted' : posted'[i][1] \in Others
    <3>1. posted' \in Seq(Msg) /\ DOMAIN posted' = 1 .. Len(posted) + 1 /\ Len(posted) \in Nat
          /\ posted'[Len(posted) + 1] = m /\ \A i \in 1 .. Len(posted) : posted'[i] = posted[i]
      BY <1>2, <2>1, <2>2
    <3>2. \A i \in 1 .. Len(posted) + 1 : i \in 1 .. Len(posted) \/ i = Len(posted) + 1
      BY <3>1
    <3> QED BY SMTT(30), <1>2, <2>2, <3>1, <3>2 DEF OrderInv
  <2> QED BY <1>4, <2>1, <2>3, <2>4, <2>5 DEF OrderInv
<1>5. CASE SendFromLoop /\ Accepted' = Append(Accepted, <<Loop, nsent[Loop] + 1>>)
  <2>1. /\ nsent[Loop] < MaxSends /\ nsent' = [nsent EXCEPT ![Loop] = @ + 1]
        /\ posted' = posted /\ Loop \in Senders
    BY <1>5 DEF SendFromLoop, Senders
  <2>2. \A i \in DOMAIN posted : posted[i][1] # Loop
    BY DEF OrderInv
  <2>3. InOrder(Accepted' \o posted, nsent')
    BY <1>1, <1>2, <1>5, <2>1, <2>2, InsertKeepsOrder DEF OrderInv
  <2> QED BY <2>1, <2>3 DEF OrderInv
<1>6. CASE RunPosted /\ Accepted' = Append(Accepted, Head(posted))
  <2>1. posted # <<>> /\ posted' = Tail(posted) /\ nsent' = nsent
    BY <1>6 DEF RunPosted
  <2>2. Accepted' \o posted' = Accepted \o posted
    BY <1>2, <1>6, <2>1, AcceptedAlgebra
  <2>3. \A i \in DOMAIN posted' : posted'[i][1] \in Others
    <3>1. DOMAIN posted' = 1 .. Len(posted) - 1 /\ DOMAIN posted = 1 .. Len(posted)
          /\ Len(posted) \in Nat /\ \A i \in 1 .. Len(posted) - 1 : posted'[i] = posted[i + 1]
      BY <1>2, <2>1
    <3>2. \A i \in 1 .. Len(posted) - 1 : i + 1 \in 1 .. Len(posted)
      BY <3>1
    <3> QED BY <3>1, <3>2 DEF OrderInv
  <2>4. InOrder(Accepted' \o posted', nsent')
    BY <2>1, <2>2 DEF OrderInv
  <2> QED BY <2>3, <2>4 DEF OrderInv
<1> QED BY <1>1, <1>3, <1>4, <1>5, <1>6 DEF LogStep

\* Whatever number of threads send whatever they like, each thread's messages reach
\* the socket once each and in the order it sent them.
THEOREM ConnectionKeepsSenderOrder == Spec => []SenderOrder
<1>1. Init => OrderInv
  <2> SUFFICES ASSUME Init PROVE OrderInv
    OBVIOUS
  <2>1. Accepted \o posted = <<>> /\ posted = <<>> /\ \A t \in Senders : nsent[t] = 0
    BY DEF Init, Accepted, Start, DoRead, NewConnection, Backlog
  <2> QED BY <2>1 DEF OrderInv, InOrder
<1>2. Inv /\ OrderInv /\ [Next]_vars => Inv' /\ OrderInv'
  BY StepInv, OrderStep
<1>3. OrderInv => SenderOrder
  BY DEF OrderInv, InOrder, SenderOrder, Log, Accepted
<1> QED BY InitInv, <1>1, <1>2, <1>3, PTL DEF Spec

=============================================================================
