--------------------------- MODULE TcpServerProofs ---------------------------
(***************************************************************************)
(* Theorems about TcpServer, for any number of workers and of accepts and  *)
(* any limit on the round robin: the workers in the pool run as long as    *)
(* the server serves, and the shutdown leaves none.                        *)
(***************************************************************************)
EXTENDS TcpServer, TLAPS

-----------------------------------------------------------------------------
(* The initial states *)

LEMMA WorkersNotEmpty == N \in Nat /\ 1 \in Workers /\ N \in Workers
BY EventLoopThreadAssumption DEF Workers

LEMMA PooledBound == TypeOK => Pooled \in 0 .. N
BY WorkersNotEmpty DEF TypeOK, Pooled, Workers

LEMMA InitIInv == Init => IInv
<1> SUFFICES ASSUME Init PROVE IInv
  OBVIOUS
<1> USE WorkersNotEmpty DEF Init, InitWorkers
<1>1. TypeOK
  <2>1. /\ thread \in [Workers -> ThreadStates] /\ loop \in [Workers -> LoopStates]
        /\ work \in [Workers -> Nat]
    BY DEF ThreadStates, LoopStates
  <2>2. /\ mLoop \in [Workers -> BOOLEAN] /\ guard \in [Workers -> BOOLEAN]
        /\ stopped \in [Workers -> BOOLEAN]
    BY Zenon
  <2>3. main \in [pc : Starting, k : Workers]
    BY DEF Starting
  <2>4. loops \in Seq(Workers) /\ next \in 0 .. NextLimit /\ accepts \in 0 .. MaxAccepts
    BY TcpServerAssumption, EventLoopThreadAssumption
  <2>5. QED
    BY <2>1, <2>2, <2>3, <2>4 DEF TypeOK
<1>2. WorkerInv
  BY DEF WorkerInv
<1>3. NoneLeft /\ SpawnedInTurn /\ PooledInTurn /\ ArmedForWorker
  BY DEF NoneLeft, SpawnedInTurn, PooledInTurn, ArmedForWorker, Spawned, Pooled, At, Workers
<1>4. StoppingInv
  BY DEF StoppingInv
<1>5. QED
  BY <1>1, <1>2, <1>3, <1>4 DEF IInv

-----------------------------------------------------------------------------
(* The workers *)

\* A step of a worker's thread.
LEMMA WorkerKeepsIInv ==
    ASSUME IInv, NEW w \in Workers, Worker(w)
    PROVE  IInv'
<1> USE DEF IInv, Workers, poolVars
<1>1. CASE PublishAndNotify(w)
  <2> USE <1>1 DEF PublishAndNotify, Publish
  <2>1. TypeOK'
    BY DEF TypeOK, ThreadStates, LoopStates, Starting, At
  <2>2. WorkerInv'
    BY DEF TypeOK, WorkerInv, ThreadStates
  <2>3. NoneLeft'
    BY DEF TypeOK, NoneLeft, WorkerInv, LoopStates, Serving, Starting, At
  <2>4. SpawnedInTurn'
    BY DEF TypeOK, NoneLeft, SpawnedInTurn, Spawned, Serving, Starting, At
  <2>5. PooledInTurn'
    BY PooledBound DEF TypeOK, NoneLeft, WorkerInv, LoopStates, PooledInTurn, Pooled, Serving,
       Starting, At
  <2>6. ArmedForWorker'
    BY DEF TypeOK, ArmedForWorker, At
  <2>7. StoppingInv'
    BY DEF TypeOK, StoppingInv, WorkerInv, At
  <2>8. QED
    BY <2>1, <2>2, <2>3, <2>4, <2>5, <2>6, <2>7
<1>2. ASSUME WorkerStep(w), UNCHANGED <<main, poolVars, acceptor, signalled, misused, accepts>>
      PROVE  IInv'
  <2>1. CASE Construct(w)
    <3> USE <1>2, <2>1 DEF Construct
    <3>1. TypeOK'
      BY DEF TypeOK, ThreadStates, LoopStates
    <3>2. WorkerInv'
      BY DEF TypeOK, WorkerInv, ThreadStates
    <3>3. NoneLeft'
      BY DEF TypeOK, NoneLeft, WorkerInv, LoopStates, Serving, Starting, At
    <3>4. SpawnedInTurn'
      BY DEF TypeOK, NoneLeft, SpawnedInTurn, Spawned, Serving, Starting, At
    <3>5. PooledInTurn'
      BY PooledBound DEF TypeOK, NoneLeft, WorkerInv, LoopStates, PooledInTurn, Pooled, Serving,
         Starting, At
    <3>6. ArmedForWorker'
      BY DEF TypeOK, ArmedForWorker, At
    <3>7. StoppingInv'
      BY DEF TypeOK, StoppingInv, WorkerInv, At
    <3>8. QED
      BY <3>1, <3>2, <3>3, <3>4, <3>5, <3>6, <3>7
  <2>2. CASE EnterRun(w)
    <3> USE <1>2, <2>2 DEF EnterRun
    <3>1. TypeOK'
      BY DEF TypeOK, ThreadStates, LoopStates
    <3>2. WorkerInv'
      BY DEF TypeOK, WorkerInv, ThreadStates
    <3>3. NoneLeft'
      BY DEF TypeOK, NoneLeft, WorkerInv, LoopStates, Serving, Starting, At
    <3>4. SpawnedInTurn'
      BY DEF TypeOK, NoneLeft, SpawnedInTurn, Spawned, Serving, Starting, At
    <3>5. PooledInTurn'
      BY PooledBound DEF TypeOK, NoneLeft, WorkerInv, LoopStates, PooledInTurn, Pooled, Serving,
         Starting, At
    <3>6. ArmedForWorker'
      BY DEF TypeOK, ArmedForWorker, At
    <3>7. StoppingInv'
      BY DEF TypeOK, StoppingInv, WorkerInv, At
    <3>8. QED
      BY <3>1, <3>2, <3>3, <3>4, <3>5, <3>6, <3>7
  <2>3. CASE LeaveRun(w)
    <3> USE <1>2, <2>3 DEF LeaveRun
    <3>1. TypeOK'
      BY DEF TypeOK, ThreadStates, LoopStates
    <3>2. WorkerInv'
      BY DEF TypeOK, WorkerInv, ThreadStates
    <3>3. NoneLeft'
      BY DEF TypeOK, NoneLeft, WorkerInv, LoopStates, Serving, Starting, At
    <3>4. SpawnedInTurn'
      BY DEF TypeOK, NoneLeft, SpawnedInTurn, Spawned, Serving, Starting, At
    <3>5. PooledInTurn'
      BY PooledBound DEF TypeOK, NoneLeft, WorkerInv, LoopStates, PooledInTurn, Pooled, Serving,
         Starting, At
    <3>6. ArmedForWorker'
      BY DEF TypeOK, ArmedForWorker, At
    <3>7. StoppingInv'
      BY DEF TypeOK, StoppingInv, WorkerInv, At
    <3>8. QED
      BY <3>1, <3>2, <3>3, <3>4, <3>5, <3>6, <3>7
  <2>4. CASE Unpublish(w)
    <3> USE <1>2, <2>4 DEF Unpublish
    <3>1. TypeOK'
      BY DEF TypeOK, ThreadStates, LoopStates
    <3>2. WorkerInv'
      BY DEF TypeOK, WorkerInv, ThreadStates
    <3>3. NoneLeft'
      BY DEF TypeOK, NoneLeft, WorkerInv, LoopStates, Serving, Starting, At
    <3>4. SpawnedInTurn'
      BY DEF TypeOK, NoneLeft, SpawnedInTurn, Spawned, Serving, Starting, At
    <3>5. PooledInTurn'
      BY PooledBound DEF TypeOK, NoneLeft, WorkerInv, LoopStates, PooledInTurn, Pooled, Serving,
         Starting, At
    <3>6. ArmedForWorker'
      BY DEF TypeOK, ArmedForWorker, At
    <3>7. StoppingInv'
      BY DEF TypeOK, StoppingInv, WorkerInv, At
    <3>8. QED
      BY <3>1, <3>2, <3>3, <3>4, <3>5, <3>6, <3>7
  <2>5. CASE ThreadEnds(w)
    <3> USE <1>2, <2>5 DEF ThreadEnds
    <3>1. TypeOK'
      BY DEF TypeOK, ThreadStates, LoopStates
    <3>2. WorkerInv'
      BY DEF TypeOK, WorkerInv, ThreadStates
    <3>3. NoneLeft'
      BY DEF TypeOK, NoneLeft, WorkerInv, LoopStates, Serving, Starting, At
    <3>4. SpawnedInTurn'
      BY DEF TypeOK, NoneLeft, SpawnedInTurn, Spawned, Serving, Starting, At
    <3>5. PooledInTurn'
      BY PooledBound DEF TypeOK, NoneLeft, WorkerInv, LoopStates, PooledInTurn, Pooled, Serving,
         Starting, At
    <3>6. ArmedForWorker'
      BY DEF TypeOK, ArmedForWorker, At
    <3>7. StoppingInv'
      BY DEF TypeOK, StoppingInv, WorkerInv, At
    <3>8. QED
      BY <3>1, <3>2, <3>3, <3>4, <3>5, <3>6, <3>7
  <2>6. QED
    BY <1>2, <2>1, <2>2, <2>3, <2>4, <2>5 DEF WorkerStep
<1>3. QED
  BY <1>1, <1>2 DEF Worker

\* A connection ends.
LEMMA ConnectionKeepsIInv ==
    ASSUME IInv, NEW w \in Workers, Connection(w)
    PROVE  IInv'
<1> USE DEF IInv, Connection, ConnectionEnds, poolVars
<1>1. TypeOK'
  BY DEF TypeOK
<1>2. WorkerInv'
  BY DEF TypeOK, WorkerInv
<1>3. NoneLeft' /\ SpawnedInTurn' /\ PooledInTurn' /\ ArmedForWorker' /\ StoppingInv'
  BY DEF NoneLeft, SpawnedInTurn, PooledInTurn, ArmedForWorker, StoppingInv, Spawned, Pooled,
         Serving, At
<1>4. QED
  BY <1>1, <1>2, <1>3

-----------------------------------------------------------------------------
(* Starting and serving *)

\* doAccept arms an accept for a worker of the pool.
LEMMA DoAcceptType ==
    ASSUME TypeOK, NEW isOpen \in BOOLEAN, DoAccept(isOpen)
    PROVE  /\ acceptor' \in [open : BOOLEAN, state : {"none", "pending", "ok", "err"},
                             worker : Workers \cup {BaseLoop}]
           /\ loops' = loops /\ next' \in 0 .. NextLimit
           /\ loops # <<>> => acceptor'.worker \in Workers
<1>1. next' \in 0 .. NextLimit
  BY TcpServerAssumption DEF TypeOK, DoAccept, AfterNext
<1>2. CASE loops = <<>>
  BY <1>1, <1>2 DEF DoAccept
<1>3. CASE loops # <<>>
  <2>1. Len(loops) \in Nat \ {0}
    BY <1>3 DEF TypeOK
  <2>2. next % Len(loops) \in 0 .. Len(loops) - 1
    BY <2>1, TcpServerAssumption DEF TypeOK
  <2>3. loops[(next % Len(loops)) + 1] \in Workers
    BY <2>1, <2>2 DEF TypeOK
  <2>4. QED
    BY <1>1, <1>3, <2>3 DEF DoAccept
<1>4. QED
  BY <1>2, <1>3

LEMMA StartKeepsIInv ==
    ASSUME IInv, Spawn \/ WaitForLoop \/ SpuriousWake \/ LoopStarted \/ StartAccepting
    PROVE  IInv'
<1> USE WorkersNotEmpty DEF IInv, Workers, At, Goto, poolVars, workerVars
<1>1. CASE Spawn
  <2> USE <1>1 DEF Spawn
  <2>1. TypeOK'
    BY DEF TypeOK, Starting, ThreadStates
  <2>2. WorkerInv'
    BY DEF TypeOK, WorkerInv, SpawnedInTurn, Spawned, Serving, Starting, LoopStates
  <2>3. NoneLeft'
    BY DEF TypeOK, NoneLeft, Serving, Starting, WorkerInv, SpawnedInTurn, Spawned
  <2>4. SpawnedInTurn'
    BY DEF TypeOK, SpawnedInTurn, Spawned, Serving, Starting
  <2>5. PooledInTurn'
    BY DEF TypeOK, PooledInTurn, Pooled, Serving, Starting
  <2>6. ArmedForWorker'
    BY DEF ArmedForWorker
  <2>7. StoppingInv'
    BY DEF TypeOK, StoppingInv
  <2>8. QED
    BY <2>1, <2>2, <2>3, <2>4, <2>5, <2>6, <2>7
<1>2. CASE WaitForLoop
  <2> USE <1>2 DEF WaitForLoop
  <2>1. TypeOK'
    BY DEF TypeOK, Starting
  <2>2. WorkerInv'
    BY DEF TypeOK, WorkerInv
  <2>3. NoneLeft'
    BY DEF TypeOK, NoneLeft, Serving, Starting
  <2>4. SpawnedInTurn'
    BY DEF TypeOK, SpawnedInTurn, Spawned, Serving, Starting
  <2>5. PooledInTurn'
    BY DEF TypeOK, PooledInTurn, Pooled, Serving, Starting
  <2>6. ArmedForWorker'
    BY DEF ArmedForWorker
  <2>7. StoppingInv'
    BY DEF TypeOK, StoppingInv
  <2>8. QED
    BY <2>1, <2>2, <2>3, <2>4, <2>5, <2>6, <2>7
<1>3. CASE SpuriousWake
  <2> USE <1>3 DEF SpuriousWake
  <2>1. TypeOK'
    BY DEF TypeOK, Starting
  <2>2. WorkerInv'
    BY DEF TypeOK, WorkerInv
  <2>3. NoneLeft'
    BY DEF TypeOK, NoneLeft, Serving, Starting
  <2>4. SpawnedInTurn'
    BY DEF TypeOK, SpawnedInTurn, Spawned, Serving, Starting
  <2>5. PooledInTurn'
    BY DEF TypeOK, PooledInTurn, Pooled, Serving, Starting
  <2>6. ArmedForWorker'
    BY DEF ArmedForWorker
  <2>7. StoppingInv'
    BY DEF TypeOK, StoppingInv
  <2>8. QED
    BY <2>1, <2>2, <2>3, <2>4, <2>5, <2>6, <2>7
<1>4. CASE LoopStarted
  <2> USE <1>4 DEF LoopStarted
  <2>1. TypeOK'
    BY DEF TypeOK, Starting, NextWorker
  <2>2. WorkerInv'
    BY DEF TypeOK, WorkerInv
  <2>3. NoneLeft'
    BY DEF TypeOK, NoneLeft, Serving, Starting, NextWorker
  <2>4. SpawnedInTurn'
    BY DEF TypeOK, SpawnedInTurn, Spawned, Serving, Starting, NextWorker
  <2>5. PooledInTurn'
    <3>1. Len(loops) = main.k - 1 /\ loops' = Append(loops, main.k)
      BY DEF PooledInTurn, Pooled, Serving, Starting
    <3>2. Len(loops') = main.k /\ \A i \in 1 .. main.k - 1 : loops'[i] = loops[i]
      BY <3>1 DEF TypeOK
    <3>3. loops'[main.k] = main.k
      BY <3>1 DEF TypeOK
    <3>4. thread[main.k] \in {"published", "running"}
      BY DEF TypeOK, WorkerInv, NoneLeft, Serving, Starting
    <3>5. Pooled' = main.k
      BY DEF TypeOK, Pooled, NextWorker
    <3>6. \A i \in 1 .. main.k - 1 : loops[i] = i /\ thread[i] \in {"published", "running"}
      BY DEF PooledInTurn, Pooled, Serving, Starting
    <3>7. QED
      BY <3>2, <3>3, <3>4, <3>5, <3>6 DEF TypeOK, PooledInTurn
  <2>6. ArmedForWorker'
    BY DEF ArmedForWorker, NextWorker
  <2>7. StoppingInv'
    BY SMTT(30) DEF TypeOK, StoppingInv, NextWorker
  <2>8. QED
    BY <2>1, <2>2, <2>3, <2>4, <2>5, <2>6, <2>7
<1>5. CASE StartAccepting
  <2> USE <1>5 DEF StartAccepting
  <2>1. DoAccept(TRUE) /\ TypeOK /\ loops' = loops
    BY DoAcceptType
  <2>2. loops # <<>>
    BY DEF PooledInTurn, Pooled, Serving, Starting
  <2>3. acceptor'.worker \in Workers
    BY <2>1, <2>2, DoAcceptType
  <2>4. TypeOK'
    BY DoAcceptType DEF TypeOK
  <2>5. WorkerInv'
    BY DEF TypeOK, WorkerInv
  <2>6. NoneLeft'
    BY DEF TypeOK, NoneLeft, Serving, Starting
  <2>7. SpawnedInTurn'
    BY DEF TypeOK, SpawnedInTurn, Spawned, Serving, Starting
  <2>8. PooledInTurn'
    BY <2>1, DoAcceptType DEF PooledInTurn, Pooled, Serving, Starting
  <2>9. ArmedForWorker'
    BY <2>3 DEF ArmedForWorker, BaseLoop
  <2>10. StoppingInv'
    BY DEF TypeOK, StoppingInv
  <2>11. QED
    BY <2>1, <2>2, <2>3, <2>4, <2>5, <2>6, <2>7, <2>8, <2>9, <2>10
<1>6. QED
  BY <1>1, <1>2, <1>3, <1>4, <1>5

\* The base loop's handlers but the one for signals, and what happens outside.
LEMMA ServeKeepsIInv ==
    ASSUME IInv,
           AcceptHandler \/ Signal \/ Crash \/ \E result \in {"ok", "err"} : AcceptCompletes(result)
    PROVE  IInv'
<1> USE WorkersNotEmpty, EventLoopThreadAssumption
    DEF IInv, Workers, At, Goto, poolVars, workerVars
<1>1. CASE AcceptHandler
  <2> USE <1>1 DEF AcceptHandler
  <2>1. DoAccept(acceptor.open) /\ acceptor.open \in BOOLEAN /\ loops # <<>>
    BY DEF TypeOK, PooledInTurn, Pooled, Serving
  <2>2. acceptor.worker \in Workers /\ thread[acceptor.worker] # "ended"
    BY DEF TypeOK, ArmedForWorker, NoneLeft, Serving, BaseLoop
  <2>3. TypeOK'
    <3>1. work' \in [Workers -> Nat]
      BY <2>2 DEF TypeOK
    <3>2. QED
      BY <2>1, <3>1, DoAcceptType DEF TypeOK
  <2>4. WorkerInv'
    BY <2>2 DEF TypeOK, WorkerInv
  <2>5. NoneLeft' /\ SpawnedInTurn'
    BY DEF NoneLeft, SpawnedInTurn, Spawned, Serving
  <2>6. PooledInTurn'
    BY <2>1, DoAcceptType DEF PooledInTurn, Pooled, Serving
  <2>7. ArmedForWorker'
    BY <2>1, DoAcceptType DEF ArmedForWorker, BaseLoop
  <2>8. StoppingInv'
    BY DEF StoppingInv
  <2>9. QED
    BY <2>1, <2>2, <2>3, <2>4, <2>5, <2>6, <2>7, <2>8
<1>2. CASE Signal
  <2> USE <1>2 DEF Signal
  <2>1. TypeOK'
    BY DEF TypeOK, Starting
  <2>2. WorkerInv'
    BY DEF TypeOK, WorkerInv
  <2>3. NoneLeft'
    BY DEF TypeOK, NoneLeft, Serving, Starting
  <2>4. SpawnedInTurn'
    BY DEF TypeOK, SpawnedInTurn, Spawned, Serving, Starting
  <2>5. PooledInTurn'
    BY DEF TypeOK, PooledInTurn, Pooled, Serving, Starting
  <2>6. ArmedForWorker'
    BY DEF ArmedForWorker
  <2>7. StoppingInv'
    BY DEF TypeOK, StoppingInv
  <2>8. QED
    BY <2>1, <2>2, <2>3, <2>4, <2>5, <2>6, <2>7
<1>3. CASE \E result \in {"ok", "err"} : AcceptCompletes(result)
  <2> USE <1>3 DEF AcceptCompletes
  <2>1. TypeOK'
    <3>1. acceptor' \in [open : BOOLEAN, state : {"none", "pending", "ok", "err"},
                       worker : Workers \cup {BaseLoop}]
      BY DEF TypeOK
    <3>2. accepts' \in 0 .. MaxAccepts
      BY DEF TypeOK
    <3>3. QED
      BY <3>1, <3>2 DEF TypeOK
  <2>2. WorkerInv'
    BY DEF TypeOK, WorkerInv
  <2>3. NoneLeft'
    BY DEF TypeOK, NoneLeft, Serving, Starting
  <2>4. SpawnedInTurn'
    BY DEF TypeOK, SpawnedInTurn, Spawned, Serving, Starting
  <2>5. PooledInTurn'
    BY DEF TypeOK, PooledInTurn, Pooled, Serving, Starting
  <2>6. ArmedForWorker'
    BY DEF ArmedForWorker
  <2>7. StoppingInv'
    BY DEF TypeOK, StoppingInv
  <2>8. QED
    BY <2>1, <2>2, <2>3, <2>4, <2>5, <2>6, <2>7
<1>4. CASE Crash
  <2> USE <1>4 DEF Crash
  <2>1. TypeOK'
    BY DEF TypeOK, Starting, Ended
  <2>2. WorkerInv'
    BY DEF TypeOK, WorkerInv
  <2>3. NoneLeft'
    BY DEF TypeOK, NoneLeft, Serving, Starting
  <2>4. SpawnedInTurn'
    BY DEF TypeOK, SpawnedInTurn, Spawned, Serving, Starting
  <2>5. PooledInTurn'
    BY DEF TypeOK, PooledInTurn, Pooled, Serving, Starting
  <2>6. ArmedForWorker'
    BY DEF ArmedForWorker
  <2>7. StoppingInv'
    BY DEF TypeOK, StoppingInv
  <2>8. QED
    BY <2>1, <2>2, <2>3, <2>4, <2>5, <2>6, <2>7
<1>5. QED
  BY <1>1, <1>2, <1>3, <1>4

-----------------------------------------------------------------------------
(* Stopping *)

\* Every step of the signal handler is past serving.
LEMMA ShutdownKeepsIInv ==
    ASSUME IInv, Shutdown
    PROVE  IInv'
<1> USE WorkersNotEmpty
    DEF IInv, Workers, At, Goto, poolVars, workerVars, Quitting, NextWorker, Use
<1>1. CASE SignalHandler
  <2> USE <1>1 DEF SignalHandler
  <2>1. TypeOK'
    BY DEF TypeOK, Stopping
  <2>2. WorkerInv'
    BY DEF TypeOK, WorkerInv
  <2>3. ~Serving' /\ ~At("serve")'
    BY DEF TypeOK, Serving, Starting
  <2>4. NoneLeft' /\ SpawnedInTurn' /\ PooledInTurn' /\ ArmedForWorker'
    BY <2>3 DEF NoneLeft, SpawnedInTurn, PooledInTurn, ArmedForWorker
  <2>5. StoppingInv'
    BY DEF TypeOK, StoppingInv
  <2>6. QED
    BY <2>1, <2>2, <2>3, <2>4, <2>5
<1>2. CASE QuitResetsGuard
  <2> USE <1>2 DEF QuitResetsGuard
  <2>1. TypeOK'
    BY DEF TypeOK, Stopping
  <2>2. WorkerInv'
    BY DEF TypeOK, WorkerInv
  <2>3. ~Serving' /\ ~At("serve")'
    BY DEF TypeOK, Serving, Starting
  <2>4. NoneLeft' /\ SpawnedInTurn' /\ PooledInTurn' /\ ArmedForWorker'
    BY <2>3 DEF NoneLeft, SpawnedInTurn, PooledInTurn, ArmedForWorker
  <2>5. StoppingInv'
    BY DEF TypeOK, StoppingInv
  <2>6. QED
    BY <2>1, <2>2, <2>3, <2>4, <2>5
<1>3. CASE QuitStops
  <2> USE <1>3 DEF QuitStops
  <2>1. TypeOK'
    BY DEF TypeOK, Stopping
  <2>2. WorkerInv'
    BY DEF TypeOK, WorkerInv
  <2>3. ~Serving' /\ ~At("serve")'
    BY DEF TypeOK, Serving, Starting
  <2>4. NoneLeft' /\ SpawnedInTurn' /\ PooledInTurn' /\ ArmedForWorker'
    BY <2>3 DEF NoneLeft, SpawnedInTurn, PooledInTurn, ArmedForWorker
  <2>5. StoppingInv'
    BY SMTT(30) DEF TypeOK, StoppingInv
  <2>6. QED
    BY <2>1, <2>2, <2>3, <2>4, <2>5
<1>4. CASE DtorReadsLoop
  <2> USE <1>4 DEF DtorReadsLoop
  <2>1. TypeOK'
    BY DEF TypeOK, Stopping
  <2>2. WorkerInv'
    BY DEF TypeOK, WorkerInv
  <2>3. ~Serving' /\ ~At("serve")'
    BY DEF TypeOK, Serving, Starting
  <2>4. NoneLeft' /\ SpawnedInTurn' /\ PooledInTurn' /\ ArmedForWorker'
    BY <2>3 DEF NoneLeft, SpawnedInTurn, PooledInTurn, ArmedForWorker
  <2>5. StoppingInv'
    BY DEF TypeOK, StoppingInv
  <2>6. QED
    BY <2>1, <2>2, <2>3, <2>4, <2>5
<1>5. CASE DtorResetsGuard
  <2> USE <1>5 DEF DtorResetsGuard
  <2>1. TypeOK'
    BY DEF TypeOK, Stopping
  <2>2. WorkerInv'
    BY DEF TypeOK, WorkerInv
  <2>3. ~Serving' /\ ~At("serve")'
    BY DEF TypeOK, Serving, Starting
  <2>4. NoneLeft' /\ SpawnedInTurn' /\ PooledInTurn' /\ ArmedForWorker'
    BY <2>3 DEF NoneLeft, SpawnedInTurn, PooledInTurn, ArmedForWorker
  <2>5. StoppingInv'
    BY DEF TypeOK, StoppingInv
  <2>6. QED
    BY <2>1, <2>2, <2>3, <2>4, <2>5
<1>6. CASE DtorStops
  <2> USE <1>6 DEF DtorStops
  <2>1. TypeOK'
    BY DEF TypeOK, Stopping
  <2>2. WorkerInv'
    BY DEF TypeOK, WorkerInv
  <2>3. ~Serving' /\ ~At("serve")'
    BY DEF TypeOK, Serving, Starting
  <2>4. NoneLeft' /\ SpawnedInTurn' /\ PooledInTurn' /\ ArmedForWorker'
    BY <2>3 DEF NoneLeft, SpawnedInTurn, PooledInTurn, ArmedForWorker
  <2>5. StoppingInv'
    BY DEF TypeOK, StoppingInv
  <2>6. QED
    BY <2>1, <2>2, <2>3, <2>4, <2>5
<1>7. CASE DtorJoins
  <2> USE <1>7 DEF DtorJoins
  <2>1. TypeOK'
    BY DEF TypeOK, Stopping
  <2>2. WorkerInv'
    BY DEF TypeOK, WorkerInv
  <2>3. ~Serving' /\ ~At("serve")'
    BY DEF TypeOK, Serving, Starting
  <2>4. NoneLeft' /\ SpawnedInTurn' /\ PooledInTurn' /\ ArmedForWorker'
    BY <2>3 DEF NoneLeft, SpawnedInTurn, PooledInTurn, ArmedForWorker
  <2>5. StoppingInv'
    BY DEF TypeOK, StoppingInv
  <2>6. QED
    BY <2>1, <2>2, <2>3, <2>4, <2>5
<1>8. CASE CloseAcceptor
  <2> USE <1>8 DEF CloseAcceptor
  <2>1. TypeOK'
    <3>1. acceptor' \in [open : BOOLEAN, state : {"none", "pending", "ok", "err"},
                       worker : Workers \cup {BaseLoop}]
      BY DEF TypeOK
    <3>2. loops' \in Seq(Workers) /\ main' \in [pc : Stopping, k : Workers]
      BY DEF Stopping
    <3>3. QED
      BY <3>1, <3>2 DEF TypeOK
  <2>2. WorkerInv'
    BY DEF TypeOK, WorkerInv
  <2>3. ~Serving' /\ ~At("serve")'
    BY DEF TypeOK, Serving, Starting
  <2>4. NoneLeft' /\ SpawnedInTurn' /\ PooledInTurn' /\ ArmedForWorker'
    BY <2>3 DEF NoneLeft, SpawnedInTurn, PooledInTurn, ArmedForWorker
  <2>5. StoppingInv'
    BY DEF TypeOK, StoppingInv
  <2>6. QED
    BY <2>1, <2>2, <2>3, <2>4, <2>5
<1>9. CASE QuitBaseLoop
  <2> USE <1>9 DEF QuitBaseLoop
  <2>1. TypeOK'
    BY DEF TypeOK, Stopping, Ended
  <2>2. WorkerInv'
    BY DEF TypeOK, WorkerInv
  <2>3. ~Serving' /\ ~At("serve")'
    BY DEF TypeOK, Serving, Starting
  <2>4. NoneLeft' /\ SpawnedInTurn' /\ PooledInTurn' /\ ArmedForWorker'
    BY <2>3 DEF NoneLeft, SpawnedInTurn, PooledInTurn, ArmedForWorker
  <2>5. StoppingInv'
    BY DEF TypeOK, StoppingInv
  <2>6. QED
    BY <2>1, <2>2, <2>3, <2>4, <2>5
<1>10. QED
  BY <1>1, <1>2, <1>3, <1>4, <1>5, <1>6, <1>7, <1>8, <1>9 DEF Shutdown

LEMMA NextKeepsIInv == IInv /\ [Next]_vars => IInv'
<1> SUFFICES ASSUME IInv, [Next]_vars PROVE IInv'
  OBVIOUS
<1>1. CASE MainStep
  BY <1>1, StartKeepsIInv, ShutdownKeepsIInv DEF MainStep
<1>2. CASE SpuriousWake
  BY <1>2, StartKeepsIInv
<1>3. CASE AcceptHandler \/ Signal \/ Crash \/ \E result \in {"ok", "err"} : AcceptCompletes(result)
  BY <1>3, ServeKeepsIInv
<1>4. CASE \E w \in Workers : Worker(w) \/ Connection(w)
  BY <1>4, WorkerKeepsIInv, ConnectionKeepsIInv
<1>5. CASE UNCHANGED vars
  <2> USE <1>5 DEF vars, workerVars, poolVars
  <2>1. TypeOK'
    BY DEF IInv, TypeOK
  <2>2. WorkerInv' /\ NoneLeft' /\ StoppingInv' /\ ArmedForWorker'
    BY DEF IInv, WorkerInv, NoneLeft, StoppingInv, ArmedForWorker, Serving, At
  <2>3. SpawnedInTurn' /\ PooledInTurn'
    BY DEF IInv, SpawnedInTurn, PooledInTurn, Spawned, Pooled, Serving, At
  <2>4. QED
    BY <2>1, <2>2, <2>3 DEF IInv
<1>6. QED
  BY <1>1, <1>2, <1>3, <1>4, <1>5 DEF Next

THEOREM Invariance == Spec => []IInv
<1>1. IInv /\ [Next]_vars => IInv'
  BY NextKeepsIInv
<1>2. QED
  BY <1>1, InitIInv, PTL DEF Spec

-----------------------------------------------------------------------------
(* The theorems *)

\* The round robin's counter stays within its limit, whatever the number of
\* connections, and every state is of its type.
THEOREM TypeCorrect == Spec => []TypeOK
<1>1. IInv => TypeOK
  BY DEF IInv
<1>2. QED
  BY <1>1, Invariance, PTL

\* No connection is handed to a loop that is not run: whatever the threads do
\* between start's wait and the publication of the loop, and however many
\* connections end, no worker leaves its loop before the server stops.
THEOREM PoolRuns == Spec => []PooledLoopsRun
<1>1. IInv => PooledLoopsRun
  <2> SUFFICES ASSUME IInv, main.pc \in Starting \cup {"serve"}
               PROVE  /\ \A i \in DOMAIN loops :
                          /\ loop[loops[i]] = "alive"
                          /\ thread[loops[i]] \in {"published", "running"}
                      /\ At("serve") => Len(loops) = N /\ acceptor.worker # BaseLoop
    BY DEF PooledLoopsRun
  <2>1. Pooled <= N /\ Pooled \in Nat
    BY WorkersNotEmpty DEF IInv, TypeOK, Pooled, Workers
  <2>2. Len(loops) = Pooled /\ DOMAIN loops = 1 .. Pooled
    BY DEF IInv, TypeOK, PooledInTurn, Serving
  <2>3. ASSUME NEW i \in DOMAIN loops
        PROVE  loop[loops[i]] = "alive" /\ thread[loops[i]] \in {"published", "running"}
    <3>1. i \in Workers
      BY <2>1, <2>2, WorkersNotEmpty DEF Workers
    <3>2. loops[i] = i /\ thread[i] \in {"published", "running"}
      BY <2>2 DEF IInv, PooledInTurn, Serving
    <3>3. loop[i] = "alive"
      BY <3>1, <3>2 DEF IInv, TypeOK, WorkerInv, LoopStates
    <3>4. QED
      BY <3>2, <3>3
  <2>4. At("serve") => Len(loops) = N /\ acceptor.worker # BaseLoop
    BY <2>2 DEF IInv, Pooled, ArmedForWorker, At
  <2>5. QED
    BY <2>3, <2>4
<1>2. QED
  BY <1>1, Invariance, PTL

\* The destructor's Quit finds a loop that pool.stop has stopped, so that nothing
\* depends on the m_loop it read without the lock, and the shutdown joins every
\* thread and destroys every loop.
THEOREM ShutdownIsComplete == Spec => []NoThreadLeft
<1>1. IInv => NoThreadLeft
  BY DEF IInv, TypeOK, StoppingInv, WorkerInv, NoThreadLeft
<1>2. QED
  BY <1>1, Invariance, PTL
===============================================================================
