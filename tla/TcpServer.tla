------------------------------ MODULE TcpServer ------------------------------
(***************************************************************************)
(* The server's life: main, RtmpServer and TcpServer on the main thread,   *)
(* from the start of the worker threads through accepting connections to   *)
(* the shutdown that SIGINT or SIGTERM asks for.                           *)
(*                                                                         *)
(* `main' says where the main thread is and which worker it is at; in      *)
(* "serve" it is in the base loop, between two handlers.                   *)
(***************************************************************************)
EXTENDS EventLoopThread

CONSTANTS NextLimit     \* GetNextLoop's limit on m_next, 1000000 in the code

ASSUME TcpServerAssumption == NextLimit \in Nat \ {0}

VARIABLES
    main,       \* the main thread: pc, and the worker k it is at
    loops,      \* EventLoopThreadPool::m_loops, by worker
    next,       \* EventLoopThreadPool::m_next
    acceptor,   \* m_acceptor: open, its pending accept, the worker that is for
    signalled,  \* SIGINT or SIGTERM has arrived
    misused,    \* a function of a destroyed Eventloop was called: undefined
    accepts     \* accepts that completed while serving, at most MaxAccepts

poolVars == <<loops, next>>
vars == <<workerVars, main, poolVars, acceptor, signalled, misused, accepts>>

BaseLoop == 0   \* m_base_loop, where GetNextLoop returns it for a worker's

Starting == {"spawn", "check", "asleep", "arm"}
Stopping == {"resetGuard", "stop", "readLoop", "dtorResetGuard", "dtorStop", "join",
             "close", "baseQuit"}
Ended    == {"exited", "crashed"}

At(p) == main.pc = p
Goto(p, i) == main' = [pc |-> p, k |-> i]

\* On to the next worker, or past the last one.
NextWorker(p, q) == IF main.k < N THEN Goto(p, main.k + 1) ELSE Goto(q, 1)

Init ==
    /\ InitWorkers
    /\ main = [pc |-> "spawn", k |-> 1]
    /\ loops = <<>> /\ next = 0
    /\ acceptor = [open |-> TRUE, state |-> "none", worker |-> BaseLoop]
    /\ signalled = FALSE /\ misused = FALSE /\ accepts = 0

-----------------------------------------------------------------------------
(* TcpServer::Start: the pool's start, worker by worker *)

\* EventLoopThread::start creates the thread.
Spawn ==
    /\ At("spawn")
    /\ thread' = [thread EXCEPT ![main.k] = "started"]
    /\ Goto("check", main.k)
    /\ UNCHANGED <<mLoop, loop, guard, stopped, work, poolVars, acceptor, signalled, misused,
                   accepts>>

\* Mutant: start waits for the notification without looking at m_loop first.
WaitForLoop_NoPredicate ==
    /\ At("check")
    /\ Goto("asleep", main.k)
    /\ UNCHANGED <<workerVars, poolVars, acceptor, signalled, misused, accepts>>

\* m_cond.wait with its predicate false: main sleeps.
WaitForLoop ==
    /\ At("check") /\ ~mLoop[main.k]
    /\ Goto("asleep", main.k)
    /\ UNCHANGED <<workerVars, poolVars, acceptor, signalled, misused, accepts>>

\* threadFunc's notify_one wakes main if it waits for that worker.
PublishAndNotify(w) ==
    /\ Publish(w)
    /\ main' = IF At("asleep") /\ main.k = w THEN [main EXCEPT !.pc = "check"] ELSE main
    /\ UNCHANGED <<poolVars, acceptor, signalled, misused, accepts>>

\* A condition variable may wake by itself.
SpuriousWake ==
    /\ At("asleep")
    /\ Goto("check", main.k)
    /\ UNCHANGED <<workerVars, poolVars, acceptor, signalled, misused, accepts>>

\* start returns the loop, and the pool keeps it.
LoopStarted ==
    /\ At("check") /\ mLoop[main.k]
    /\ loops' = Append(loops, main.k)
    /\ NextWorker("spawn", "arm")
    /\ UNCHANGED <<workerVars, next, acceptor, signalled, misused, accepts>>

-----------------------------------------------------------------------------
(* doAccept *)

\* Mutant: the counter is never reset.
AfterNext_NoReset == next + 1

\* m_next after GetNextLoop.
AfterNext == IF next + 1 > NextLimit THEN 0 ELSE next + 1

\* doAccept asks GetNextLoop for a worker and arms an accept for it; on a closed
\* acceptor the accept fails.
DoAccept(isOpen) ==
    LET w == IF loops = <<>> THEN BaseLoop ELSE loops[(next % Len(loops)) + 1]
    IN  /\ acceptor' = [open |-> isOpen, worker |-> w,
                        state |-> IF isOpen THEN "pending" ELSE "err"]
        /\ next' = IF loops = <<>> THEN next ELSE AfterNext
        /\ UNCHANGED loops

\* The end of TcpServer::Start; main enters the base loop.
StartAccepting ==
    /\ At("arm")
    /\ DoAccept(TRUE)
    /\ Goto("serve", 1)
    /\ UNCHANGED <<workerVars, signalled, misused, accepts>>

\* A client connects (external), or accept fails.
AcceptCompletes(result) ==
    /\ acceptor.state = "pending" /\ accepts < MaxAccepts
    /\ acceptor' = [acceptor EXCEPT !.state = result]
    /\ accepts' = accepts + 1
    /\ UNCHANGED <<workerVars, main, poolVars, signalled, misused>>

\* The accept handler: the new connection starts to read on its worker, and
\* whatever the result was, the next accept is armed.
AcceptHandler ==
    /\ At("serve") /\ acceptor.state \in {"ok", "err"}
    /\ work' = IF acceptor.state = "ok" THEN [work EXCEPT ![acceptor.worker] = @ + 1] ELSE work
    /\ DoAccept(acceptor.open)
    /\ UNCHANGED <<thread, mLoop, loop, guard, stopped, main, signalled, misused, accepts>>

-----------------------------------------------------------------------------
(* The signal handler: RtmpServer::Stop and Eventloop::Quit *)

Signal ==
    /\ At("serve") /\ ~signalled
    /\ signalled' = TRUE
    /\ UNCHANGED <<workerVars, main, poolVars, acceptor, misused, accepts>>

SignalHandler ==
    /\ At("serve") /\ signalled
    /\ Goto("resetGuard", 1)
    /\ UNCHANGED <<workerVars, poolVars, acceptor, signalled, misused, accepts>>

\* Main uses worker k's loop, which may be gone.
Use == misused' = (misused \/ loop[main.k] = "destroyed")

Quitting == UNCHANGED <<thread, mLoop, loop, work, poolVars, acceptor, signalled, accepts>>

\* pool.stop: Quit on every loop, first its guard,
QuitResetsGuard ==
    /\ At("resetGuard")
    /\ Use
    /\ guard' = [guard EXCEPT ![main.k] = FALSE]
    /\ Goto("stop", main.k)
    /\ UNCHANGED stopped
    /\ Quitting

\* then its io_context.
QuitStops ==
    /\ At("stop")
    /\ Use
    /\ stopped' = [stopped EXCEPT ![main.k] = TRUE]
    /\ NextWorker("resetGuard", "readLoop")
    /\ UNCHANGED guard
    /\ Quitting

\* ~EventLoopThread reads m_loop, without the lock,
DtorReadsLoop ==
    /\ At("readLoop")
    /\ Goto(IF mLoop[main.k] THEN "dtorResetGuard" ELSE "join", main.k)
    /\ UNCHANGED <<guard, stopped, misused>>
    /\ Quitting

\* calls Quit on what it read,
DtorResetsGuard ==
    /\ At("dtorResetGuard")
    /\ Use
    /\ guard' = [guard EXCEPT ![main.k] = FALSE]
    /\ Goto("dtorStop", main.k)
    /\ UNCHANGED stopped
    /\ Quitting

DtorStops ==
    /\ At("dtorStop")
    /\ Use
    /\ stopped' = [stopped EXCEPT ![main.k] = TRUE]
    /\ Goto("join", main.k)
    /\ UNCHANGED guard
    /\ Quitting

\* Mutant: the thread is detached.
DtorJoins_Detach ==
    /\ At("join")
    /\ NextWorker("readLoop", "close")
    /\ UNCHANGED <<guard, stopped, misused>>
    /\ Quitting

\* and joins the thread.
DtorJoins ==
    /\ At("join") /\ thread[main.k] = "ended"
    /\ NextWorker("readLoop", "close")
    /\ UNCHANGED <<guard, stopped, misused>>
    /\ Quitting

\* m_loops.clear and m_acceptor.close: a pending accept fails.
CloseAcceptor ==
    /\ At("close")
    /\ loops' = <<>>
    /\ acceptor' = [acceptor EXCEPT !.open = FALSE,
                                    !.state = IF @ = "pending" THEN "err" ELSE @]
    /\ Goto("baseQuit", 1)
    /\ UNCHANGED <<workerVars, next, signalled, misused, accepts>>

\* Mutant: the signal handler does not quit the base loop.
QuitBaseLoop_Not ==
    /\ At("baseQuit")
    /\ Goto("serve", 1)
    /\ signalled' = FALSE
    /\ UNCHANGED <<workerVars, poolVars, acceptor, misused, accepts>>

\* The base loop is quit: no handler runs any more, Loop returns, and main ends.
QuitBaseLoop ==
    /\ At("baseQuit")
    /\ Goto("exited", 1)
    /\ UNCHANGED <<workerVars, poolVars, acceptor, signalled, misused, accepts>>

\* Undefined behaviour may end the process at any time, or never.
Crash ==
    /\ misused /\ main.pc \notin Ended
    /\ Goto("crashed", 1)
    /\ UNCHANGED <<workerVars, poolVars, acceptor, signalled, misused, accepts>>

Shutdown ==
    \/ SignalHandler \/ QuitResetsGuard \/ QuitStops \/ DtorReadsLoop \/ DtorResetsGuard
    \/ DtorStops \/ DtorJoins \/ CloseAcceptor \/ QuitBaseLoop

MainStep == Spawn \/ WaitForLoop \/ LoopStarted \/ StartAccepting \/ Shutdown

Worker(w) ==
    /\ main.pc \notin Ended
    /\ \/ PublishAndNotify(w)
       \/ /\ WorkerStep(w)
          /\ UNCHANGED <<main, poolVars, acceptor, signalled, misused, accepts>>

Connection(w) ==
    /\ main.pc \notin Ended
    /\ ConnectionEnds(w)
    /\ UNCHANGED <<main, poolVars, acceptor, signalled, misused, accepts>>

Next ==
    \/ MainStep
    \/ SpuriousWake \/ AcceptHandler \/ Signal \/ Crash
    \/ \E result \in {"ok", "err"} : AcceptCompletes(result)
    \/ \E w \in Workers : Worker(w) \/ Connection(w)

\* The threads run.  The base loop's queue is first in, first out: a signal handler
\* that is ready is not passed over for ever.  Clients promise nothing.
Spec ==
    /\ Init /\ [][Next]_vars
    /\ WF_vars(MainStep) /\ WF_vars(AcceptHandler)
    /\ \A w \in Workers : WF_vars(Worker(w))

-----------------------------------------------------------------------------
(* Properties *)

TypeOK ==
    /\ thread \in [Workers -> ThreadStates]
    /\ loop \in [Workers -> LoopStates]
    /\ mLoop \in [Workers -> BOOLEAN]
    /\ guard \in [Workers -> BOOLEAN] /\ stopped \in [Workers -> BOOLEAN]
    /\ work \in [Workers -> Nat]
    /\ main \in [pc : Starting \cup Stopping \cup Ended \cup {"serve"}, k : Workers]
    /\ loops \in Seq(Workers) /\ next \in 0 .. NextLimit
    /\ acceptor \in [open : BOOLEAN, state : {"none", "pending", "ok", "err"},
                     worker : Workers \cup {BaseLoop}]
    /\ signalled \in BOOLEAN /\ misused \in BOOLEAN /\ accepts \in 0 .. MaxAccepts

\* While the server starts and serves, every loop in the pool, the one an accept is
\* armed for among them, exists, has its guard and has not been left: no connection
\* is handed to a thread that does not run its handlers.  (start returns a pointer
\* to a local of another thread; only the wait and the guard make that right.)
PooledLoopsRun ==
    main.pc \in Starting \cup {"serve"} =>
        /\ \A i \in DOMAIN loops :
            loop[loops[i]] = "alive" /\ thread[loops[i]] \in {"published", "running"}
        /\ At("serve") => Len(loops) = N /\ acceptor.worker # BaseLoop

\* No destructor leaves a thread behind, and none rests on the loop it reads without
\* the lock: when ~EventLoopThread comes to its own Quit, pool.stop has stopped that
\* loop before, and when the handler has stopped the server no worker runs and no
\* loop is left.
NoThreadLeft ==
    /\ main.pc \in {"dtorResetGuard", "dtorStop"} => stopped[main.k]
    /\ main.pc \in {"close", "baseQuit", "exited"} =>
        \A w \in Workers : thread[w] = "ended" /\ loop[w] = "destroyed" /\ work[w] = 0

\* The server comes up: start does not miss the notification.
StartCompletes == <>(At("serve"))

\* A signal ends the program, whatever the connections do.  A call on a destroyed
\* loop, which Quit's and the destructor's races with threadFunc allow, is taken to
\* crash the process or to do nothing: that it does not hang is an assumption.
SignalEndsServer == signalled ~> main.pc \in Ended
-----------------------------------------------------------------------------
(* The inductive invariant *)

\* threadFunc, m_loop and the loop on its stack go together.
WorkerInv ==
    \A w \in Workers :
        /\ mLoop[w] <=> thread[w] \in {"published", "running", "left"}
        /\ loop[w] = "none" => thread[w] \in {"none", "started"}
        /\ loop[w] = "alive" => thread[w] \notin {"none", "ended"}
        /\ loop[w] = "destroyed" <=> thread[w] = "ended"
        /\ thread[w] = "ended" => work[w] = 0

Serving == main.pc \in Starting \cup {"serve"}

\* How many workers have been spawned, and how many loops are in the pool.
Spawned == IF At("spawn") THEN main.k - 1 ELSE IF main.pc \in {"check", "asleep"} THEN main.k ELSE N
Pooled  == IF main.pc \in {"spawn", "check", "asleep"} THEN main.k - 1 ELSE N

\* Until the server stops no loop can be left: each has its guard and none has been
\* stopped.
NoneLeft ==
    Serving => \A w \in Workers :
        /\ ~stopped[w]
        /\ loop[w] = "alive" => guard[w]
        /\ thread[w] \in {"none", "started", "published", "running"}

SpawnedInTurn == Serving => \A w \in Workers : thread[w] = "none" <=> w > Spawned

\* The pool holds the loops of the first workers, which run them.
PooledInTurn ==
    Serving =>
        /\ Len(loops) = Pooled
        /\ \A i \in 1 .. Pooled : loops[i] = i /\ thread[i] \in {"published", "running"}

ArmedForWorker == At("serve") => acceptor.worker # BaseLoop

\* pool.stop stops the loops in turn, then the destructors join the threads in turn.
StoppingInv ==
    \A w \in Workers :
        /\ main.pc \in {"resetGuard", "stop"} /\ w < main.k => stopped[w]
        /\ main.pc \in {"readLoop", "dtorResetGuard", "dtorStop", "join"} =>
               stopped[w] /\ (w < main.k => thread[w] = "ended")
        /\ main.pc \in {"close", "baseQuit", "exited"} => thread[w] = "ended"

IInv ==
    /\ TypeOK /\ WorkerInv
    /\ NoneLeft /\ SpawnedInTurn /\ PooledInTurn /\ ArmedForWorker
    /\ StoppingInv
===============================================================================
