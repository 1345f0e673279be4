--------------------------- MODULE EventLoopThread ---------------------------
(***************************************************************************)
(* The worker threads of EventLoopThreadPool: what threadFunc does, and    *)
(* the event loop on its stack.  An Eventloop is asio's io_context (which  *)
(* is external) with a work guard: run returns once stop was called, or    *)
(* when the guard is reset and no operation is pending.                    *)
(*                                                                         *)
(* m_mutex is held in threadFunc only to set m_loop and to notify, so its  *)
(* critical sections are single steps.                                     *)
(***************************************************************************)
EXTENDS Integers, Sequences

CONSTANTS
    N,          \* m_thread_num: the number of workers, 4 in main
    MaxAccepts  \* bound on the accepts that complete in a run of the server

ASSUME EventLoopThreadAssumption == N \in Nat \ {0} /\ MaxAccepts \in Nat

Workers == 1 .. N

VARIABLES
    thread,     \* where threadFunc is
    mLoop,      \* EventLoopThread::m_loop is not null
    loop,       \* the Eventloop object on the thread's stack
    guard,      \* its m_work_guard owns work
    stopped,    \* its io_context has been stopped
    work        \* pending operations: one read for every connection on the loop

workerVars == <<thread, mLoop, loop, guard, stopped, work>>

ThreadStates == {"none", "started", "published", "running", "left", "unpublished", "ended"}
LoopStates == {"none", "alive", "destroyed"}

InitWorkers ==
    /\ thread = [w \in Workers |-> "none"]
    /\ mLoop = [w \in Workers |-> FALSE]
    /\ loop = [w \in Workers |-> "none"]
    /\ guard = [w \in Workers |-> FALSE]
    /\ stopped = [w \in Workers |-> FALSE]
    /\ work = [w \in Workers |-> 0]

\* Mutant: the Eventloop has no work guard.
Construct_NoGuard(w) ==
    /\ thread[w] = "started" /\ loop[w] = "none"
    /\ loop' = [loop EXCEPT ![w] = "alive"]
    /\ UNCHANGED <<thread, mLoop, guard, stopped, work>>

\* threadFunc: the Eventloop's constructor makes its work guard.
Construct(w) ==
    /\ thread[w] = "started" /\ loop[w] = "none"
    /\ loop' = [loop EXCEPT ![w] = "alive"]
    /\ guard' = [guard EXCEPT ![w] = TRUE]
    /\ UNCHANGED <<thread, mLoop, stopped, work>>

\* threadFunc publishes the loop; the notification is the caller's business.
Publish(w) ==
    /\ thread[w] = "started" /\ loop[w] = "alive"
    /\ thread' = [thread EXCEPT ![w] = "published"]
    /\ mLoop' = [mLoop EXCEPT ![w] = TRUE]
    /\ UNCHANGED <<loop, guard, stopped, work>>

\* Loop: the thread enters io_context::run.
EnterRun(w) ==
    /\ thread[w] = "published"
    /\ thread' = [thread EXCEPT ![w] = "running"]
    /\ UNCHANGED <<mLoop, loop, guard, stopped, work>>

\* A handler of the loop closes a connection: nothing is pending for it any more.
ConnectionEnds(w) ==
    /\ thread[w] = "running" /\ ~stopped[w] /\ work[w] > 0
    /\ work' = [work EXCEPT ![w] = @ - 1]
    /\ UNCHANGED <<thread, mLoop, loop, guard, stopped>>

\* run returns.
LeaveRun(w) ==
    /\ thread[w] = "running"
    /\ stopped[w] \/ (~guard[w] /\ work[w] = 0)
    /\ thread' = [thread EXCEPT ![w] = "left"]
    /\ UNCHANGED <<mLoop, loop, guard, stopped, work>>

\* m_loop = nullptr, under the lock.
Unpublish(w) ==
    /\ thread[w] = "left"
    /\ thread' = [thread EXCEPT ![w] = "unpublished"]
    /\ mLoop' = [mLoop EXCEPT ![w] = FALSE]
    /\ UNCHANGED <<loop, guard, stopped, work>>

\* threadFunc returns: the lock is released, then the Eventloop is destroyed with
\* the operations that are pending on it.
ThreadEnds(w) ==
    /\ thread[w] = "unpublished"
    /\ thread' = [thread EXCEPT ![w] = "ended"]
    /\ loop' = [loop EXCEPT ![w] = "destroyed"]
    /\ work' = [work EXCEPT ![w] = 0]
    /\ UNCHANGED <<mLoop, guard, stopped>>

\* The steps of worker w that need nobody else.
WorkerStep(w) ==
    Construct(w) \/ EnterRun(w) \/ LeaveRun(w) \/ Unpublish(w) \/ ThreadEnds(w)
===============================================================================
