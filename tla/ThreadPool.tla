------------------------------ MODULE ThreadPool ------------------------------
(***************************************************************************)
(* The thread pool of thread_pool.h, as state and actions for the module   *)
(* that uses it (AccessStatistics): calculateQCCVs constructs a pool for   *)
(* every round, enqueues its tasks, waits for their futures and destroys   *)
(* the pool.  One action per section under queue_mutex.  enqueue notifies  *)
(* after it has released the mutex; what a worker can do in between it can *)
(* do here after a spurious wake-up.                                       *)
(* Abstracted: what a task computes; a task does not throw.                *)
(***************************************************************************)
EXTENDS Integers, Sequences, FiniteSets

CONSTANTS
    Workers,        \* hardware_concurrency() threads
    Tasks

\* hardware_concurrency() may return 0; a pool without workers never runs a
\* task, and get() on a future never returns.
ASSUME SomeWorker == Workers # {}

\* The states of a worker that runs no task.
Resting == {"absent", "ready", "waiting", "ended"}
ASSUME TasksAreNoStates == Tasks \cap Resting = {}

VARIABLES
    worker,         \* per worker: where it is, or the task it runs
    queue,          \* tasks, in the order of enqueue
    stop,
    completed       \* tasks whose future is ready

pool == <<worker, queue, stop, completed>>

-----------------------------------------------------------------------------
PoolInit ==
    /\ worker = [w \in Workers |-> "absent"]
    /\ queue = << >>
    /\ stop = FALSE
    /\ completed = {}

\* The constructor launches the workers.
Construct ==
    /\ worker' = [w \in Workers |-> "ready"]
    /\ queue' = << >>
    /\ stop' = FALSE
    /\ completed' = {}

\* notify_one wakes one waiting worker, if there is one.
NotifyOne ==
    IF \E w \in Workers : worker[w] = "waiting"
    THEN \E w \in Workers :
            worker[w] = "waiting" /\ worker' = [worker EXCEPT ![w] = "ready"]
    ELSE UNCHANGED worker

Enqueue(t) ==
    /\ ~stop
    /\ queue' = Append(queue, t)
    /\ NotifyOne
    /\ UNCHANGED <<stop, completed>>

\* A worker that holds the mutex: waits, takes a task or ends.
Wait(w) ==
    /\ worker[w] = "ready" /\ queue = << >> /\ ~stop
    /\ worker' = [worker EXCEPT ![w] = "waiting"]
    /\ UNCHANGED <<queue, stop, completed>>

SpuriousWake(w) ==
    /\ worker[w] = "waiting"
    /\ worker' = [worker EXCEPT ![w] = "ready"]
    /\ UNCHANGED <<queue, stop, completed>>

\* Mutant: the task stays in the queue while it runs.
TakeCopy(w) ==
    /\ worker[w] = "ready" /\ queue # << >>
    /\ worker' = [worker EXCEPT ![w] = Head(queue)]
    /\ queue' = IF Head(queue) \in completed THEN Tail(queue) ELSE queue
    /\ UNCHANGED <<stop, completed>>
Take(w) ==
    /\ worker[w] = "ready" /\ queue # << >>
    /\ worker' = [worker EXCEPT ![w] = Head(queue)]
    /\ queue' = Tail(queue)
    /\ UNCHANGED <<stop, completed>>

\* The task returns, its future becomes ready, the loop starts again.
Finish(w) ==
    /\ worker[w] \in Tasks
    /\ completed' = completed \cup {worker[w]}
    /\ worker' = [worker EXCEPT ![w] = "ready"]
    /\ UNCHANGED <<queue, stop>>

Exit(w) ==
    /\ worker[w] = "ready" /\ queue = << >> /\ stop
    /\ worker' = [worker EXCEPT ![w] = "ended"]
    /\ UNCHANGED <<queue, stop, completed>>

WorkerStep(w) == Wait(w) \/ Take(w) \/ Finish(w) \/ Exit(w)

\* The destructor sets stop and notifies all workers, then joins them.
\* Mutant: only one worker is notified.
BeginDestroyOne ==
    /\ stop' = TRUE
    /\ NotifyOne
    /\ UNCHANGED <<queue, completed>>
BeginDestroy ==
    /\ stop' = TRUE
    /\ worker' = [w \in Workers |-> IF worker[w] = "waiting" THEN "ready" ELSE worker[w]]
    /\ UNCHANGED <<queue, completed>>

EndDestroy ==
    /\ stop /\ \A w \in Workers : worker[w] = "ended"
    /\ worker' = [w \in Workers |-> "absent"]
    /\ UNCHANGED <<queue, stop, completed>>

-----------------------------------------------------------------------------
PoolTypeOK ==
    /\ worker \in [Workers -> Resting \cup Tasks]
    /\ queue \in Seq(Tasks)
    /\ stop \in BOOLEAN
    /\ completed \subseteq Tasks
=============================================================================
