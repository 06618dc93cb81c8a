---------------------------- MODULE BlockingPool ----------------------------
(***************************************************************************)
(* Synchronous handlers on a bounded pool of threads (src/blocking.rs).    *)
(* A call waits for room in the job queue, then for the result of its job; *)
(* it may be cancelled at either wait, when its delivery is revoked or     *)
(* aborted, and a job that is already running keeps its thread.            *)
(***************************************************************************)
EXTENDS Integers, Sequences, FiniteSets

CONSTANTS Jobs, Workers, Queue    \* the calls, the threads, queue_capacity

\* with_queue_capacity refuses a pool without threads or without room.
ASSUME PoolAssumption ==
  /\ Jobs \cap {"off", "idle", "exited"} = {}
  /\ Workers # {}
  /\ Queue \in Nat \ {0}

VARIABLES
  call,     \* the future returned by Blocking::handle
  job,      \* the closure it submits
  jobs,     \* the mpsc channel of PoolInner::queue
  worker,   \* each thread: what it runs, or "off", "idle" or "exited"
  pool      \* "new", "started" once the threads run, "dropped"

poolVars == <<call, job, jobs, worker, pool>>

Pending == {"sending", "awaiting"}

PoolTypeOK ==
  /\ call \in [Jobs -> {"idle", "ok", "fatal", "lost", "cancelled"} \cup Pending]
  /\ job \in [Jobs -> {"none", "queued", "running", "ran", "skipped"}]
  /\ jobs \in Seq(Jobs) /\ Len(jobs) <= Queue
  /\ worker \in [Workers -> Jobs \cup {"off", "idle", "exited"}]
  /\ pool \in {"new", "started", "dropped"}

PoolInit ==
  /\ call = [j \in Jobs |-> "idle"] /\ job = [j \in Jobs |-> "none"]
  /\ jobs = <<>>
  /\ worker = [w \in Workers |-> "off"]
  /\ pool = "new"

\* `queue`: the first call starts every thread.  When one cannot be started
\* the call fails, the others exit with the sender and the next call tries
\* again.
HandleBegins(j) ==
  /\ call[j] = "idle" /\ pool # "dropped"
  /\ \/ /\ call' = [call EXCEPT ![j] = "sending"]
        /\ pool' = "started"
        /\ worker' = IF pool = "new" THEN [w \in Workers |-> "idle"] ELSE worker
     \/ /\ pool = "new"
        /\ call' = [call EXCEPT ![j] = "fatal"]
        /\ UNCHANGED <<pool, worker>>
  /\ UNCHANGED <<job, jobs>>

Submit(j) ==
  /\ call[j] = "sending" /\ Len(jobs) < Queue
  /\ call' = [call EXCEPT ![j] = "awaiting"]
  /\ job' = [job EXCEPT ![j] = "queued"]
  /\ jobs' = Append(jobs, j)
  /\ UNCHANGED <<worker, pool>>

Cancel(j) ==
  /\ call[j] \in Pending
  /\ call' = [call EXCEPT ![j] = "cancelled"]
  /\ UNCHANGED <<job, jobs, worker, pool>>

\* The closure looks at its result channel first.
Runs(j) == call[j] # "cancelled"

Take(w) ==
  /\ worker[w] = "idle" /\ jobs # <<>>
  /\ LET j == Head(jobs)
     IN  /\ job' = [job EXCEPT ![j] = IF Runs(j) THEN "running" ELSE "skipped"]
         /\ worker' = IF Runs(j) THEN [worker EXCEPT ![w] = j] ELSE worker
  /\ jobs' = Tail(jobs)
  /\ UNCHANGED <<call, pool>>

\* The jobs left when the last thread ended: their calls fail, as do the
\* submissions that still wait.
Orphans == IF \A w \in Workers : worker'[w] = "exited"
             THEN {j \in Jobs : call[j] \in Pending /\ job[j] \in {"none", "queued"}}
             ELSE {}

Ended(w, j, result, next) ==
  /\ worker' = [worker EXCEPT ![w] = next]
  /\ call' = [k \in Jobs |-> IF k = j /\ call[k] # "cancelled" THEN result
                             ELSE IF k \in Orphans THEN "lost" ELSE call[k]]
  /\ job' = [job EXCEPT ![j] = "ran"]
  /\ UNCHANGED <<jobs, pool>>

\* A panic that unwinds the thread.
PanicEndsWorker(w) ==
  /\ worker[w] \in Jobs
  /\ Ended(w, worker[w], "fatal", "exited")

\* catch_unwind turns the panic into a fatal handler error.
Panic(w) ==
  /\ worker[w] \in Jobs
  /\ Ended(w, worker[w], "fatal", "idle")

\* The handler returns and the result is sent, to nobody if the call was
\* cancelled.
Finish(w) ==
  /\ worker[w] \in Jobs
  /\ Ended(w, worker[w], "ok", "idle")

\* The pool and every handler using it are dropped, with their calls.
DropPool ==
  /\ pool = "started" /\ \A j \in Jobs : call[j] \notin Pending
  /\ pool' = "dropped"
  /\ UNCHANGED <<call, job, jobs, worker>>

\* blocking_recv returns None once the queue is empty.
WorkerExits(w) ==
  /\ worker[w] = "idle" /\ pool = "dropped" /\ jobs = <<>>
  /\ worker' = [worker EXCEPT ![w] = "exited"]
  /\ UNCHANGED <<call, job, jobs, pool>>

\* Threads go on and a blocking handler returns.
PoolSteps ==
  \/ \E j \in Jobs : Submit(j)
  \/ \E w \in Workers : Take(w) \/ Panic(w) \/ Finish(w) \/ WorkerExits(w)

PoolNext ==
  \/ PoolSteps
  \/ DropPool
  \/ \E j \in Jobs : HandleBegins(j) \/ Cancel(j)

PoolSpec == PoolInit /\ [][PoolNext]_poolVars /\ WF_poolVars(PoolSteps)

-----------------------------------------------------------------------------
(* Properties.                                                             *)

\* The threads outlive what they run: no call ends because its job or the
\* queue was dropped, whatever panics, is cancelled while queued or is
\* cancelled while it runs.  A call that awaits its result has its job queued
\* or on a thread, and while a call waits no thread has ended.
\* (Blocking::handle, work: "the worker thread survives".)
NoCallLost ==
  \A j \in Jobs :
    /\ call[j] # "lost"
    /\ call[j] = "awaiting" =>
         (\E i \in DOMAIN jobs : jobs[i] = j) \/ \E w \in Workers : worker[w] = j
    /\ call[j] \in Pending => \A w \in Workers : worker[w] \notin {"off", "exited"}

\* Every call that is not cancelled gets its result, though the jobs of
\* cancelled calls occupy queue places and threads, and the threads exit after
\* the pool is dropped.
CallsEnd ==
  /\ \A j \in Jobs : call[j] \in Pending ~> call[j] \notin Pending
  /\ pool = "dropped" ~> \A w \in Workers : worker[w] = "exited"
=============================================================================
