------------------------------ MODULE JobService ------------------------------
(***************************************************************************)
(* The worker pool of runtime/job_service.cpp: one mutex, the condition    *)
(* variables work_available and pool_idle, a FIFO of pending jobs, and the *)
(* threads that use them.  An action is one critical section, or one       *)
(* notification made outside it, so every interleaving of the threads      *)
(* between two lock operations is a behaviour.                             *)
(*                                                                         *)
(* A thread in wait(lock, predicate) alternates between evaluating the     *)
(* predicate under the lock ("loop", "waitCheck") and sleeping in the wait *)
(* set ("asleep", "waitAsleep"); a notification and a spurious wakeup both *)
(* send it back to the predicate.                                          *)
(***************************************************************************)
EXTENDS Naturals, Sequences, FiniteSets

CONSTANTS Workers,       \* worker_count threads
          Jobs,          \* the jobs anybody ever submits
          MaxPending,    \* config.max_pending_jobs
          NoJob

ASSUME WorkersAssumption == IsFiniteSet(Workers) /\ Workers # {}
ASSUME JobsAssumption == NoJob \notin Jobs
ASSUME MaxPendingAssumption == MaxPending \in Nat \ {0}

VARIABLES
    pending,        \* the queue
    active_jobs,    \* jobs handed to a worker and not counted yet
    accepting, stopping,
    executed_jobs, failed_jobs,
    worker,         \* where each worker thread is
    job,            \* the job each worker runs
    game,           \* where the owning thread is
    accepted,       \* history: the jobs accepted, in order
    started,        \* history: the jobs taken from the queue, in order
    finished        \* history: the jobs whose run ended

service == <<pending, active_jobs, accepting, stopping, executed_jobs, failed_jobs>>
vars == <<service, worker, job, game, accepted, started, finished>>

WorkerStates == {"unborn", "loop", "asleep", "running", "notify", "exited"}
GameStates == {"create", "ready", "notify", "waitCheck", "waitAsleep",
               "destroy", "notifyAll", "join", "gone"}

In(s) == {w \in Workers : worker[w] = s}
Elements(s) == {s[i] : i \in 1..Len(s)}

\* The predicate WaitForIdle waits for.
Idle == pending = <<>> /\ active_jobs = 0

Init ==
    /\ pending = <<>> /\ active_jobs = 0
    /\ accepting = TRUE /\ stopping = FALSE
    /\ executed_jobs = 0 /\ failed_jobs = 0
    /\ worker = [w \in Workers |-> "unborn"]
    /\ job = [w \in Workers |-> NoJob]
    /\ game = "create"
    /\ accepted = <<>> /\ started = <<>> /\ finished = {}

-------------------------------------------------------------------------------
(* Create.                                                                 *)

\* The loop of Create starts one more thread.
StartWorker(w) ==
    /\ game = "create"
    /\ worker[w] = "unborn"
    /\ worker' = [worker EXCEPT ![w] = "loop"]
    /\ UNCHANGED <<service, job, game, accepted, started, finished>>

\* std::jthread throws: the Impl, with the workers that did start, is destroyed.
StartWorkerFails ==
    /\ game = "create"
    /\ In("unborn") # {}
    /\ game' = "destroy"
    /\ UNCHANGED <<service, worker, job, accepted, started, finished>>

\* Every worker was started and the service is returned.
Created ==
    /\ game = "create"
    /\ In("unborn") = {}
    /\ game' = "ready"
    /\ UNCHANGED <<service, worker, job, accepted, started, finished>>

-------------------------------------------------------------------------------
(* Submit, from the owning thread or from inside a running job.  A         *)
(* rejected submission changes nothing.                                    *)

Enqueue(j) ==
    /\ j \notin Elements(accepted)
    /\ accepting
    /\ Len(pending) < MaxPending
    /\ pending' = Append(pending, j)
    /\ accepted' = Append(accepted, j)
    /\ UNCHANGED <<active_jobs, accepting, stopping, executed_jobs, failed_jobs,
                   job, started, finished>>

\* A plausible error: wake a worker only when the queue was empty.
SubmitWakingOnEmptyQueue(j) ==
    /\ game = "ready"
    /\ Enqueue(j)
    /\ game' = IF pending = <<>> THEN "notify" ELSE "ready"
    /\ UNCHANGED worker

\* The owning thread submits; the lock is released before notify_one.
Submit(j) ==
    /\ game = "ready"
    /\ Enqueue(j)
    /\ game' = "notify"
    /\ UNCHANGED worker

\* A running job submits another one.
SubmitFromJob(w, j) ==
    /\ worker[w] = "running"
    /\ Enqueue(j)
    /\ worker' = [worker EXCEPT ![w] = "notify"]
    /\ UNCHANGED game

\* notify_one wakes one sleeping worker, or nobody when none sleeps.
NotifyOne(ws) ==
    IF {w \in Workers : ws[w] = "asleep"} = {}
    THEN worker' = ws
    ELSE \E v \in {w \in Workers : ws[w] = "asleep"} :
             worker' = [ws EXCEPT ![v] = "loop"]

\* The tail of Submit on the owning thread.
SubmitNotifies ==
    /\ game = "notify"
    /\ NotifyOne(worker)
    /\ game' = "ready"
    /\ UNCHANGED <<service, job, accepted, started, finished>>

\* The tail of Submit inside a job.
JobNotifies(w) ==
    /\ worker[w] = "notify"
    /\ NotifyOne([worker EXCEPT ![w] = "running"])
    /\ UNCHANGED <<service, job, game, accepted, started, finished>>

-------------------------------------------------------------------------------
(* RunWorker.                                                              *)

\* A plausible error: take the newest job.
TakeNewestJob(w) ==
    LET last == Len(pending)
    IN  /\ worker[w] = "loop"
        /\ pending # <<>>
        /\ job' = [job EXCEPT ![w] = pending[last]]
        /\ pending' = SubSeq(pending, 1, last - 1)
        /\ active_jobs' = active_jobs + 1
        /\ worker' = [worker EXCEPT ![w] = "running"]
        /\ started' = Append(started, pending[last])
        /\ UNCHANGED <<accepting, stopping, executed_jobs, failed_jobs, game, accepted, finished>>

\* A plausible error: the job is not counted as active while it runs.
TakeJobUncounted(w) ==
    /\ worker[w] = "loop"
    /\ pending # <<>>
    /\ job' = [job EXCEPT ![w] = Head(pending)]
    /\ pending' = Tail(pending)
    /\ worker' = [worker EXCEPT ![w] = "running"]
    /\ started' = Append(started, Head(pending))
    /\ UNCHANGED <<active_jobs, accepting, stopping, executed_jobs, failed_jobs,
                   game, accepted, finished>>

\* The predicate holds and a job is queued: take its oldest job.
TakeJob(w) ==
    /\ worker[w] = "loop"
    /\ pending # <<>>
    /\ job' = [job EXCEPT ![w] = Head(pending)]
    /\ pending' = Tail(pending)
    /\ active_jobs' = active_jobs + 1
    /\ worker' = [worker EXCEPT ![w] = "running"]
    /\ started' = Append(started, Head(pending))
    /\ UNCHANGED <<accepting, stopping, executed_jobs, failed_jobs, game, accepted, finished>>

\* The predicate does not hold: sleep, releasing the lock.
Sleep(w) ==
    /\ worker[w] = "loop"
    /\ pending = <<>>
    /\ ~stopping
    /\ worker' = [worker EXCEPT ![w] = "asleep"]
    /\ UNCHANGED <<service, job, game, accepted, started, finished>>

\* A plausible error: stopping alone ends the worker loop.
ExitWithoutDraining(w) ==
    /\ worker[w] = "loop"
    /\ stopping
    /\ worker' = [worker EXCEPT ![w] = "exited"]
    /\ UNCHANGED <<service, job, game, accepted, started, finished>>

\* Stopping and fully drained: the thread function returns.
Exit(w) ==
    /\ worker[w] = "loop"
    /\ pending = <<>>
    /\ stopping
    /\ worker' = [worker EXCEPT ![w] = "exited"]
    /\ UNCHANGED <<service, job, game, accepted, started, finished>>

\* A plausible error: only a job that ran without an exception notifies pool_idle.
FinishJobNotifyingOnSuccess(w) ==
    /\ worker[w] = "running"
    /\ active_jobs' = active_jobs - 1
    /\ \/ /\ executed_jobs' = executed_jobs + 1
          /\ game' = IF pending = <<>> /\ active_jobs' = 0 /\ game = "waitAsleep"
                     THEN "waitCheck" ELSE game
          /\ UNCHANGED failed_jobs
       \/ failed_jobs' = failed_jobs + 1 /\ UNCHANGED <<executed_jobs, game>>
    /\ finished' = finished \cup {job[w]}
    /\ job' = [job EXCEPT ![w] = NoJob]
    /\ worker' = [worker EXCEPT ![w] = "loop"]
    /\ UNCHANGED <<pending, accepting, stopping, accepted, started>>

\* The job returned, or an exception escaped it and is swallowed and counted.
\* pool_idle is notified under the lock when nothing is queued or active.
FinishJob(w) ==
    /\ worker[w] = "running"
    /\ active_jobs' = active_jobs - 1
    /\ \/ executed_jobs' = executed_jobs + 1 /\ UNCHANGED failed_jobs
       \/ failed_jobs' = failed_jobs + 1 /\ UNCHANGED executed_jobs
    /\ game' = IF pending = <<>> /\ active_jobs' = 0 /\ game = "waitAsleep"
               THEN "waitCheck" ELSE game
    /\ finished' = finished \cup {job[w]}
    /\ job' = [job EXCEPT ![w] = NoJob]
    /\ worker' = [worker EXCEPT ![w] = "loop"]
    /\ UNCHANGED <<pending, accepting, stopping, accepted, started>>

\* A condition variable may return from wait without a notification.
SpuriousWakeup ==
    /\ \/ /\ game = "waitAsleep"
          /\ game' = "waitCheck"
          /\ UNCHANGED worker
       \/ \E w \in In("asleep") :
             /\ worker' = [worker EXCEPT ![w] = "loop"]
             /\ UNCHANGED game
    /\ UNCHANGED <<service, job, accepted, started, finished>>

-------------------------------------------------------------------------------
(* WaitForIdle and Shutdown, on the owning thread.                         *)

\* WaitForIdle is called.
WaitForIdle ==
    /\ game = "ready"
    /\ game' = "waitCheck"
    /\ UNCHANGED <<service, worker, job, accepted, started, finished>>

\* The predicate holds and WaitForIdle returns.
WaitReturns ==
    /\ game = "waitCheck"
    /\ Idle
    /\ game' = "ready"
    /\ UNCHANGED <<service, worker, job, accepted, started, finished>>

\* The predicate does not hold.
WaitSleeps ==
    /\ game = "waitCheck"
    /\ ~Idle
    /\ game' = "waitAsleep"
    /\ UNCHANGED <<service, worker, job, accepted, started, finished>>

\* The critical section of Shutdown: the destructor, a move-assignment over this
\* service, or the Impl of a failed Create.
Shutdown ==
    /\ game \in {"ready", "destroy"}
    /\ accepting' = FALSE
    /\ stopping' = TRUE
    /\ game' = "notifyAll"
    /\ UNCHANGED <<pending, active_jobs, executed_jobs, failed_jobs,
                   worker, job, accepted, started, finished>>

\* A plausible error: notify_one in place of notify_all.
ShutdownNotifiesOne ==
    /\ game = "notifyAll"
    /\ NotifyOne(worker)
    /\ game' = "join"
    /\ UNCHANGED <<service, job, accepted, started, finished>>

\* work_available.notify_all.
ShutdownNotifies ==
    /\ game = "notifyAll"
    /\ worker' = [w \in Workers |-> IF worker[w] = "asleep" THEN "loop" ELSE worker[w]]
    /\ game' = "join"
    /\ UNCHANGED <<service, job, accepted, started, finished>>

\* workers.clear() has joined every thread that was started.
Joined ==
    /\ game = "join"
    /\ \A w \in Workers : worker[w] \in {"unborn", "exited"}
    /\ game' = "gone"
    /\ UNCHANGED <<service, worker, job, accepted, started, finished>>

\* Nothing is left to do once the service is destroyed.
Gone == game = "gone" /\ UNCHANGED vars

-------------------------------------------------------------------------------
WorkerStep(w) == TakeJob(w) \/ Sleep(w) \/ Exit(w) \/ FinishJob(w) \/ JobNotifies(w)

GameStep == SubmitNotifies \/ WaitReturns \/ WaitSleeps \/ ShutdownNotifies \/ Joined

Next ==
    \/ \E w \in Workers :
          \/ StartWorker(w)
          \/ TakeJob(w)
          \/ Sleep(w)
          \/ Exit(w)
          \/ FinishJob(w)
          \/ JobNotifies(w)
          \/ \E j \in Jobs : SubmitFromJob(w, j)
    \/ \E j \in Jobs : Submit(j)
    \/ StartWorkerFails
    \/ Created
    \/ SubmitNotifies
    \/ WaitForIdle
    \/ WaitReturns
    \/ WaitSleeps
    \/ Shutdown
    \/ ShutdownNotifies
    \/ Joined
    \/ SpuriousWakeup
    \/ Gone

\* Every thread that is inside the service keeps running, and every job returns.
Fairness == WF_vars(GameStep) /\ \A w \in Workers : WF_vars(WorkerStep(w))

Spec == Init /\ [][Next]_vars

FairSpec == Spec /\ Fairness

-------------------------------------------------------------------------------
TypeOK ==
    /\ pending \in Seq(Jobs)
    /\ active_jobs \in Nat /\ executed_jobs \in Nat /\ failed_jobs \in Nat
    /\ accepting \in BOOLEAN /\ stopping \in BOOLEAN
    /\ worker \in [Workers -> WorkerStates]
    /\ job \in [Workers -> Jobs \cup {NoJob}]
    /\ game \in GameStates
    /\ accepted \in Seq(Jobs) /\ started \in Seq(Jobs)
    /\ finished \subseteq Jobs

\* Dequeue order is submission order across every submitting thread: the jobs
\* taken so far, followed by the queue, are the jobs accepted.
DequeuedInSubmissionOrder == accepted = started \o pending

\* The contract of the statistics in the header: the step in which WaitForIdle
\* returns finds every job accepted so far counted as executed or failed, none
\* of them still inside a worker.
WaitForIdleIsExact ==
    [][WaitReturns => /\ executed_jobs + failed_jobs = Len(accepted)
                      /\ finished = Elements(accepted)]_vars

\* No lost wakeup: while some worker sleeps, every queued job has a thread of
\* its own on the way to it, awake before the predicate or about to notify.
SleepersLeaveNoJobWaiting ==
    In("asleep") # {} =>
        Len(pending) <= Cardinality(In("loop")) + Cardinality(In("notify"))
                        + (IF game = "notify" THEN 1 ELSE 0)

\* The owner never sleeps in WaitForIdle on a pool that is already idle: the
\* last job to end has notified it, whichever way the job ended.
WaiterSleepsOnlyOnABusyPool == game = "waitAsleep" => ~Idle

\* Destruction, also that of a partly created pool, abandons no accepted job.
NothingAbandoned ==
    game = "gone" =>
        /\ pending = <<>>
        /\ finished = Elements(accepted)
        /\ executed_jobs + failed_jobs = Len(accepted)

\* An accepted job is kept: taken in its turn, and counted before the service is
\* gone.
AcceptedJobsAreKept == DequeuedInSubmissionOrder /\ NothingAbandoned

\* Neither condition variable loses a wakeup: no worker and no waiter sleeps on
\* something that has happened already.
NoLostWakeups == SleepersLeaveNoJobWaiting /\ WaiterSleepsOnlyOnABusyPool

\* Shutdown never deadlocks: once requested, the threads are joined, although
\* jobs still queued run first and may try to submit.
ShutdownCompletes == game = "notifyAll" ~> game = "gone"

\* WaitForIdle returns, given that the jobs ever submitted are finitely many.
WaitForIdleReturns == game = "waitCheck" ~> game = "ready"

\* Both blocking calls of the owner return.
CallsReturn == ShutdownCompletes /\ WaitForIdleReturns

\* The pool implements what its clients rely on, fairness included.
Pool == INSTANCE JobPool WITH
            queued <- Elements(pending),
            running <- {job[w] : w \in Workers} \ {NoJob},
            finished <- finished

ImplementsJobPool == Pool!PoolSpec
===============================================================================
