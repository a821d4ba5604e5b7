--------------------------- MODULE JobServiceProofs ---------------------------
(***************************************************************************)
(* For any number of workers, jobs and queue places: the worker pool loses *)
(* no job and no wakeup, and its counters are exact when it is idle.       *)
(***************************************************************************)
EXTENDS JobService, FiniteSetTheorems, SequenceTheorems, TLAPS

(***************************************************************************)
(* The inductive invariant.                                                *)
(***************************************************************************)

\* The workers that hold a job.
Busy == {w \in Workers : worker[w] \in {"running", "notify"}}

\* Every accepted job is queued, held by a worker or counted, exactly once.
Accounting ==
    /\ active_jobs = Cardinality(Busy)
    /\ executed_jobs + failed_jobs + active_jobs + Len(pending) = Len(accepted)

JobsAreHeld ==
    /\ \A w \in Workers : job[w] # NoJob <=> w \in Busy
    /\ Elements(accepted) = finished \cup Elements(pending) \cup {job[w] : w \in Busy}

\* What the phases of the owning thread say about the workers.
Phases ==
    /\ stopping <=> game \in {"notifyAll", "join", "gone"}
    /\ accepting <=> ~stopping
    /\ game \in {"create", "destroy"} => accepted = <<>>
    /\ \A w \in Workers :
          /\ worker[w] = "unborn" =>
                accepted = <<>> /\ game \in {"create", "destroy", "notifyAll", "join", "gone"}
          /\ worker[w] = "exited" => stopping /\ pending = <<>>
          /\ game = "gone" => worker[w] \in {"unborn", "exited"}

PoolInvariant ==
    /\ TypeOK
    /\ DequeuedInSubmissionOrder
    /\ Accounting
    /\ JobsAreHeld
    /\ Phases
    /\ WaiterSleepsOnlyOnABusyPool

-------------------------------------------------------------------------------
(***************************************************************************)
(* Sets of workers and the elements of a queue.                            *)
(***************************************************************************)

\* A set of workers is finite, and empty exactly when it has no element.
LEMMA WorkerSets ==
    ASSUME NEW S, S \subseteq Workers
    PROVE  /\ IsFiniteSet(S)
           /\ Cardinality(S) \in Nat
           /\ Cardinality(S) = 0 <=> S = {}
<1>1. IsFiniteSet(S)
  BY WorkersAssumption, FS_Subset
<1>2. Cardinality(S) \in Nat
  BY <1>1, FS_CardinalityType
<1> QED
  BY <1>1, <1>2, FS_EmptySet

\* A worker joins or leaves a set of workers.
LEMMA OneWorkerMore ==
    ASSUME NEW S, S \subseteq Workers, NEW w \in Workers
    PROVE  /\ w \notin S => Cardinality(S \cup {w}) = Cardinality(S) + 1
           /\ w \in S => Cardinality(S \ {w}) = Cardinality(S) - 1
BY WorkerSets, FS_AddElement, FS_RemoveElement

\* Appending a job adds it to the elements of a queue.
LEMMA ElementsOfAppend ==
    ASSUME NEW s \in Seq(Jobs), NEW j \in Jobs
    PROVE  Elements(Append(s, j)) = Elements(s) \cup {j}
<1>1. /\ Len(Append(s, j)) = Len(s) + 1
      /\ Len(s) \in Nat
      /\ \A i \in 1..Len(s) : Append(s, j)[i] = s[i]
      /\ Append(s, j)[Len(s) + 1] = j
  OBVIOUS
<1>2. 1..(Len(s) + 1) = (1..Len(s)) \cup {Len(s) + 1}
  BY <1>1
<1> QED
  BY <1>1, <1>2 DEF Elements

\* A queue that is not empty is its oldest job and the rest.
LEMMA ElementsOfTail ==
    ASSUME NEW s \in Seq(Jobs), s # <<>>
    PROVE  /\ Elements(s) = {Head(s)} \cup Elements(Tail(s))
           /\ Head(s) \in Jobs
           /\ Tail(s) \in Seq(Jobs)
           /\ Len(Tail(s)) = Len(s) - 1
<1>1. /\ Len(s) \in Nat \ {0}
      /\ Head(s) = s[1] /\ Head(s) \in Jobs
      /\ Tail(s) \in Seq(Jobs)
      /\ Len(Tail(s)) = Len(s) - 1
      /\ \A i \in 1..(Len(s) - 1) : Tail(s)[i] = s[i + 1]
  OBVIOUS
<1>2. ASSUME NEW x PROVE x \in Elements(s) <=> x = s[1] \/ x \in Elements(Tail(s))
  <2>1. ASSUME NEW i \in 1..Len(s), x = s[i], i # 1 PROVE x \in Elements(Tail(s))
    <3>1. i - 1 \in 1..Len(Tail(s)) /\ Tail(s)[i - 1] = s[i]
      BY <1>1, <2>1
    <3> QED
      BY <2>1, <3>1 DEF Elements
  <2>2. ASSUME NEW i \in 1..Len(Tail(s)), x = Tail(s)[i] PROVE x \in Elements(s)
    <3>1. i + 1 \in 1..Len(s) /\ s[i + 1] = Tail(s)[i]
      BY <1>1
    <3> QED
      BY <2>2, <3>1 DEF Elements
  <2>3. 1 \in 1..Len(s)
    BY <1>1
  <2> QED
    BY <2>1, <2>2, <2>3 DEF Elements
<1> QED
  BY <1>1, <1>2

-------------------------------------------------------------------------------
(***************************************************************************)
(* Types.                                                                  *)
(***************************************************************************)

\* A service that Create has just built is well typed.
LEMMA TypeInit == Init => TypeOK
<1> SUFFICES ASSUME Init PROVE TypeOK
  OBVIOUS
<1>1. pending \in Seq(Jobs) /\ accepted \in Seq(Jobs) /\ started \in Seq(Jobs)
  BY DEF Init
<1>2. worker \in [Workers -> WorkerStates] /\ job \in [Workers -> Jobs \cup {NoJob}]
  BY DEF Init, WorkerStates
<1> QED
  BY <1>1, <1>2 DEF Init, TypeOK, GameStates

\* Submit and SubmitFromJob.
LEMMA EnqueueType ==
    ASSUME TypeOK, NEW j \in Jobs, Enqueue(j)
    PROVE  /\ pending' \in Seq(Jobs) /\ accepted' \in Seq(Jobs)
           /\ active_jobs' \in Nat /\ executed_jobs' \in Nat /\ failed_jobs' \in Nat
           /\ accepting' \in BOOLEAN /\ stopping' \in BOOLEAN
           /\ job' \in [Workers -> Jobs \cup {NoJob}]
           /\ started' \in Seq(Jobs) /\ finished' \subseteq Jobs
BY DEF TypeOK, Enqueue

\* notify_one only ever moves a sleeping worker back to its predicate.
LEMMA NotifyOneType ==
    ASSUME NEW ws \in [Workers -> WorkerStates], NotifyOne(ws)
    PROVE  worker' \in [Workers -> WorkerStates]
BY DEF NotifyOne, WorkerStates

\* A job leaves its worker only when a worker is busy and holds it.
LEMMA RunningIsBusy ==
    ASSUME PoolInvariant, NEW w \in Workers, worker[w] \in {"running", "notify"}
    PROVE  /\ w \in Busy
           /\ active_jobs > 0
           /\ job[w] \in Jobs
           /\ Len(accepted) > 0
<1>1. w \in Busy
  BY DEF Busy
<1>2. Cardinality(Busy) \in Nat /\ Cardinality(Busy) # 0
  BY <1>1, WorkerSets DEF Busy
<1>3. job[w] \in Jobs
  BY <1>1 DEF PoolInvariant, TypeOK, JobsAreHeld
<1> QED
  BY <1>1, <1>2, <1>3 DEF PoolInvariant, Accounting, TypeOK

\* Every step of every thread keeps the types.
LEMMA TypeStep == PoolInvariant /\ [Next]_vars => TypeOK'
<1> SUFFICES ASSUME PoolInvariant, [Next]_vars PROVE TypeOK'
  OBVIOUS
<1>0. TypeOK
  BY DEF PoolInvariant
<1> USE <1>0 DEF TypeOK, WorkerStates, GameStates, service
<1>1. ASSUME NEW w \in Workers, StartWorker(w) PROVE TypeOK'
  BY <1>1 DEF StartWorker
<1>2. ASSUME NEW w \in Workers, TakeJob(w) PROVE TypeOK'
  BY <1>2, ElementsOfTail DEF TakeJob
<1>3. ASSUME NEW w \in Workers, Sleep(w) PROVE TypeOK'
  BY <1>3 DEF Sleep
<1>4. ASSUME NEW w \in Workers, Exit(w) PROVE TypeOK'
  BY <1>4 DEF Exit
<1>5. ASSUME NEW w \in Workers, FinishJob(w) PROVE TypeOK'
  <2>1. active_jobs' \in Nat /\ finished' \subseteq Jobs
    BY <1>5, RunningIsBusy DEF FinishJob
  <2>2. executed_jobs' \in Nat /\ failed_jobs' \in Nat
    BY <1>5 DEF FinishJob
  <2> QED
    BY <1>5, <2>1, <2>2 DEF FinishJob
<1>6. ASSUME NEW w \in Workers, JobNotifies(w) PROVE TypeOK'
  <2>1. [worker EXCEPT ![w] = "running"] \in [Workers -> WorkerStates]
    OBVIOUS
  <2> QED
    BY <1>6, <2>1, NotifyOneType DEF JobNotifies
<1>7. ASSUME NEW w \in Workers, NEW j \in Jobs, SubmitFromJob(w, j) PROVE TypeOK'
  BY <1>7, EnqueueType DEF SubmitFromJob
<1>8. ASSUME NEW j \in Jobs, Submit(j) PROVE TypeOK'
  BY <1>8, EnqueueType DEF Submit
<1>9. CASE StartWorkerFails \/ Created \/ WaitForIdle \/ WaitReturns \/ WaitSleeps \/ Joined
  BY <1>9 DEF StartWorkerFails, Created, WaitForIdle, WaitReturns, WaitSleeps, Joined
<1>10. CASE SubmitNotifies
  BY <1>10, NotifyOneType DEF SubmitNotifies
<1>11. CASE Shutdown
  BY <1>11 DEF Shutdown
<1>12. CASE ShutdownNotifies
  BY <1>12 DEF ShutdownNotifies
<1>13. CASE SpuriousWakeup
  BY <1>13 DEF SpuriousWakeup, In
<1>14. CASE Gone \/ UNCHANGED vars
  BY <1>14 DEF Gone, vars
<1> QED
  BY <1>1, <1>2, <1>3, <1>4, <1>5, <1>6, <1>7, <1>8, <1>9, <1>10, <1>11, <1>12, <1>13, <1>14
     DEF Next

-------------------------------------------------------------------------------
(***************************************************************************)
(* The bookkeeping of jobs.                                                *)
(***************************************************************************)

\* The inductive invariant holds when Create begins.
LEMMA PoolInit == Init => PoolInvariant
<1> SUFFICES ASSUME Init PROVE PoolInvariant
  OBVIOUS
<1>1. Busy = {}
  BY DEF Init, Busy
<1>2. Cardinality(Busy) = 0
  BY <1>1, FS_EmptySet
<1>3. Elements(<<>>) = {}
  BY DEF Elements
<1>4. TypeOK
  BY TypeInit
<1>5. DequeuedInSubmissionOrder
  BY DEF Init, DequeuedInSubmissionOrder
<1>6. Accounting
  BY <1>2 DEF Init, Accounting
<1>7. JobsAreHeld
  BY <1>1, <1>3 DEF Init, JobsAreHeld
<1>8. Phases /\ WaiterSleepsOnlyOnABusyPool
  BY DEF Init, Phases, WaiterSleepsOnlyOnABusyPool
<1> QED
  BY <1>4, <1>5, <1>6, <1>7, <1>8 DEF PoolInvariant

\* What a step that moves no job preserves.
LEMMA QuietStep ==
    ASSUME PoolInvariant, Busy' = Busy,
           UNCHANGED <<pending, active_jobs, executed_jobs, failed_jobs, job,
                       accepted, started, finished>>
    PROVE  DequeuedInSubmissionOrder' /\ Accounting' /\ JobsAreHeld'
<1>1. DequeuedInSubmissionOrder'
  BY DEF PoolInvariant, DequeuedInSubmissionOrder
<1>2. Accounting'
  BY DEF PoolInvariant, Accounting
<1>3. JobsAreHeld'
  <2>1. Elements(accepted') = Elements(accepted) /\ Elements(pending') = Elements(pending)
    OBVIOUS
  <2>2. {job'[w] : w \in Busy'} = {job[w] : w \in Busy}
    OBVIOUS
  <2> QED
    BY <2>1, <2>2 DEF PoolInvariant, JobsAreHeld
<1> QED
  BY <1>1, <1>2, <1>3

\* Submit, from wherever it is called, keeps the accounting of the jobs.
LEMMA EnqueueStep ==
    ASSUME PoolInvariant, NEW j \in Jobs, Enqueue(j), Busy' = Busy
    PROVE  DequeuedInSubmissionOrder' /\ Accounting' /\ JobsAreHeld'
<1> USE DEF PoolInvariant, TypeOK
<1>1. DequeuedInSubmissionOrder'
  <2>1. Append(started \o pending, j) = started \o Append(pending, j)
    <3>1. started \o pending \in Seq(Jobs) /\ <<j>> \in Seq(Jobs)
      OBVIOUS
    <3>2. /\ Append(started \o pending, j) = (started \o pending) \o <<j>>
          /\ Append(pending, j) = pending \o <<j>>
      BY <3>1, AppendIsConcat
    <3> QED
      BY <3>1, <3>2, ConcatAssociative
  <2> QED
    BY <2>1 DEF Enqueue, DequeuedInSubmissionOrder
<1>2. Accounting'
  <2>1. /\ Len(pending') = Len(pending) + 1 /\ Len(pending) \in Nat
        /\ Len(accepted') = Len(accepted) + 1 /\ Len(accepted) \in Nat
    BY AppendProperties DEF Enqueue
  <2>2. /\ active_jobs' = active_jobs /\ active_jobs \in Nat
        /\ executed_jobs' = executed_jobs /\ executed_jobs \in Nat
        /\ failed_jobs' = failed_jobs /\ failed_jobs \in Nat
    BY DEF Enqueue
  <2>3. /\ active_jobs = Cardinality(Busy)
        /\ executed_jobs + failed_jobs + active_jobs + Len(pending) = Len(accepted)
    BY DEF Accounting
  <2> HIDE DEF PoolInvariant, TypeOK
  <2>4. executed_jobs + failed_jobs + active_jobs + (Len(pending) + 1) = Len(accepted) + 1
    BY <2>1, <2>2, <2>3
  <2> QED
    BY <2>1, <2>2, <2>3, <2>4 DEF Accounting
<1>3. JobsAreHeld'
  <2>1. Elements(accepted') = Elements(accepted) \cup {j}
    BY ElementsOfAppend DEF Enqueue
  <2>2. Elements(pending') = Elements(pending) \cup {j}
    BY ElementsOfAppend DEF Enqueue
  <2> QED
    BY <2>1, <2>2 DEF Enqueue, JobsAreHeld
<1> QED
  BY <1>1, <1>2, <1>3

\* A worker that takes the oldest job keeps the order and the accounting.
LEMMA TakeJobStep ==
    ASSUME PoolInvariant, NEW w \in Workers, TakeJob(w)
    PROVE  DequeuedInSubmissionOrder' /\ Accounting' /\ JobsAreHeld'
<1> USE DEF PoolInvariant, TypeOK
<1>1. /\ pending # <<>> /\ pending \in Seq(Jobs)
      /\ Elements(pending) = {Head(pending)} \cup Elements(Tail(pending))
      /\ Head(pending) \in Jobs
      /\ Tail(pending) \in Seq(Jobs)
      /\ Len(Tail(pending)) = Len(pending) - 1
  BY ElementsOfTail DEF TakeJob
<1>2. w \notin Busy /\ Busy' = Busy \cup {w}
  BY DEF TakeJob, Busy
<1>3. DequeuedInSubmissionOrder'
  <2>1. started \o pending = Append(started, Head(pending)) \o Tail(pending)
    BY <1>1
  <2> QED
    BY <2>1 DEF TakeJob, DequeuedInSubmissionOrder
<1>4. Accounting'
  <2>1. Cardinality(Busy') = Cardinality(Busy) + 1
    BY <1>2, OneWorkerMore DEF Busy
  <2> QED
    BY <1>1, <2>1 DEF TakeJob, Accounting
<1>5. JobsAreHeld'
  <2>1. job' = [job EXCEPT ![w] = Head(pending)]
    BY DEF TakeJob
  <2>2. {job'[v] : v \in Busy'} = {job[v] : v \in Busy} \cup {Head(pending)}
    BY <1>2, <2>1 DEF Busy
  <2>3. \A v \in Workers : job'[v] # NoJob <=> v \in Busy'
    BY <1>1, <1>2, <2>1, JobsAssumption DEF JobsAreHeld
  <2> QED
    BY <1>1, <2>2, <2>3 DEF TakeJob, JobsAreHeld
<1> QED
  BY <1>3, <1>4, <1>5

\* A job that ends, by a return or by an exception, keeps the accounting.
LEMMA FinishJobStep ==
    ASSUME PoolInvariant, NEW w \in Workers, FinishJob(w)
    PROVE  DequeuedInSubmissionOrder' /\ Accounting' /\ JobsAreHeld'
<1> USE DEF PoolInvariant, TypeOK
<1>1. w \in Busy /\ Busy' = Busy \ {w}
  BY DEF FinishJob, Busy
<1>2. DequeuedInSubmissionOrder'
  BY DEF FinishJob, DequeuedInSubmissionOrder
<1>3. Accounting'
  <2>1. Cardinality(Busy') = Cardinality(Busy) - 1
    BY <1>1, OneWorkerMore DEF Busy
  <2>2. /\ executed_jobs' + failed_jobs' = executed_jobs + failed_jobs + 1
        /\ active_jobs' = active_jobs - 1
    BY DEF FinishJob
  <2>5. Len(pending') = Len(pending) /\ Len(accepted') = Len(accepted)
    BY DEF FinishJob
  <2>3. /\ executed_jobs \in Nat /\ failed_jobs \in Nat /\ active_jobs \in Nat
        /\ Len(pending) \in Nat
        /\ active_jobs = Cardinality(Busy)
        /\ executed_jobs + failed_jobs + active_jobs + Len(pending) = Len(accepted)
    BY DEF Accounting
  <2> HIDE DEF PoolInvariant, TypeOK
  <2>4. (executed_jobs + failed_jobs + 1) + (active_jobs - 1) + Len(pending) = Len(accepted)
    BY <2>3
  <2> QED
    BY <2>1, <2>2, <2>3, <2>4, <2>5 DEF Accounting
<1>4. JobsAreHeld'
  <2>1. job' = [job EXCEPT ![w] = NoJob]
    BY DEF FinishJob
  <2>2. {job[v] : v \in Busy} = {job'[v] : v \in Busy'} \cup {job[w]}
    BY <1>1, <2>1 DEF Busy
  <2>3. \A v \in Workers : job'[v] # NoJob <=> v \in Busy'
    BY <1>1, <2>1 DEF JobsAreHeld
  <2> QED
    BY <2>2, <2>3 DEF FinishJob, JobsAreHeld
<1> QED
  BY <1>2, <1>3, <1>4

-------------------------------------------------------------------------------
(***************************************************************************)
(* The phases of the owning thread.                                        *)
(***************************************************************************)

\* The owning thread and the workers stay in matching phases.
LEMMA PhasesStep == PoolInvariant /\ [Next]_vars => Phases'
<1> SUFFICES ASSUME PoolInvariant, [Next]_vars PROVE Phases'
  OBVIOUS
<1>0. Phases /\ TypeOK
  BY DEF PoolInvariant
<1>a. worker \in [Workers -> WorkerStates]
  BY <1>0 DEF TypeOK
<1> USE DEF Phases, service
<1>1. ASSUME NEW w \in Workers, StartWorker(w) PROVE Phases'
  BY <1>0, <1>1, <1>a DEF StartWorker
<1>2. ASSUME NEW w \in Workers, TakeJob(w) PROVE Phases'
  BY <1>0, <1>2, <1>a DEF TakeJob
<1>3. ASSUME NEW w \in Workers, Sleep(w) PROVE Phases'
  BY <1>0, <1>3, <1>a DEF Sleep
<1>4. ASSUME NEW w \in Workers, Exit(w) PROVE Phases'
  BY <1>0, <1>4, <1>a DEF Exit
<1>5. ASSUME NEW w \in Workers, FinishJob(w) PROVE Phases'
  <2>1. accepted # <<>>
    BY <1>5, RunningIsBusy DEF FinishJob
  <2> QED
    BY <1>0, <1>5, <1>a, <2>1 DEF FinishJob
<1>6. ASSUME NEW w \in Workers, JobNotifies(w) PROVE Phases'
  BY <1>0, <1>6, <1>a DEF JobNotifies, NotifyOne
<1>7. ASSUME NEW w \in Workers, NEW j \in Jobs, SubmitFromJob(w, j) PROVE Phases'
  <2>1. accepted # <<>>
    BY <1>7, RunningIsBusy DEF SubmitFromJob
  <2> QED
    BY <1>0, <1>7, <1>a, <2>1 DEF SubmitFromJob, Enqueue
<1>8. ASSUME NEW j \in Jobs, Submit(j) PROVE Phases'
  BY <1>0, <1>8, <1>a DEF Submit, Enqueue
<1>9. CASE StartWorkerFails
  BY <1>0, <1>9 DEF StartWorkerFails
<1>10. CASE Created
  BY <1>0, <1>10 DEF Created, In
<1>11. CASE SubmitNotifies
  BY <1>0, <1>11, <1>a DEF SubmitNotifies, NotifyOne
<1>12. CASE WaitForIdle \/ WaitReturns \/ WaitSleeps
  BY <1>0, <1>12 DEF WaitForIdle, WaitReturns, WaitSleeps
<1>13. CASE Shutdown
  BY <1>0, <1>13 DEF Shutdown
<1>14. CASE ShutdownNotifies
  BY <1>0, <1>14, <1>a DEF ShutdownNotifies
<1>15. CASE Joined
  BY <1>0, <1>15 DEF Joined
<1>16. CASE SpuriousWakeup
  BY <1>0, <1>16, <1>a DEF SpuriousWakeup, In
<1>17. CASE Gone \/ UNCHANGED vars
  BY <1>0, <1>17 DEF Gone, vars
<1> QED
  BY <1>1, <1>2, <1>3, <1>4, <1>5, <1>6, <1>7, <1>8, <1>9, <1>10, <1>11, <1>12, <1>13, <1>14,
     <1>15, <1>16, <1>17 DEF Next

\* The last job to end wakes the owner: it never sleeps on an idle pool.
LEMMA WaiterStep == PoolInvariant /\ [Next]_vars => WaiterSleepsOnlyOnABusyPool'
<1> SUFFICES ASSUME PoolInvariant, [Next]_vars PROVE WaiterSleepsOnlyOnABusyPool'
  OBVIOUS
<1>0. WaiterSleepsOnlyOnABusyPool /\ TypeOK
  BY DEF PoolInvariant
<1> USE DEF WaiterSleepsOnlyOnABusyPool, Idle, service
<1>1. ASSUME NEW w \in Workers, TakeJob(w) PROVE WaiterSleepsOnlyOnABusyPool'
  <2>1. active_jobs' # 0
    BY <1>0, <1>1 DEF TakeJob, TypeOK
  <2> QED
    BY <2>1
<1>2. ASSUME NEW w \in Workers, FinishJob(w) PROVE WaiterSleepsOnlyOnABusyPool'
  BY <1>0, <1>2 DEF FinishJob
<1>3. ASSUME NEW w \in Workers, StartWorker(w) \/ Sleep(w) \/ Exit(w) \/ JobNotifies(w)
      PROVE  WaiterSleepsOnlyOnABusyPool'
  BY <1>0, <1>3 DEF StartWorker, Sleep, Exit, JobNotifies
<1>4. ASSUME NEW j \in Jobs, Enqueue(j) PROVE WaiterSleepsOnlyOnABusyPool'
  <2>1. pending' # <<>>
    BY <1>0, <1>4, AppendProperties DEF Enqueue, TypeOK
  <2> QED
    BY <2>1
<1>5. CASE StartWorkerFails \/ Created \/ SubmitNotifies \/ WaitForIdle \/ WaitReturns
           \/ WaitSleeps \/ Joined
  BY <1>0, <1>5
     DEF StartWorkerFails, Created, SubmitNotifies, WaitForIdle, WaitReturns, WaitSleeps, Joined
<1>6. CASE Shutdown \/ ShutdownNotifies \/ SpuriousWakeup
  BY <1>0, <1>6 DEF Shutdown, ShutdownNotifies, SpuriousWakeup
<1>7. CASE Gone \/ UNCHANGED vars
  BY <1>0, <1>7 DEF Gone, vars
<1> QED
  BY <1>1, <1>2, <1>3, <1>4, <1>5, <1>6, <1>7 DEF Next, SubmitFromJob, Submit

-------------------------------------------------------------------------------
(***************************************************************************)
(* The invariant holds.                                                    *)
(***************************************************************************)

\* The inductive invariant is kept by every step.
LEMMA PoolStep == PoolInvariant /\ [Next]_vars => PoolInvariant'
<1> SUFFICES ASSUME PoolInvariant, [Next]_vars PROVE PoolInvariant'
  OBVIOUS
<1> DEFINE JobsKept == DequeuedInSubmissionOrder' /\ Accounting' /\ JobsAreHeld'
<1>0. worker \in [Workers -> WorkerStates]
  BY DEF PoolInvariant, TypeOK
<1> USE DEF service
<1>1. ASSUME NEW w \in Workers, StartWorker(w) \/ Sleep(w) \/ Exit(w) PROVE JobsKept
  <2>1. Busy' = Busy
    BY <1>0, <1>1 DEF StartWorker, Sleep, Exit, Busy
  <2> QED
    BY <1>1, <2>1, QuietStep DEF StartWorker, Sleep, Exit
<1>2. ASSUME NEW w \in Workers, TakeJob(w) PROVE JobsKept
  BY <1>2, TakeJobStep
<1>3. ASSUME NEW w \in Workers, FinishJob(w) PROVE JobsKept
  BY <1>3, FinishJobStep
<1>4. ASSUME NEW w \in Workers, JobNotifies(w) PROVE JobsKept
  <2>1. Busy' = Busy
    BY <1>0, <1>4 DEF JobNotifies, NotifyOne, Busy
  <2> QED
    BY <1>4, <2>1, QuietStep DEF JobNotifies
<1>5. ASSUME NEW w \in Workers, NEW j \in Jobs, SubmitFromJob(w, j) PROVE JobsKept
  <2>1. Busy' = Busy
    BY <1>0, <1>5 DEF SubmitFromJob, Busy
  <2> QED
    BY <1>5, <2>1, EnqueueStep DEF SubmitFromJob
<1>6. ASSUME NEW j \in Jobs, Submit(j) PROVE JobsKept
  <2>1. Busy' = Busy
    BY <1>6 DEF Submit, Busy
  <2> QED
    BY <1>6, <2>1, EnqueueStep DEF Submit
<1>7. ASSUME \/ StartWorkerFails \/ Created \/ WaitForIdle \/ WaitReturns \/ WaitSleeps
             \/ Shutdown \/ Joined \/ Gone \/ UNCHANGED vars
      PROVE  JobsKept
  <2>1. Busy' = Busy
    BY <1>7
       DEF StartWorkerFails, Created, WaitForIdle, WaitReturns, WaitSleeps, Shutdown, Joined,
           Gone, vars, Busy
  <2>2. UNCHANGED <<pending, active_jobs, executed_jobs, failed_jobs, job,
                    accepted, started, finished>>
    BY <1>7
       DEF StartWorkerFails, Created, WaitForIdle, WaitReturns, WaitSleeps, Shutdown, Joined,
           Gone, vars
  <2> QED
    BY <2>1, <2>2, QuietStep
<1>8. ASSUME SubmitNotifies PROVE JobsKept
  <2>1. Busy' = Busy
    BY <1>0, <1>8 DEF SubmitNotifies, NotifyOne, Busy
  <2> QED
    BY <1>8, <2>1, QuietStep DEF SubmitNotifies
<1>9. ASSUME ShutdownNotifies \/ SpuriousWakeup PROVE JobsKept
  <2>1. Busy' = Busy
    <3>1. CASE ShutdownNotifies
      BY <1>0, <3>1 DEF ShutdownNotifies, Busy
    <3>2. CASE SpuriousWakeup
      BY <1>0, <3>2 DEF SpuriousWakeup, In, Busy
    <3> QED
      BY <1>9, <3>1, <3>2
  <2>2. UNCHANGED <<pending, active_jobs, executed_jobs, failed_jobs, job,
                    accepted, started, finished>>
    BY <1>9 DEF ShutdownNotifies, SpuriousWakeup
  <2> QED
    BY <2>1, <2>2, QuietStep
<1>10. JobsKept
  <2> HIDE DEF JobsKept
  <2> QED
    BY <1>1, <1>2, <1>3, <1>4, <1>5, <1>6, <1>7, <1>8, <1>9 DEF Next
<1> QED
  BY <1>10, TypeStep, PhasesStep, WaiterStep DEF PoolInvariant

\* The inductive invariant.
THEOREM PoolInvariantHolds == Spec => []PoolInvariant
BY PoolInit, PoolStep, PTL DEF Spec

\* Every variable of the pool keeps its type.
THEOREM TypeCorrect == Spec => []TypeOK
<1>1. PoolInvariant => TypeOK
  BY DEF PoolInvariant
<1> QED
  BY <1>1, PoolInvariantHolds, PTL

\* Jobs leave the queue in the order they were accepted, whoever submits them.
THEOREM SubmissionOrder == Spec => []DequeuedInSubmissionOrder
<1>1. PoolInvariant => DequeuedInSubmissionOrder
  BY DEF PoolInvariant
<1> QED
  BY <1>1, PoolInvariantHolds, PTL

\* The owner never sleeps in WaitForIdle on an idle pool: the notification of
\* the last job cannot be missed.
THEOREM NoLostIdleWakeup == Spec => []WaiterSleepsOnlyOnABusyPool
<1>1. PoolInvariant => WaiterSleepsOnlyOnABusyPool
  BY DEF PoolInvariant
<1> QED
  BY <1>1, PoolInvariantHolds, PTL

\* A pool with an empty queue and no active job has counted every accepted one.
LEMMA IdleIsExact ==
    ASSUME PoolInvariant, Idle
    PROVE  /\ executed_jobs + failed_jobs = Len(accepted)
           /\ finished = Elements(accepted)
<1>1. Busy = {}
  BY WorkerSets DEF PoolInvariant, Accounting, Idle, Busy
<1>2. Elements(pending) = {}
  BY DEF Idle, Elements
<1>3. executed_jobs \in Nat /\ failed_jobs \in Nat /\ Len(pending) = 0 /\ active_jobs = 0
  BY DEF PoolInvariant, TypeOK, Idle
<1> QED
  BY <1>1, <1>2, <1>3 DEF PoolInvariant, Accounting, JobsAreHeld

\* When WaitForIdle returns, every job accepted so far is counted and none is
\* still inside a worker.
THEOREM WaitForIdleIsExactHolds == Spec => WaitForIdleIsExact
<1>1. PoolInvariant /\ [Next]_vars =>
        [WaitReturns => /\ executed_jobs + failed_jobs = Len(accepted)
                        /\ finished = Elements(accepted)]_vars
  BY IdleIsExact DEF WaitReturns
<1> QED
  BY <1>1, PoolInvariantHolds, PTL DEF Spec, WaitForIdleIsExact

\* Destruction joins the workers only when the queue is drained, also when
\* Create failed half-way.
THEOREM NothingAbandonedHolds == Spec => []NothingAbandoned
<1>1. PoolInvariant => NothingAbandoned
  <2> SUFFICES ASSUME PoolInvariant, game = "gone"
               PROVE  /\ pending = <<>>
                      /\ finished = Elements(accepted)
                      /\ executed_jobs + failed_jobs = Len(accepted)
    BY DEF NothingAbandoned
  <2>1. Busy = {}
    BY DEF PoolInvariant, Phases, Busy
  <2>2. active_jobs = 0
    BY <2>1, FS_EmptySet DEF PoolInvariant, Accounting
  <2>3. pending = <<>>
    <3>1. PICK w \in Workers : worker[w] \in {"unborn", "exited"}
      BY WorkersAssumption DEF PoolInvariant, Phases
    <3>2. CASE worker[w] = "exited"
      BY <3>2 DEF PoolInvariant, Phases
    <3>3. CASE worker[w] = "unborn"
      <4>1. accepted = <<>>
        BY <3>3 DEF PoolInvariant, Phases
      <4>2. started \in Seq(Jobs) /\ pending \in Seq(Jobs) /\ started \o pending = <<>>
        BY <4>1 DEF PoolInvariant, TypeOK, DequeuedInSubmissionOrder
      <4> QED
        BY <4>2, ConcatEqualIffEmpty
    <3> QED
      BY <3>1, <3>2, <3>3
  <2> QED
    BY <2>2, <2>3, IdleIsExact DEF Idle
<1> QED
  BY <1>1, PoolInvariantHolds, PTL

-------------------------------------------------------------------------------
(***************************************************************************)
(* No lost wakeup.  Each queued job is paid for by a worker awake before   *)
(* the predicate or by a notification still to be sent, as long as some    *)
(* worker sleeps: a submission adds a notification, a notification turns   *)
(* into an awake worker, and an awake worker takes a job or sleeps on an   *)
(* empty queue.                                                            *)
(***************************************************************************)

GameNotifies == IF game = "notify" THEN 1 ELSE 0

\* The sizes the payment argument counts with are numbers.
LEMMA Helpers ==
    ASSUME TypeOK
    PROVE  /\ Len(pending) \in Nat
           /\ Cardinality(In("loop")) \in Nat
           /\ Cardinality(In("notify")) \in Nat
           /\ GameNotifies \in Nat
           /\ SleepersLeaveNoJobWaiting <=>
                 (In("asleep") # {} =>
                    Len(pending) <= Cardinality(In("loop")) + Cardinality(In("notify"))
                                    + GameNotifies)
BY WorkerSets DEF TypeOK, In, GameNotifies, SleepersLeaveNoJobWaiting

\* What a step does to the helpers, when a worker goes on sleeping.
LEMMA StillPaidFor ==
    ASSUME TypeOK, TypeOK', SleepersLeaveNoJobWaiting, In("asleep") # {},
           NEW l \in {-1, 0, 1}, NEW n \in {-1, 0, 1}, NEW g \in {-1, 0, 1},
           Cardinality(In("loop")') >= Cardinality(In("loop")) + l,
           Cardinality(In("notify")') = Cardinality(In("notify")) + n,
           GameNotifies' = GameNotifies + g,
           Len(pending') <= Len(pending) + l + n + g
    PROVE  SleepersLeaveNoJobWaiting'
<1>1. /\ Len(pending) \in Nat /\ Cardinality(In("loop")) \in Nat
      /\ Cardinality(In("notify")) \in Nat /\ GameNotifies \in Nat
      /\ Len(pending) <= Cardinality(In("loop")) + Cardinality(In("notify")) + GameNotifies
  BY Helpers
<1>2. /\ Len(pending') \in Nat /\ Cardinality(In("loop")') \in Nat
      /\ Cardinality(In("notify")') \in Nat /\ GameNotifies' \in Nat
  BY WorkerSets DEF TypeOK, In, GameNotifies
<1>3. Len(pending') <= Cardinality(In("loop")') + Cardinality(In("notify")') + GameNotifies'
  BY <1>1, <1>2
<1> QED
  BY <1>3 DEF SleepersLeaveNoJobWaiting, GameNotifies, In

\* With an empty queue, a sleeper has nothing to wait for.
LEMMA EmptyQueueIsPaidFor ==
    ASSUME TypeOK', pending' = <<>>
    PROVE  SleepersLeaveNoJobWaiting'
<1>1. /\ Cardinality(In("loop")') \in Nat /\ Cardinality(In("notify")') \in Nat
      /\ GameNotifies' \in Nat
      /\ Len(pending') = 0
  BY WorkerSets DEF In, GameNotifies
<1> QED
  BY <1>1 DEF SleepersLeaveNoJobWaiting, GameNotifies, In

\* Every step keeps a payer for each queued job while a worker sleeps.
LEMMA SleepersStep ==
    TypeOK /\ TypeOK' /\ SleepersLeaveNoJobWaiting /\ [Next]_vars => SleepersLeaveNoJobWaiting'
<1> SUFFICES ASSUME TypeOK, TypeOK', SleepersLeaveNoJobWaiting, [Next]_vars,
                    In("asleep")' # {}
             PROVE  SleepersLeaveNoJobWaiting'
  BY DEF SleepersLeaveNoJobWaiting
<1>0. /\ worker \in [Workers -> WorkerStates]
      /\ pending \in Seq(Jobs) /\ Len(pending) \in Nat
      /\ \A s : Cardinality(In(s)) \in Nat
  BY WorkerSets DEF TypeOK, In
<1> DEFINE Kept(l, n, g) ==
              /\ Cardinality(In("loop")') >= Cardinality(In("loop")) + l
              /\ Cardinality(In("notify")') = Cardinality(In("notify")) + n
              /\ GameNotifies' = GameNotifies + g
              /\ Len(pending') <= Len(pending) + l + n + g
<1>1. ASSUME NEW w \in Workers, StartWorker(w) PROVE SleepersLeaveNoJobWaiting'
  <2>1. /\ In("loop")' = In("loop") \cup {w} /\ w \notin In("loop")
        /\ In("notify")' = In("notify") /\ In("asleep")' = In("asleep")
    BY <1>0, <1>1 DEF StartWorker, In
  <2>2. GameNotifies' = GameNotifies + 0 /\ pending' = pending
    BY <1>1 DEF StartWorker, GameNotifies, service
  <2>3. Cardinality(In("loop")') = Cardinality(In("loop")) + 1
    BY <2>1, OneWorkerMore DEF In
  <2>4. Kept(1, 0, 0)
    BY <1>0, <2>1, <2>2, <2>3
  <2> QED
    BY <2>1, <2>4, StillPaidFor
<1>2. ASSUME NEW w \in Workers, TakeJob(w) PROVE SleepersLeaveNoJobWaiting'
  <2>1. /\ In("loop")' = In("loop") \ {w} /\ w \in In("loop")
        /\ In("notify")' = In("notify") /\ In("asleep")' = In("asleep")
    BY <1>0, <1>2 DEF TakeJob, In
  <2>2. GameNotifies' = GameNotifies + 0 /\ Len(pending') = Len(pending) - 1
    BY <1>0, <1>2, ElementsOfTail DEF TakeJob, GameNotifies
  <2>3. Cardinality(In("loop")') = Cardinality(In("loop")) - 1
    BY <2>1, OneWorkerMore DEF In
  <2>4. Kept(-1, 0, 0)
    BY <1>0, <2>1, <2>2, <2>3
  <2> QED
    BY <2>1, <2>4, StillPaidFor
<1>3. ASSUME NEW w \in Workers, Sleep(w) \/ Exit(w) PROVE SleepersLeaveNoJobWaiting'
  BY <1>3, EmptyQueueIsPaidFor DEF Sleep, Exit, service
<1>4. ASSUME NEW w \in Workers, FinishJob(w) PROVE SleepersLeaveNoJobWaiting'
  <2>1. /\ In("loop")' = In("loop") \cup {w} /\ w \notin In("loop")
        /\ In("notify")' = In("notify") /\ In("asleep")' = In("asleep")
    BY <1>0, <1>4 DEF FinishJob, In
  <2>2. GameNotifies' = GameNotifies + 0 /\ pending' = pending
    BY <1>4 DEF FinishJob, GameNotifies
  <2>3. Cardinality(In("loop")') = Cardinality(In("loop")) + 1
    BY <2>1, OneWorkerMore DEF In
  <2>4. Kept(1, 0, 0)
    BY <1>0, <2>1, <2>2, <2>3
  <2> QED
    BY <2>1, <2>4, StillPaidFor
<1>5. ASSUME NEW w \in Workers, JobNotifies(w) PROVE SleepersLeaveNoJobWaiting'
  <2>1. In("asleep")' \subseteq In("asleep")
    BY <1>0, <1>5 DEF JobNotifies, NotifyOne, In
  <2>2. {v \in Workers : [worker EXCEPT ![w] = "running"][v] = "asleep"} = In("asleep")
    BY <1>0, <1>5 DEF JobNotifies, In
  <2>3. PICK v \in In("asleep") :
           worker' = [[worker EXCEPT ![w] = "running"] EXCEPT ![v] = "loop"]
    BY <1>5, <2>1, <2>2 DEF JobNotifies, NotifyOne
  <2>4. /\ In("loop")' = In("loop") \cup {v} /\ v \notin In("loop") /\ v \in Workers
        /\ In("notify")' = In("notify") \ {w} /\ w \in In("notify")
    BY <1>0, <1>5, <2>3 DEF JobNotifies, In
  <2>5. GameNotifies' = GameNotifies + 0 /\ pending' = pending
    BY <1>5 DEF JobNotifies, GameNotifies, service
  <2>6. /\ Cardinality(In("loop")') = Cardinality(In("loop")) + 1
        /\ Cardinality(In("notify")') = Cardinality(In("notify")) - 1
    BY <2>4, OneWorkerMore DEF In
  <2>7. Kept(1, -1, 0)
    BY <1>0, <2>5, <2>6
  <2> QED
    BY <2>1, <2>7, StillPaidFor
<1>6. ASSUME NEW w \in Workers, NEW j \in Jobs, SubmitFromJob(w, j)
      PROVE  SleepersLeaveNoJobWaiting'
  <2>1. /\ In("loop")' = In("loop") /\ In("asleep")' = In("asleep")
        /\ In("notify")' = In("notify") \cup {w} /\ w \notin In("notify")
    BY <1>0, <1>6 DEF SubmitFromJob, In
  <2>2. GameNotifies' = GameNotifies + 0 /\ Len(pending') = Len(pending) + 1
    BY <1>0, <1>6, AppendProperties DEF SubmitFromJob, Enqueue, GameNotifies
  <2>3. Cardinality(In("notify")') = Cardinality(In("notify")) + 1
    BY <2>1, OneWorkerMore DEF In
  <2>4. Kept(0, 1, 0)
    BY <1>0, <2>1, <2>2, <2>3
  <2> QED
    BY <2>1, <2>4, StillPaidFor
<1>7. ASSUME NEW j \in Jobs, Submit(j) PROVE SleepersLeaveNoJobWaiting'
  <2>1. In("loop")' = In("loop") /\ In("asleep")' = In("asleep") /\ In("notify")' = In("notify")
    BY <1>7 DEF Submit, In
  <2>2. GameNotifies' = GameNotifies + 1 /\ Len(pending') = Len(pending) + 1
    BY <1>0, <1>7, AppendProperties DEF Submit, Enqueue, GameNotifies
  <2>3. Kept(0, 0, 1)
    BY <1>0, <2>1, <2>2
  <2> QED
    BY <2>1, <2>3, StillPaidFor
<1>8. ASSUME SubmitNotifies PROVE SleepersLeaveNoJobWaiting'
  <2>1. In("asleep")' \subseteq In("asleep")
    BY <1>0, <1>8 DEF SubmitNotifies, NotifyOne, In
  <2>2. PICK v \in In("asleep") : worker' = [worker EXCEPT ![v] = "loop"]
    BY <1>8, <2>1 DEF SubmitNotifies, NotifyOne, In
  <2>3. /\ In("loop")' = In("loop") \cup {v} /\ v \notin In("loop") /\ v \in Workers
        /\ In("notify")' = In("notify")
    BY <1>0, <2>2 DEF In
  <2>4. GameNotifies' = GameNotifies + (-1) /\ pending' = pending
    BY <1>8 DEF SubmitNotifies, GameNotifies, service
  <2>5. Cardinality(In("loop")') = Cardinality(In("loop")) + 1
    BY <2>3, OneWorkerMore DEF In
  <2>6. Kept(1, 0, -1)
    BY <1>0, <2>3, <2>4, <2>5
  <2> QED
    BY <2>1, <2>6, StillPaidFor
<1>9. ASSUME ShutdownNotifies PROVE FALSE
  BY <1>0, <1>9 DEF ShutdownNotifies, In
<1>10. ASSUME SpuriousWakeup PROVE SleepersLeaveNoJobWaiting'
  <2>1. ASSUME NEW w \in In("asleep"), worker' = [worker EXCEPT ![w] = "loop"], game' = game
        PROVE  SleepersLeaveNoJobWaiting'
    <3>1. /\ In("loop")' = In("loop") \cup {w} /\ w \notin In("loop") /\ w \in Workers
          /\ In("notify")' = In("notify")
      BY <1>0, <2>1 DEF In
    <3>2. GameNotifies' = GameNotifies + 0 /\ pending' = pending
      BY <1>10, <2>1 DEF SpuriousWakeup, GameNotifies, service
    <3>3. Cardinality(In("loop")') = Cardinality(In("loop")) + 1
      BY <3>1, OneWorkerMore DEF In
    <3>4. Kept(1, 0, 0)
      BY <1>0, <3>1, <3>2, <3>3
    <3> QED
      BY <3>4, StillPaidFor
  <2>2. ASSUME game = "waitAsleep", game' = "waitCheck", worker' = worker
        PROVE  SleepersLeaveNoJobWaiting'
    <3>1. GameNotifies' = GameNotifies + 0 /\ pending' = pending
      BY <1>10, <2>2 DEF SpuriousWakeup, GameNotifies, service
    <3>2. /\ In("loop")' = In("loop") /\ In("notify")' = In("notify")
          /\ In("asleep")' = In("asleep")
      BY <2>2 DEF In
    <3>3. Kept(0, 0, 0)
      BY <1>0, <3>1, <3>2
    <3> QED
      BY <3>2, <3>3, StillPaidFor
  <2> QED
    BY <1>10, <2>1, <2>2 DEF SpuriousWakeup
<1>11. ASSUME \/ StartWorkerFails \/ Created \/ WaitForIdle \/ WaitReturns \/ WaitSleeps
              \/ Shutdown \/ Joined \/ Gone \/ UNCHANGED vars
       PROVE  SleepersLeaveNoJobWaiting'
  <2>1. /\ worker' = worker /\ pending' = pending /\ GameNotifies' = GameNotifies + 0
    BY <1>11
       DEF StartWorkerFails, Created, WaitForIdle, WaitReturns, WaitSleeps, Shutdown, Joined,
           Gone, vars, service, GameNotifies
  <2>2. /\ In("loop")' = In("loop") /\ In("notify")' = In("notify")
        /\ In("asleep")' = In("asleep")
    BY <2>1 DEF In
  <2>3. Kept(0, 0, 0)
    BY <1>0, <2>1, <2>2
  <2> QED
    BY <2>2, <2>3, StillPaidFor
<1> QED
  BY <1>1, <1>2, <1>3, <1>4, <1>5, <1>6, <1>7, <1>8, <1>9, <1>10, <1>11 DEF Next

\* No wakeup is lost: while a worker sleeps, every queued job has an awake
\* worker or a notification of its own.
THEOREM NoLostWakeup == Spec => []SleepersLeaveNoJobWaiting
<1>1. Init => SleepersLeaveNoJobWaiting
  BY DEF Init, SleepersLeaveNoJobWaiting, In
<1>2. PoolInvariant => TypeOK
  BY DEF PoolInvariant
<1> QED
  BY <1>1, <1>2, PoolInvariantHolds, SleepersStep, PTL DEF Spec

\* Every accepted job is taken in its turn and counted before the service is gone.
THEOREM AcceptedJobsAreKeptHolds == Spec => []AcceptedJobsAreKept
BY SubmissionOrder, NothingAbandonedHolds, PTL DEF AcceptedJobsAreKept

\* Neither the workers' nor the owner's condition variable loses a wakeup.
THEOREM NoLostWakeupsHold == Spec => []NoLostWakeups
BY NoLostWakeup, NoLostIdleWakeup, PTL DEF NoLostWakeups

-------------------------------------------------------------------------------
(***************************************************************************)
(* The pool takes the steps of JobPool, and no others.                     *)
(***************************************************************************)

Running == {job[w] : w \in Workers} \ {NoJob}

\* A job is in one place.
InOnePlace ==
    /\ \A i, k \in 1..Len(pending) : pending[i] = pending[k] => i = k
    /\ Elements(pending) \cap (Running \cup finished) = {}
    /\ Running \cap finished = {}
    /\ \A v, w \in Busy : job[v] = job[w] => v = w

\* The jobs held are those of the busy workers.
LEMMA RunningIsHeld ==
    ASSUME PoolInvariant
    PROVE  /\ Running = {job[w] : w \in Busy}
           /\ Elements(accepted) = finished \cup Elements(pending) \cup Running
BY DEF PoolInvariant, JobsAreHeld, Running, Busy

\* The head of a queue without duplicates is not in its tail.
LEMMA TailIsDistinct ==
    ASSUME NEW s \in Seq(Jobs), s # <<>>,
           \A i, k \in 1..Len(s) : s[i] = s[k] => i = k
    PROVE  /\ Elements(Tail(s)) = Elements(s) \ {Head(s)}
           /\ \A i, k \in 1..Len(Tail(s)) : Tail(s)[i] = Tail(s)[k] => i = k
<1>1. /\ Len(s) \in Nat \ {0}
      /\ Head(s) = s[1]
      /\ Len(Tail(s)) = Len(s) - 1
      /\ \A i \in 1..(Len(s) - 1) : Tail(s)[i] = s[i + 1] /\ i + 1 \in 1..Len(s) /\ i + 1 # 1
      /\ 1 \in 1..Len(s)
  OBVIOUS
<1>2. Head(s) \notin Elements(Tail(s))
  BY <1>1 DEF Elements
<1>3. Elements(s) = {Head(s)} \cup Elements(Tail(s))
  BY ElementsOfTail
<1>4. ASSUME NEW i \in 1..Len(Tail(s)), NEW k \in 1..Len(Tail(s)), Tail(s)[i] = Tail(s)[k]
      PROVE  i = k
  <2>1. i + 1 = k + 1
    BY <1>1, <1>4
  <2> QED
    BY <1>1, <2>1
<1> QED
  BY <1>2, <1>3, <1>4

\* No job is anywhere at first.
LEMMA InOnePlaceInit == Init => InOnePlace
BY DEF Init, InOnePlace, Elements, Running, Busy

\* Each step moves at most one job, as a step of JobPool does.
PoolMove ==
    \/ \E j \in Jobs :
          Pool!SubmitJob(j) \/ Pool!StartJob(j) \/ Pool!FinishJob(j)
    \/ UNCHANGED <<Elements(pending), Running, finished>>

\* An accepted submission is the SubmitJob of JobPool.
LEMMA EnqueueMoves ==
    ASSUME PoolInvariant, InOnePlace, NEW j \in Jobs, Enqueue(j), Busy' = Busy
    PROVE  InOnePlace' /\ Pool!SubmitJob(j)
<1> USE DEF PoolInvariant, TypeOK
<1>1. Elements(pending)' = Elements(pending) \cup {j}
  BY ElementsOfAppend DEF Enqueue
<1>2. Running' = Running /\ finished' = finished /\ job' = job
  BY DEF Enqueue, Running
<1>3. j \notin Elements(pending) \cup Running \cup finished
  BY RunningIsHeld DEF Enqueue
<1>4. \A i, k \in 1..Len(pending') : pending'[i] = pending'[k] => i = k
  <2>1. /\ Len(pending') = Len(pending) + 1 /\ Len(pending) \in Nat
        /\ \A i \in 1..Len(pending) : pending'[i] = pending[i] /\ pending[i] # j
        /\ pending'[Len(pending) + 1] = j
    <3>1. pending \in Seq(Jobs) /\ pending' = Append(pending, j)
      BY DEF Enqueue
    <3>2. /\ Len(Append(pending, j)) = Len(pending) + 1 /\ Len(pending) \in Nat
          /\ \A i \in 1..Len(pending) : Append(pending, j)[i] = pending[i]
          /\ Append(pending, j)[Len(pending) + 1] = j
      BY <3>1, AppendProperties
    <3>3. \A i \in 1..Len(pending) : pending[i] # j
      BY <1>3 DEF Elements
    <3> HIDE DEF PoolInvariant, TypeOK
    <3> QED
      BY <3>1, <3>2, <3>3
  <2>2. 1..Len(pending') = (1..Len(pending)) \cup {Len(pending) + 1}
    BY <2>1
  <2>3. ASSUME NEW i \in 1..Len(pending'), NEW k \in 1..Len(pending'),
               pending'[i] = pending'[k]
        PROVE  i = k
    <3>1. CASE i \in 1..Len(pending) /\ k \in 1..Len(pending)
      BY <2>1, <2>3, <3>1 DEF InOnePlace
    <3>2. CASE i = Len(pending) + 1 \/ k = Len(pending) + 1
      BY <2>1, <2>2, <2>3, <3>2
    <3> QED
      BY <2>2, <3>1, <3>2
  <2> QED
    BY <2>3
<1>5. InOnePlace'
  BY <1>1, <1>2, <1>3, <1>4 DEF InOnePlace
<1> QED
  BY <1>1, <1>2, <1>3, <1>5 DEF Pool!SubmitJob, Running

\* Taking the oldest job is the StartJob of JobPool.
LEMMA TakeJobMoves ==
    ASSUME PoolInvariant, InOnePlace, NEW w \in Workers, TakeJob(w)
    PROVE  InOnePlace' /\ Head(pending) \in Jobs /\ Pool!StartJob(Head(pending))
<1>0. /\ TypeOK /\ JobsAreHeld /\ Phases
  BY DEF PoolInvariant
<1>1. pending \in Seq(Jobs) /\ pending # <<>> /\ Head(pending) \in Jobs
  BY <1>0, ElementsOfTail DEF TakeJob, TypeOK
<1>2. /\ Elements(pending)' = Elements(pending) \ {Head(pending)}
      /\ Head(pending) \in Elements(pending)
      /\ \A i, k \in 1..Len(pending') : pending'[i] = pending'[k] => i = k
  BY <1>1, TailIsDistinct, ElementsOfTail DEF TakeJob, InOnePlace
<1>3. /\ w \notin Busy /\ Busy' = Busy \cup {w} /\ Busy \subseteq Workers
      /\ job' = [job EXCEPT ![w] = Head(pending)] /\ finished' = finished
      /\ job \in [Workers -> Jobs \cup {NoJob}]
      /\ job[w] = NoJob
  BY <1>0 DEF TakeJob, Busy, JobsAreHeld, TypeOK
<1>4. Running' = Running \cup {Head(pending)}
  <2>1. \A v \in Workers : job'[v] = IF v = w THEN Head(pending) ELSE job[v]
    BY <1>3
  <2>2. Head(pending) # NoJob
    BY <1>1, JobsAssumption
  <2> QED
    BY <1>3, <2>1, <2>2 DEF Running
<1>5. ASSUME NEW v \in Busy', NEW u \in Busy', job'[v] = job'[u] PROVE v = u
  <2>1. \A x \in Busy : x # w /\ job'[x] = job[x] /\ job[x] \in Running
    BY <1>3, RunningIsHeld
  <2>2. job'[w] = Head(pending) /\ Head(pending) \notin Running
    BY <1>2, <1>3 DEF InOnePlace
  <2>3. CASE v = w
    BY <1>3, <1>5, <2>1, <2>2, <2>3
  <2>4. CASE v # w /\ u = w
    BY <1>3, <1>5, <2>1, <2>2, <2>4
  <2>5. CASE v # w /\ u # w
    <3>1. v \in Busy /\ u \in Busy /\ job[v] = job[u]
      BY <1>3, <1>5, <2>1, <2>5
    <3> QED
      BY <3>1 DEF InOnePlace
  <2> QED
    BY <2>3, <2>4, <2>5
<1>6. Head(pending) \notin Running \cup finished
  BY <1>2 DEF InOnePlace
<1>7. InOnePlace'
  <2>1. Elements(pending)' \cap (Running' \cup finished') = {}
    BY <1>2, <1>3, <1>4 DEF InOnePlace
  <2>2. Running' \cap finished' = {}
    BY <1>3, <1>4, <1>6 DEF InOnePlace
  <2> QED
    BY <1>2, <1>5, <2>1, <2>2 DEF InOnePlace
<1> QED
  <2>1. Pool!StartJob(Head(pending))
    BY <1>2, <1>3, <1>4 DEF Pool!StartJob, Running
  <2> QED
    BY <1>1, <1>7, <2>1

\* The end of a job is the FinishJob of JobPool.
LEMMA FinishJobMoves ==
    ASSUME PoolInvariant, InOnePlace, NEW w \in Workers, FinishJob(w)
    PROVE  InOnePlace' /\ job[w] \in Jobs /\ Pool!FinishJob(job[w])
<1> USE DEF PoolInvariant, TypeOK
<1>1. /\ w \in Busy /\ Busy' = Busy \ {w} /\ Busy \subseteq Workers
      /\ job' = [job EXCEPT ![w] = NoJob] /\ finished' = finished \cup {job[w]}
      /\ pending' = pending
  BY DEF FinishJob, Busy
<1>2. job[w] \in Jobs /\ job[w] \in Running
  BY <1>1, RunningIsHeld DEF JobsAreHeld
<1>3. Running' = Running \ {job[w]}
  <2>1. \A v \in Workers : job'[v] = IF v = w THEN NoJob ELSE job[v]
    BY <1>1
  <2>2. \A v \in Workers : v # w /\ job[v] # NoJob => job[v] # job[w]
    BY <1>1 DEF InOnePlace, JobsAreHeld
  <2> QED
    BY <2>1, <2>2 DEF Running
<1>4. Elements(pending)' = Elements(pending)
  BY <1>1 DEF Elements
<1>5. \A v, u \in Busy' : job'[v] = job'[u] => v = u
  BY <1>1 DEF InOnePlace
<1>6. InOnePlace'
  BY <1>1, <1>2, <1>3, <1>4, <1>5 DEF InOnePlace
<1> QED
  BY <1>1, <1>2, <1>3, <1>4, <1>6 DEF Pool!FinishJob, Running

\* A step that leaves the queue, the held jobs and the finished ones alone moves no job.
LEMMA OtherStepsMoveNothing ==
    ASSUME PoolInvariant, InOnePlace, Busy' = Busy, UNCHANGED <<pending, job, finished>>
    PROVE  InOnePlace' /\ UNCHANGED <<Elements(pending), Running, finished>>
<1>1. Elements(pending)' = Elements(pending) /\ Running' = Running
  BY DEF Elements, Running
<1> QED
  BY <1>1 DEF InOnePlace


\* Every step of the pool keeps each job in one place, and is a step of JobPool
\* or leaves all of it alone.
LEMMA EveryStepMoves ==
    ASSUME PoolInvariant, InOnePlace, [Next]_vars
    PROVE  InOnePlace' /\ PoolMove
<1>0. TypeOK
  BY DEF PoolInvariant
<1>1. ASSUME NEW w \in Workers, NEW j \in Jobs, SubmitFromJob(w, j)
      PROVE  InOnePlace' /\ PoolMove
  <2>1. Enqueue(j) /\ Busy' = Busy
    BY <1>0, <1>1 DEF SubmitFromJob, Enqueue, Busy, TypeOK
  <2> QED
    BY <2>1, EnqueueMoves DEF PoolMove
<1>2. ASSUME NEW j \in Jobs, Submit(j) PROVE InOnePlace' /\ PoolMove
  <2>1. Enqueue(j) /\ Busy' = Busy
    BY <1>2 DEF Submit, Busy
  <2> QED
    BY <2>1, EnqueueMoves DEF PoolMove
<1>3. ASSUME NEW w \in Workers, TakeJob(w) PROVE InOnePlace' /\ PoolMove
  <2>1. InOnePlace' /\ Head(pending) \in Jobs /\ Pool!StartJob(Head(pending))
    BY <1>3, TakeJobMoves
  <2>2. PICK j \in Jobs : j = Head(pending)
    BY <2>1
  <2>3. Pool!StartJob(j)
    BY <2>1, <2>2 DEF Pool!StartJob
  <2> QED
    BY <2>1, <2>3 DEF PoolMove
<1>4. ASSUME NEW w \in Workers, FinishJob(w) PROVE InOnePlace' /\ PoolMove
  <2>1. InOnePlace' /\ job[w] \in Jobs /\ Pool!FinishJob(job[w])
    BY <1>4, FinishJobMoves
  <2>2. PICK j \in Jobs : j = job[w]
    BY <2>1
  <2>3. Pool!FinishJob(j)
    BY <2>1, <2>2 DEF Pool!FinishJob
  <2> QED
    BY <2>1, <2>3 DEF PoolMove
<1>5. ASSUME NEW w \in Workers, StartWorker(w) \/ Sleep(w) \/ Exit(w) \/ JobNotifies(w)
      PROVE  InOnePlace' /\ PoolMove
  <2>1. UNCHANGED <<pending, job, finished>>
    BY <1>5 DEF StartWorker, Sleep, Exit, JobNotifies, service
  <2>2. Busy' = Busy
    <3>1. CASE StartWorker(w) \/ Sleep(w) \/ Exit(w)
      BY <1>0, <3>1 DEF StartWorker, Sleep, Exit, Busy, TypeOK
    <3>2. CASE JobNotifies(w)
      BY <1>0, <3>2 DEF JobNotifies, NotifyOne, Busy, TypeOK
    <3> QED
      BY <1>5, <3>1, <3>2
  <2> QED
    BY <2>1, <2>2, OtherStepsMoveNothing DEF PoolMove
<1>6. ASSUME SubmitNotifies \/ ShutdownNotifies \/ SpuriousWakeup
      PROVE  InOnePlace' /\ PoolMove
  <2>1. UNCHANGED <<pending, job, finished>>
    BY <1>6 DEF SubmitNotifies, ShutdownNotifies, SpuriousWakeup, service
  <2>2. Busy' = Busy
    <3>1. CASE SubmitNotifies
      BY <1>0, <3>1 DEF SubmitNotifies, NotifyOne, Busy, TypeOK
    <3>2. CASE ShutdownNotifies
      BY <1>0, <3>2 DEF ShutdownNotifies, Busy, TypeOK
    <3>3. CASE SpuriousWakeup
      BY <1>0, <3>3 DEF SpuriousWakeup, In, Busy, TypeOK
    <3> QED
      BY <1>6, <3>1, <3>2, <3>3
  <2> QED
    BY <2>1, <2>2, OtherStepsMoveNothing DEF PoolMove
<1>7. ASSUME \/ StartWorkerFails \/ Created \/ WaitForIdle \/ WaitReturns \/ WaitSleeps
             \/ Shutdown \/ Joined \/ Gone \/ UNCHANGED vars
      PROVE  InOnePlace' /\ PoolMove
  <2>1. UNCHANGED <<pending, job, finished, worker>>
    BY <1>7
       DEF StartWorkerFails, Created, WaitForIdle, WaitReturns, WaitSleeps, Shutdown, Joined,
           Gone, vars, service
  <2>2. Busy' = Busy
    BY <2>1 DEF Busy
  <2> QED
    BY <2>1, <2>2, OtherStepsMoveNothing DEF PoolMove
<1> QED
  BY <1>1, <1>2, <1>3, <1>4, <1>5, <1>6, <1>7 DEF Next

\* The safety half of ImplementsJobPool: every behaviour of the threads, seen as
\* the sets of queued, running and finished jobs, is one of JobPool, in which an
\* accepted job runs on one worker, once.
THEOREM PoolStepsImplemented == Spec => Pool!PoolInit /\ [][Pool!PoolNext]_(Pool!poolVars)
<1>1. Init => Pool!PoolInit
  BY DEF Init, Pool!PoolInit, Elements
<1>2. ASSUME PoolInvariant, InOnePlace, [Next]_vars
      PROVE  [Pool!PoolNext]_(Pool!poolVars)
  BY <1>2, EveryStepMoves DEF PoolMove, Pool!PoolNext, Pool!poolVars, Running
<1>3. PoolInvariant /\ InOnePlace /\ [Next]_vars => InOnePlace'
  BY EveryStepMoves
<1> QED
  BY <1>1, <1>2, <1>3, InOnePlaceInit, PoolInvariantHolds, PTL DEF Spec

===============================================================================
