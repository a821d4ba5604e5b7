------------------------------- MODULE JobPool -------------------------------
(***************************************************************************)
(* What a client of the worker pool may rely on: an accepted job is handed *)
(* to one worker once, runs there once, and finishes.  JobService is shown *)
(* to implement this; AssetService is built on it.                         *)
(***************************************************************************)
EXTENDS Naturals

CONSTANT Jobs     \* identities of the jobs a client may submit

VARIABLES queued,    \* accepted, not yet handed to a worker
          running,   \* handed to a worker
          finished   \* returned, or left by an exception

poolVars == <<queued, running, finished>>

\* No job is accepted yet.
PoolInit == queued = {} /\ running = {} /\ finished = {}

\* An accepted submission.  A rejected one changes nothing.
SubmitJob(j) ==
    /\ j \notin queued \cup running \cup finished
    /\ queued' = queued \cup {j}
    /\ UNCHANGED <<running, finished>>

\* A worker takes the job.
StartJob(j) ==
    /\ j \in queued
    /\ queued' = queued \ {j}
    /\ running' = running \cup {j}
    /\ UNCHANGED finished

\* The job returns or throws.
FinishJob(j) ==
    /\ j \in running
    /\ running' = running \ {j}
    /\ finished' = finished \cup {j}
    /\ UNCHANGED queued

PoolNext == \E j \in Jobs : SubmitJob(j) \/ StartJob(j) \/ FinishJob(j)

PoolFairness ==
    \A j \in Jobs : WF_poolVars(StartJob(j)) /\ WF_poolVars(FinishJob(j))

PoolSpec == PoolInit /\ [][PoolNext]_poolVars /\ PoolFairness
==============================================================================
