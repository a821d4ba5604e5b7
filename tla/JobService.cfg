CONSTANTS
    Workers = {w1, w2, w3}
    Jobs = {j1, j2, j3}
    MaxPending = 2
    NoJob = NoJob
SPECIFICATION FairSpec
INVARIANT AcceptedJobsAreKept
INVARIANT NoLostWakeups
PROPERTY WaitForIdleIsExact
PROPERTY CallsReturn
PROPERTY ImplementsJobPool
