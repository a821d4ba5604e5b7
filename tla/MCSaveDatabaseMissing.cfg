CONSTANTS
    k1 = k1
    k2 = k2
    v1 = v1
    v2 = v2
    Keys = {k1, k2}
    Values = {v1, v2}
    NoValue = NoValue
    ValueBytes <- SmallAndLarge
    MaxGeneration = 3
    Procs = {p1, p2}
    NoProc = NoProc
    Batches <- FewBatches
    Configs <- DefaultLimits
    InitialDirectories = {"durable"}
    DamageKinds = {"missing"}
SPECIFICATION Spec
INVARIANT MissingSlotFailsClosed
