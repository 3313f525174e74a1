CONSTANTS
    p1 = p1  p2 = p2  s1 = s1  s2 = s2  u1 = u1  u2 = u2
    Process = {p1}
    Store = {s1}
    Use = {u1, u2}
    ProcOf <- SharedProcOf
    StoreOf <- SharedStoreOf
    Reuse <- Reloading
    Nobody = Nobody
    NoGuard = NoGuard
    MaxGeneration = 3
    MaxNonce = 3
    MaxCount = 3
SPECIFICATION FairSpec
INVARIANTS ReloadAlone NoOrphanStale
PROPERTIES FlockLetGo GateLetGo
CHECK_DEADLOCK FALSE
