CONSTANTS
    p1 = p1  p2 = p2  s1 = s1  s2 = s2  u1 = u1  u2 = u2
    Process = {p1, p2}
    Store = {s1, s2}
    Use = {u1, u2}
    ProcOf <- ApartProcOf
    StoreOf <- ApartStoreOf
    Reuse <- Reusing
    Nobody = Nobody
    NoGuard = NoGuard
    MaxGeneration = 2
    MaxNonce = 2
    MaxCount = 3
SPECIFICATION Spec
INVARIANTS NothingWithoutFlock NoForeignStale WriteAnnounced CurrentAuthoritative
PROPERTY EpochNew
SYMMETRY ApartSymmetry
CHECK_DEADLOCK FALSE
