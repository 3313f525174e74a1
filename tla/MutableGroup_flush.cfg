CONSTANTS
    k1 = k1  k2 = k2  k3 = k3
    Key = {k1, k2, k3}
    Byte <- ThreeBytes
    Ladder <- SmallLadder
    InitialLevel = 1
    Threshold = 1
    Scenes <- Flushes
    Client = {c1}
    Flush = {f1}
    Sweep = {}
    Opener = Opener
    Nobody = Nobody
    NoFile = NoFile
    MaxValue = 1
    MaxFaults = 1
    MaxStops = 1
SPECIFICATION Spec
INVARIANTS HoldsLatest LoadsLatest
PROPERTIES ImplementsMap
