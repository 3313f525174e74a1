CONSTANTS
    k1 = k1  k2 = k2  k3 = k3
    Key = {k1, k2}
    Byte <- HighBytes
    Ladder <- OneStep
    InitialLevel = 1
    Threshold = 1
    Scenes <- SweepsOrList
    Client = {c1}
    Flush = {f1}
    Sweep = {s1}
    Opener = Opener
    Nobody = Nobody
    NoFile = NoFile
    MaxValue = 1
    MaxFaults = 2
    MaxStops = 0
SPECIFICATION Spec
INVARIANTS UnflaggedIsOnDisk FlushedIsDurable
PROPERTIES ListComplete
