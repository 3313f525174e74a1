CONSTANTS
    k1 = k1  k2 = k2  k3 = k3
    Key = {k1, k2}
    Byte <- HighBytes
    Ladder <- SmallLadder
    InitialLevel = 1
    Threshold = 1
    Scenes <- Sweeps
    Client = {c1}
    Flush = {f1}
    Sweep = {s1}
    Opener = Opener
    Nobody = Nobody
    NoFile = NoFile
    MaxValue = 1
    MaxFaults = 1
    MaxStops = 0
SPECIFICATION Spec
PROPERTIES FlushSettles
