CONSTANTS
    a1 = a1
    a2 = a2
    b1 = b1
    g = g
    h = h
    r1 = r1
    s1 = s1
    s2 = s2
    o1 = o1
    o2 = o2
    fl = fl
    co = co
    nobody = nobody
    Order <- TheOrder
    HashOf <- TheHash
    PartitionOf <- ThePartition
    HomeOf <- TheHome
    Readers = {r1}
    Storers = {s1, s2}
    Obliterators = {o1, o2}
    Flusher = fl
    Compactor = co
    NoOne = nobody
    Limit = 2
    MinCount = 1
    Threshold = 2
    Scenes <- TheScenes
SPECIFICATION Spec
INVARIANTS EntriesWhole DiskWhole HeldWhole StaysObliterated ReclaimsGarbage
