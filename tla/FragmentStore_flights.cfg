CONSTANTS
    x = x
    y = y
    z = z
    X = X
    Z = Z
    t1 = t1
    t2 = t2
    t3 = t3
    t4 = t4
    w1 = w1
    Address = {x, y, z}
    Content <- Contents
    Task = {t1, t2, t3, t4}
    Tracker = {w1}
    Scenes <- AllScenes
    NoTask = NoTask
    NoTracker = NoTracker
    NoEntry = NoEntry
    MaxEvictions = 1
SPECIFICATION FairSpec
INVARIANTS TypeOK FlagsTrue WrittenHeld KeysWhole FetchChecked FailsOwn
PROPERTIES LandedSeen EveryCallReturns
CHECK_DEADLOCK FALSE
