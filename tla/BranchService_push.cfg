CONSTANTS
    main = main  side = side  fork = fork
    r1 = r1  r2 = r2  r3 = r3
    fa = fa  fb = fb
    File = {fa, fb}
    Step = 2
    None = None
    Unread = Unread
    Branch = {main, side, fork}
    Default = main
    Request = {r1, r2, r3}
    Scenes <- Busy
    Grown = 4
    Trunk = 1
    Uploaded <- FirstUploads
    MaxBoundary = 8
    MaxEnds = 1
SPECIFICATION FairSpec
CHECK_DEADLOCK FALSE
INVARIANTS AcknowledgedKept NumbersGrow LineWhole StepsOnLine FindsOnLine MappedDescribed
PROPERTIES NoLostUpdate EveryRequestAnswered
