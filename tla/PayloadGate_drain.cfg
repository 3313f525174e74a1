SPECIFICATION FairSpec
CONSTANTS
    Holders = {h1, h2}
    Drains = {d1, d2}
    MaxEpoch = 3
    NoDrain = NoDrain
INVARIANTS
    DrainWaits
PROPERTIES
    ImplementsGate
    DrainReturns
