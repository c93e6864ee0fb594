SPECIFICATION Spec
CONSTANTS
    c1 = c1
    c2 = c2
    r1 = r1
    r2 = r2
    Call = {c1, c2}
    Rid = {r1, r2}
    FreshRid = {}
    NoRid = NoRid
    None = None
    Idle = Idle
    RetryCount = 1
    MaxCrashes = 1
    MaxCopies = 1
    Wrap = 64
    Cooldown = 1
    PulseMs = 0
    CacheSize = 1
    BootMs = 1
    MaxClock = 2
    MaxOpens = 2
    MaxBoots = 1
    MaxTrouble = 2
SYMMETRY CallSymmetry
CONSTRAINT Trouble
INVARIANT SuccessMeansOpened
PROPERTY ImplementsGateSpec
