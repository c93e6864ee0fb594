SPECIFICATION AckedSpec
CONSTANTS
    Call = {c1, c2}
    Rid = {r1, r2}
    FreshRid = {}
    NoRid = NoRid
    None = None
    Idle = Idle
    RetryCount = 1
    MaxCrashes = 0
    MaxCopies = 1
    Wrap = 64
    Cooldown = 2
    PulseMs = 0
    CacheSize = 1
    BootMs = 1
    MaxClock = 2
    MaxOpens = 1
    MaxBoots = 0
PROPERTY DuplicateAcksIgnored
