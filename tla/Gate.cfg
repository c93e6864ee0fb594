SPECIFICATION Spec
CONSTANTS
    r1 = r1
    r2 = r2
    r3 = r3
    Rid = {r1, r2, r3}
    NoRid = NoRid
    Idle = Idle
    Command <- AnyCommand
    Wrap = 3
    Cooldown = 2
    PulseMs = 1
    CacheSize = 2
    BootMs = 1
    MaxClock = 7
    MaxOpens = 4
    MaxBoots = 1
    MaxCopies = 0
SYMMETRY RidSymmetry
CONSTRAINT ShortAfterReset
INVARIANTS
    TypeOK
    OkAckMeansOpened
    OpensAreRecorded
    NoRepeatInWindow
PROPERTY CooldownBetweenPulses
