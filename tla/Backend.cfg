SPECIFICATION FairSpec
CONSTANTS
    c1 = c1
    c2 = c2
    r1 = r1
    r2 = r2
    Call = {c1, c2}
    Rid = {r1, r2}
    NoRid = NoRid
    FreshRid = {r2}
    None = None
    RetryCount = 1
    EnvAck <- AnyAck
    MaxCrashes = 1
    MaxCopies = 0
CONSTRAINTS
    CrashOrRetry
    OneOnItsWay
INVARIANTS
    TypeOK
    OneCallPerRequestId
    PendingMatchesCalls
PROPERTY EveryCallEnds
