SPECIFICATION FairSpec
CONSTANTS
    t1 = t1
    t2 = t2
    q1 = q1
    q2 = q2
    None = None
    Tab = {t1, t2}
    Refresh = {q1, q2}
    MaxVersion = 8
    MaxEvents = 4
INVARIANTS
    TypeOK
    CookieFollowsSession
    WaitersAreWoken
PROPERTY LoadingEnds
CHECK_DEADLOCK FALSE
