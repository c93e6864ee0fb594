SPECIFICATION FairAdminSpec
CONSTANTS
    t1 = t1
    t2 = t2
    s1 = s1
    s2 = s2
    u1 = u1
    u2 = u2
    d1 = d1
    d2 = d2
    r1 = r1
    r2 = r2
    NoSocket = NoSocket
    Nobody = Nobody
    Terminal = {t1, t2}
    Socket = {s1, s2}
    Attempts = 1
    Resident = {u1, u2}
    Device = {d1, d2}
    Filter = {"pending", "all"}
    Rest = {r1, r2}
    Found <- FoundByRest
    LastPage = 2
    PageSize = 2
    FirstFilter = "pending"
    FirstRest = r1
    MaxClicks = 2
INVARIANTS
    PageTypeOK
    ShownIsAsked
    SpinnerIsLoading
    EditsReachTheirUser
    TerminalTypeOK
    OrphansAreLate
PROPERTIES
    ShellEnds
CHECK_DEADLOCK FALSE
